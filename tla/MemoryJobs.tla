----------------------------- MODULE MemoryJobs -----------------------------
(***************************************************************************)
(* The memory pipeline of Codex: every root session starts it once         *)
(* (codex-rs/memories/write), and all sessions of a user share its tables  *)
(* (codex-rs/state/src/runtime/memories.rs) and its workspace, a directory *)
(* with a git baseline.  Phase 1 extracts a memory from each thread that   *)
(* has changed, phase 2 consolidates the memories under a global lock.     *)
(*                                                                         *)
(* A worker is one process running the pipeline.  An action is one         *)
(* transaction of the state database, or one step on the workspace; the    *)
(* workers interleave between them and may crash there.  Jobs are owned by *)
(* token under a lease.  Time is abstract: a lease, a retry delay and the  *)
(* cooldown are flags that the passing of time clears.                     *)
(***************************************************************************)
EXTENDS Naturals, FiniteSets

CONSTANTS
    Threads,
    Workers,      \* processes; also the ownership token of the claims of its run
    Orphan,       \* a token that no process knows (any more)
    NoBase,       \* the workspace has no .git
    MaxClaimed,   \* max_rollouts_per_startup
    MaxInputs,    \* max_raw_memories_for_consolidation
    Retries,      \* DEFAULT_RETRY_REMAINING
    MaxVersion,   \* bound: how often a thread's updated_at advances, plus one
    MaxFaults,    \* bound: crashes, errors and leases that run out under their owner
    MaxResets     \* bound: memory resets by the user

ASSUME MemoryAssumption ==
    /\ Orphan \notin Workers /\ IsFiniteSet(Threads)
    /\ MaxClaimed \in Nat \ {0} /\ Retries \in Nat \ {0} /\ MaxVersion \in Nat \ {0}
    /\ MaxInputs \in Nat /\ MaxFaults \in Nat /\ MaxResets \in Nat

VARIABLES
    version,  \* thread -> updated_at
    mode,     \* thread -> memory_mode
    job,      \* thread -> its memory_stage1 row of jobs
    out,      \* thread -> its stage1_outputs row: source_updated_at (0: no row) and
              \*   selected_for_phase2_source_updated_at (0: not selected)
    global,   \* the memory_consolidate_global row of jobs
    files,    \* inputs in the workspace: raw_memories.md and rollout_summaries/
    edited,   \* whether an agent has edited the workspace since its baseline
    base,     \* inputs in the git baseline of the workspace
    clearing, \* whether a memory reset is still to clear the workspace
    pc, todo, held, sel,  \* worker -> where it is, candidates, claims, phase-2 inputs
    faults, resets

tables    == <<job, out, global>>
workspace == <<files, edited, base, clearing>>
locals    == <<todo, held, sel>>
bounds    == <<faults, resets>>
vars      == <<version, mode, tables, workspace, pc, locals, bounds>>

\* live: the lease is in the future; waiting: so is retry_at; done: last_success_watermark.
NoJob == [status |-> "none", owner |-> Orphan, live |-> FALSE, waiting |-> FALSE,
          tries |-> 0, input |-> 0, done |-> 0]
\* cooling: it last succeeded within the cooldown.  Its watermarks and retry_remaining
\* decide nothing and are left out.
NoGlobal == [status |-> "none", owner |-> Orphan, live |-> FALSE, waiting |-> FALSE,
             cooling |-> FALSE]
NoOutput == [ver |-> 0, sel |-> 0]

Active(r)  == r.status = "running" /\ r.live
Running    == {t \in Threads : Active(job[t])}
Owned(r, w) == r.status = "running" /\ r.owner = w
\* A process that no longer knows its token leaves an orphan.
Disowned(r, w) == IF r.owner = w THEN [r EXCEPT !.owner = Orphan] ELSE r

Goto(w, label) == pc' = [pc EXCEPT ![w] = label] /\ UNCHANGED locals
Leave(w) == /\ pc' = [pc EXCEPT ![w] = "idle"] /\ sel' = [sel EXCEPT ![w] = {}]
            /\ UNCHANGED <<todo, held>>
Fault == faults < MaxFaults /\ faults' = faults + 1 /\ UNCHANGED resets

\* enqueue_global_consolidation_with_executor: retry_at is cleared, unless it runs.
Enqueued == IF global.status = "running" THEN global
            ELSE [global EXCEPT !.status = "pending", !.waiting = FALSE]

----------------------------------------------------------------------------
(* start_memories_startup_task, phase1::prune and claim_stage1_jobs_for_startup *)

\* Rows that no phase 2 has selected and that were not used for long are deleted.
Prune ==
    \E stale \in SUBSET {t \in Threads : out[t].ver # 0 /\ out[t].sel = 0} :
        out' = [t \in Threads |-> IF t \in stale THEN NoOutput ELSE out[t]]

Start(w) ==
    /\ pc[w] = "idle"
    /\ Prune
    /\ Goto(w, "scan")
    /\ UNCHANGED <<version, mode, job, global, workspace, bounds>>

\* The rate limits of the account are (nearly) used up.
StartLimited(w) ==
    /\ pc[w] = "idle"
    /\ Prune
    /\ UNCHANGED <<version, mode, job, global, workspace, pc, locals, bounds>>

Scan(w) ==
    /\ pc[w] = "scan"
    /\ todo' = [todo EXCEPT ![w] = {<<t, version[t]>> : t \in
                   {t \in Threads : /\ mode[t] = "enabled"
                                    /\ out[t].ver < version[t] /\ job[t].done < version[t]}}]
    /\ pc' = [pc EXCEPT ![w] = "phase1"]
    /\ UNCHANGED <<version, mode, tables, workspace, held, sel, bounds>>

\* try_claim_stage1_job, for the version the scan saw.
UpToDate(t, v) == out[t].ver >= v \/ job[t].done >= v

\* Mutant: the running jobs are counted for a new row only.
ClaimableUncounted(t, v) ==
    /\ ~UpToDate(t, v)
    /\ \/ job[t].status = "none" /\ Cardinality(Running) < MaxClaimed
       \/ /\ job[t].status # "none" /\ ~Active(job[t])
          /\ ~job[t].waiting \/ v > job[t].input
          /\ job[t].tries > 0 \/ v > job[t].input

\* Mutant: a row left running by a worker that is gone is not claimed again.
ClaimableUnlessRunning(t, v) ==
    /\ ~UpToDate(t, v) /\ Cardinality(Running) < MaxClaimed
    /\ \/ job[t].status = "none"
       \/ /\ job[t].status # "running"
          /\ ~job[t].waiting \/ v > job[t].input
          /\ job[t].tries > 0 \/ v > job[t].input

Claimable(t, v) ==
    /\ ~UpToDate(t, v) /\ Cardinality(Running) < MaxClaimed
    /\ \/ job[t].status = "none"
       \/ /\ ~Active(job[t])
          /\ ~job[t].waiting \/ v > job[t].input
          /\ job[t].tries > 0 \/ v > job[t].input

Claim(w, t, v) ==
    /\ pc[w] = "phase1" /\ <<t, v>> \in todo[w]
    /\ \/ /\ Claimable(t, v)
          /\ job' = [job EXCEPT ![t] = [job[t] EXCEPT
                !.status = "running", !.owner = w, !.live = TRUE, !.waiting = FALSE,
                !.tries = IF v > job[t].input THEN Retries ELSE job[t].tries,
                !.input = v]]
          /\ held' = [held EXCEPT ![w] = @ \union {<<t, v>>}]
       \/ ~Claimable(t, v) /\ UNCHANGED <<job, held>>
    /\ todo' = [todo EXCEPT ![w] = IF Cardinality(held'[w]) >= MaxClaimed THEN {}
                                   ELSE @ \ {<<t, v>>}]
    /\ UNCHANGED <<version, mode, out, global, workspace, pc, sel, bounds>>

----------------------------------------------------------------------------
(* phase1::job: the extraction, by a model, of the claimed threads *)

\* A claimed extraction ends: its transaction changes nothing when the row has been
\* claimed by another worker, or deleted, meanwhile.
Finished(w, t, v) ==
    /\ pc[w] = "phase1" /\ todo[w] = {} /\ <<t, v>> \in held[w]
    /\ held' = [held EXCEPT ![w] = @ \ {<<t, v>>}]
    /\ UNCHANGED <<version, mode, workspace, pc, todo, sel, bounds>>

DoneJob(t) ==
    job' = [job EXCEPT ![t] = [job[t] EXCEPT !.status = "done", !.live = FALSE,
                                        !.done = job[t].input]]

\* Mutant: the token is not compared.
SucceededUnowned(w, t, v) ==
    /\ Finished(w, t, v)
    /\ DoneJob(t)
    /\ out' = [out EXCEPT ![t].ver = IF v >= @ THEN v ELSE @]
    /\ global' = Enqueued

\* mark_stage1_job_succeeded: the selection mark of an older memory stays.
Succeeded(w, t, v) ==
    /\ Finished(w, t, v)
    /\ \/ /\ Owned(job[t], w)
          /\ DoneJob(t)
          /\ out' = [out EXCEPT ![t].ver = IF v >= @ THEN v ELSE @]
          /\ global' = Enqueued
       \/ ~Owned(job[t], w) /\ UNCHANGED tables

\* mark_stage1_job_succeeded_no_output.
SucceededNoOutput(w, t, v) ==
    /\ Finished(w, t, v)
    /\ \/ /\ Owned(job[t], w)
          /\ DoneJob(t)
          /\ out' = [out EXCEPT ![t] = NoOutput]
          /\ global' = IF out[t].ver # 0 THEN Enqueued ELSE global
       \/ ~Owned(job[t], w) /\ UNCHANGED tables

\* Mutant: the token is not compared.
FailedUnowned(w, t, v) ==
    /\ Finished(w, t, v)
    /\ job' = [job EXCEPT ![t] = [job[t] EXCEPT !.status = "error", !.live = FALSE,
                                           !.waiting = TRUE, !.tries = job[t].tries - 1]]
    /\ UNCHANGED <<out, global>>

\* mark_stage1_job_failed.
Failed(w, t, v) ==
    /\ Finished(w, t, v)
    /\ \/ /\ Owned(job[t], w)
          /\ job' = [job EXCEPT ![t] = [job[t] EXCEPT !.status = "error", !.live = FALSE,
                                                 !.waiting = TRUE, !.tries = job[t].tries - 1]]
       \/ ~Owned(job[t], w) /\ UNCHANGED job
    /\ UNCHANGED <<out, global>>

\* A database error: while claiming, it loses the claims made so far; afterwards, the
\* result of one extraction.
Phase1Error(w) ==
    /\ pc[w] = "phase1" /\ Fault
    /\ \E lost \in SUBSET held[w] :
          /\ IF todo[w] # {} THEN lost = held[w] ELSE Cardinality(lost) = 1
          /\ held' = [held EXCEPT ![w] = @ \ lost]
          /\ job' = [t \in Threads |-> IF \E v \in 1..MaxVersion : <<t, v>> \in lost
                                       THEN Disowned(job[t], w) ELSE job[t]]
    /\ todo' = [todo EXCEPT ![w] = {}]
    /\ UNCHANGED <<version, mode, out, global, workspace, pc, sel, resets>>

----------------------------------------------------------------------------
(* phase2::run *)

\* try_claim_global_phase2_job: pending or not, whatever the watermarks say.
ClaimGlobal(w) ==
    /\ pc[w] = "phase1" /\ todo[w] = {} /\ held[w] = {}
    /\ \/ /\ ~global.waiting /\ ~Active(global) /\ ~global.cooling
          /\ global' = [global EXCEPT !.status = "running", !.owner = w, !.live = TRUE]
          /\ Goto(w, "prepare")
       \/ /\ global.waiting \/ Active(global) \/ global.cooling
          /\ Leave(w)
          /\ UNCHANGED global
    /\ UNCHANGED <<version, mode, job, out, workspace, bounds>>

\* prepare_memory_workspace: without .git, what is there becomes the baseline.
Prepare(w) ==
    /\ pc[w] = "prepare"
    /\ IF base = NoBase THEN base' = files /\ edited' = FALSE ELSE UNCHANGED <<base, edited>>
    /\ Goto(w, "load")
    /\ UNCHANGED <<version, mode, tables, files, clearing, bounds>>

\* Mutant: the mode of the thread is not looked at.
LoadSelectionAnyMode(w) ==
    /\ pc[w] = "load"
    /\ \E inputs \in SUBSET {t \in Threads : out[t].ver # 0} :
          /\ Cardinality(inputs) <= MaxInputs
          /\ sel' = [sel EXCEPT ![w] = {<<t, out[t].ver>> : t \in inputs}]
    /\ pc' = [pc EXCEPT ![w] = "sync"]
    /\ UNCHANGED <<version, mode, tables, workspace, todo, held, bounds>>

\* get_phase2_input_selection: memories that are too old, or ranked too low, are left
\* out; which ones is up to the clock and to their use.
LoadSelection(w) ==
    /\ pc[w] = "load"
    /\ \E inputs \in SUBSET {t \in Threads : mode[t] = "enabled" /\ out[t].ver # 0} :
          /\ Cardinality(inputs) <= MaxInputs
          /\ sel' = [sel EXCEPT ![w] = {<<t, out[t].ver>> : t \in inputs}]
    /\ pc' = [pc EXCEPT ![w] = "sync"]
    /\ UNCHANGED <<version, mode, tables, workspace, todo, held, bounds>>

\* sync_phase2_workspace_inputs.
SyncInputs(w) ==
    /\ pc[w] = "sync"
    /\ files' = sel[w]
    /\ Goto(w, "diff")
    /\ UNCHANGED <<version, mode, tables, edited, base, clearing, bounds>>

\* memory_workspace_diff: the agent is spawned only if something has changed.
Diff(w) ==
    /\ pc[w] = "diff" /\ base # NoBase
    /\ Goto(w, IF files = base /\ ~edited THEN "succeed" ELSE "agent")
    /\ UNCHANGED <<version, mode, tables, workspace, bounds>>

AgentEdits(w) ==
    /\ pc[w] = "agent"
    /\ edited' = TRUE
    /\ UNCHANGED <<version, mode, tables, files, base, clearing, pc, locals, bounds>>

\* loop_agent: a heartbeat that finds another owner ends the run.
Heartbeat(w) ==
    /\ pc[w] = "agent"
    /\ \/ /\ Owned(global, w)
          /\ global' = [global EXCEPT !.live = TRUE]
          /\ UNCHANGED <<pc, locals>>
       \/ /\ ~Owned(global, w)
          /\ Leave(w)
          /\ UNCHANGED global
    /\ UNCHANGED <<version, mode, job, out, workspace, bounds>>

\* Mutant: the baseline is reset without asking who owns the lock.
AgentCompletedUnchecked(w) ==
    /\ pc[w] = "agent"
    /\ Goto(w, "reset")
    /\ UNCHANGED <<version, mode, tables, workspace, bounds>>

\* agent::handle: the agent has completed, and a last heartbeat tells whether the lock
\* is still held.
AgentCompleted(w) ==
    /\ pc[w] = "agent"
    /\ \/ /\ Owned(global, w)
          /\ global' = [global EXCEPT !.live = TRUE]
          /\ Goto(w, "reset")
       \/ /\ ~Owned(global, w)
          /\ Leave(w)
          /\ UNCHANGED global
    /\ UNCHANGED <<version, mode, job, out, workspace, bounds>>

\* reset_memory_workspace_baseline.
ResetBaseline(w) ==
    /\ pc[w] = "reset"
    /\ base' = files /\ edited' = FALSE
    /\ Goto(w, "succeed")
    /\ UNCHANGED <<version, mode, tables, files, clearing, bounds>>

\* Mutant: the marks are set by thread, whatever version of it was consumed.
SucceedGlobalByThread(w) ==
    /\ pc[w] = "succeed"
    /\ \/ /\ Owned(global, w)
          /\ global' = [global EXCEPT !.status = "done", !.live = FALSE, !.cooling = TRUE]
          /\ out' = [t \in Threads |-> [out[t] EXCEPT
                        !.sel = IF \E x \in sel[w] : x[1] = t THEN out[t].ver ELSE 0]]
       \/ ~Owned(global, w) /\ UNCHANGED <<global, out>>
    /\ Leave(w)
    /\ UNCHANGED <<version, mode, job, workspace, bounds>>

\* mark_global_phase2_job_succeeded: exactly the consumed snapshots that are still the
\* current ones are marked.
SucceedGlobal(w) ==
    /\ pc[w] = "succeed"
    /\ \/ /\ Owned(global, w)
          /\ global' = [global EXCEPT !.status = "done", !.live = FALSE, !.cooling = TRUE]
          /\ out' = [t \in Threads |-> [out[t] EXCEPT
                        !.sel = IF <<t, out[t].ver>> \in sel[w] THEN out[t].ver ELSE 0]]
       \/ ~Owned(global, w) /\ UNCHANGED <<global, out>>
    /\ Leave(w)
    /\ UNCHANGED <<version, mode, job, workspace, bounds>>

\* job::failed: mark_global_phase2_job_failed, else ..._if_unowned, which finds no row
\* without an owner either.
FailGlobal(w) ==
    /\ global' = IF Owned(global, w)
                 THEN [global EXCEPT !.status = "error", !.live = FALSE, !.waiting = TRUE]
                 ELSE global
    /\ Leave(w)
    /\ UNCHANGED <<version, mode, job, out, workspace>>

\* A step on the workspace, a query, a heartbeat or the agent fails.
Phase2Error(w) ==
    /\ pc[w] \in {"prepare", "load", "sync", "diff", "agent", "reset"} /\ Fault
    /\ FailGlobal(w)

\* There is no baseline to compare with: the memories were reset meanwhile.
DiffFails(w) ==
    /\ pc[w] = "diff" /\ base = NoBase
    /\ FailGlobal(w)
    /\ UNCHANGED bounds
----------------------------------------------------------------------------
(* The user, the clock and crashes *)

\* The thread is used: updated_at advances.
Update(t) ==
    /\ version[t] < MaxVersion
    /\ version' = [version EXCEPT ![t] = @ + 1]
    /\ UNCHANGED <<mode, tables, workspace, pc, locals, bounds>>

\* mark_thread_memory_mode_polluted.
Pollute(t) ==
    /\ mode[t] # "polluted"
    /\ mode' = [mode EXCEPT ![t] = "polluted"]
    /\ global' = IF out[t].sel # 0 THEN Enqueued ELSE global
    /\ UNCHANGED <<version, job, out, workspace, pc, locals, bounds>>

\* memory/reset: clear_memory_data, and then the directory, unless that fails.
ClearMemoryData ==
    /\ resets < MaxResets /\ ~clearing
    /\ job' = [t \in Threads |-> NoJob] /\ global' = NoGlobal
    /\ out' = [t \in Threads |-> NoOutput]
    /\ resets' = resets + 1 /\ clearing' = TRUE
    /\ UNCHANGED <<version, mode, files, edited, base, pc, locals, faults>>

ClearMemoryRoot ==
    /\ clearing /\ clearing' = FALSE
    /\ files' = {} /\ edited' = FALSE /\ base' = NoBase
    /\ UNCHANGED <<version, mode, tables, pc, locals, bounds>>

ClearingFails ==
    /\ clearing /\ clearing' = FALSE /\ Fault
    /\ UNCHANGED <<version, mode, tables, files, edited, base, pc, locals>>

\* The lease of an extraction runs out: its worker is gone, or too slow.
JobLeaseExpires(t) ==
    /\ Active(job[t])
    /\ IF job[t].owner = Orphan THEN UNCHANGED bounds ELSE Fault
    /\ job' = [job EXCEPT ![t].live = FALSE]
    /\ UNCHANGED <<version, mode, out, global, workspace, pc, locals>>

\* The lease of the consolidation runs out: its worker is gone, or its machine slept
\* while the agent was running.  No other step of phase 2 takes an hour.
GlobalLeaseExpires ==
    /\ Active(global)
    /\ \/ global.owner = Orphan /\ UNCHANGED bounds
       \/ global.owner # Orphan /\ pc[global.owner] = "agent" /\ Fault
    /\ global' = [global EXCEPT !.live = FALSE]
    /\ UNCHANGED <<version, mode, job, out, workspace, pc, locals>>

JobRetryElapses(t) ==
    /\ job[t].waiting
    /\ job' = [job EXCEPT ![t].waiting = FALSE]
    /\ UNCHANGED <<version, mode, out, global, workspace, pc, locals, bounds>>

GlobalDelayElapses ==
    /\ global.waiting \/ global.cooling
    /\ global' = [global EXCEPT !.waiting = FALSE, !.cooling = FALSE]
    /\ UNCHANGED <<version, mode, job, out, workspace, pc, locals, bounds>>

\* The process ends; a database error at the very end of phase 2 looks the same.
Crash(w) ==
    /\ pc[w] # "idle" /\ Fault
    /\ job' = [t \in Threads |-> Disowned(job[t], w)] /\ global' = Disowned(global, w)
    /\ pc' = [pc EXCEPT ![w] = "idle"] /\ todo' = [todo EXCEPT ![w] = {}]
    /\ held' = [held EXCEPT ![w] = {}] /\ sel' = [sel EXCEPT ![w] = {}]
    /\ UNCHANGED <<version, mode, out, workspace>>

----------------------------------------------------------------------------
Init ==
    /\ version = [t \in Threads |-> 1]
    /\ mode \in [Threads -> {"enabled", "disabled"}]   \* memories.generate_memories
    /\ job = [t \in Threads |-> NoJob] /\ global = NoGlobal
    /\ out = [t \in Threads |-> NoOutput]
    /\ files = {} /\ edited = FALSE /\ base = NoBase /\ clearing = FALSE
    /\ pc = [w \in Workers |-> "idle"] /\ todo = [w \in Workers |-> {}]
    /\ held = [w \in Workers |-> {}] /\ sel = [w \in Workers |-> {}]
    /\ faults = 0 /\ resets = 0

Versions == 1..MaxVersion

Phase1(w) ==
    \/ Scan(w)
    \/ \E t \in Threads, v \in Versions :
          Claim(w, t, v) \/ Succeeded(w, t, v) \/ SucceededNoOutput(w, t, v) \/ Failed(w, t, v)

Phase2(w) ==
    \/ ClaimGlobal(w) \/ Prepare(w) \/ LoadSelection(w) \/ SyncInputs(w) \/ Diff(w)
    \/ DiffFails(w) \/ AgentCompleted(w) \/ ResetBaseline(w) \/ SucceedGlobal(w)

Clock(t) == JobLeaseExpires(t) \/ JobRetryElapses(t)

Next ==
    \/ \E w \in Workers :
          \/ Start(w) \/ StartLimited(w) \/ Phase1(w) \/ Phase2(w)
          \/ AgentEdits(w) \/ Heartbeat(w)
          \/ Phase1Error(w) \/ Phase2Error(w) \/ Crash(w)
    \/ \E t \in Threads : Update(t) \/ Pollute(t) \/ Clock(t)
    \/ GlobalLeaseExpires \/ GlobalDelayElapses
    \/ ClearMemoryData \/ ClearMemoryRoot \/ ClearingFails

Spec == Init /\ [][Next]_vars

(***************************************************************************)
(* A worker takes its next step, its models answer and its agent ends; the *)
(* clock advances; and the user keeps starting sessions.  Faults, resets   *)
(* and what the user does with a thread get no fairness.                   *)
(***************************************************************************)
Fairness ==
    /\ \A w \in Workers : WF_vars(Start(w)) /\ WF_vars(Phase1(w) \/ Phase2(w))
    /\ \A t \in Threads : WF_vars(Clock(t))
    /\ WF_vars(GlobalLeaseExpires) /\ WF_vars(GlobalDelayElapses)

FairSpec == Spec /\ Fairness

----------------------------------------------------------------------------
(* Properties *)

Snapshots == Threads \X Versions

\* The rows of the tables.
JobRow    == [status : {"none", "running", "done", "error"},
              owner : Workers \union {Orphan}, live : BOOLEAN, waiting : BOOLEAN,
              tries : 0..Retries, input : 0..MaxVersion, done : 0..MaxVersion]
OutputRow == [ver : 0..MaxVersion, sel : 0..MaxVersion]
GlobalRow == [status : {"none", "pending", "running", "done", "error"},
              owner : Workers \union {Orphan}, live : BOOLEAN, waiting : BOOLEAN,
              cooling : BOOLEAN]
Labels    == {"idle", "scan", "phase1", "prepare", "load", "sync", "diff", "agent",
              "reset", "succeed"}

\* Type invariant of the tables, the workspace and the workers.
TypeOK ==
    /\ version \in [Threads -> Versions]
    /\ mode \in [Threads -> {"enabled", "disabled", "polluted"}]
    /\ job \in [Threads -> JobRow] /\ out \in [Threads -> OutputRow] /\ global \in GlobalRow
    /\ files \subseteq Snapshots /\ edited \in BOOLEAN /\ clearing \in BOOLEAN
    /\ base \in (SUBSET Snapshots) \union {NoBase}
    /\ pc \in [Workers -> Labels] /\ todo \in [Workers -> SUBSET Snapshots]
    /\ held \in [Workers -> SUBSET Snapshots] /\ sel \in [Workers -> SUBSET Snapshots]
    /\ faults \in 0..MaxFaults /\ resets \in 0..MaxResets

\* Safety.  However claims, results, crashes and expiring leases interleave, no more
\* extractions run under a lease than max_rollouts_per_startup.
RunningWithinCap == Cardinality(Running) <= MaxClaimed

\* Safety.  The stored memory of a thread is the one of its last successful extraction:
\* a worker that lost its lease to another, and comes back late, neither brings back an
\* older memory nor marks a newer one as extracted.
OutputMatchesWatermark ==
    \A t \in Threads : out[t].ver # 0 => out[t].ver = job[t].done

\* Safety.  When the last consolidation was recorded as a success, every memory marked
\* as selected is in the workspace's baseline in exactly the marked version, whoever
\* crashed or lost the lock between the reset of the baseline and the record.  The
\* marks decide whether polluting a thread asks for forgetting and what pruning keeps.
\* It fails when the memories are reset under a running consolidation.
SelectionInBaseline ==
    global.status = "done" /\ resets = 0 =>
        \A t \in Threads : out[t].sel # 0 => <<t, out[t].sel>> \in base

\* Safety.  Apart from the agents themselves, the steps on the workspace exclude each
\* other: no worker prepares, fills, compares or commits it while another does, also when
\* an agent outlives its lease and another worker has taken over ("Do not reset the
\* workspace baseline if we lost the lock").
WorkspaceStepsExclusive ==
    resets = 0 =>
        \A v, w \in Workers :
            {pc[v], pc[w]} \subseteq {"prepare", "load", "sync", "diff", "reset", "succeed"}
            => v = w

\* Liveness.  A thread that was polluted is forgotten for good: from some point on no
\* memory of it is in the workspace or in its baseline.
PollutedForgotten ==
    \A t \in Threads :
        mode[t] = "polluted" ~>
        [](\A v \in Versions : <<t, v>> \notin files /\ (base # NoBase => <<t, v>> \notin base))

\* Liveness.  A changed thread is extracted, unless its retries are used up or it is
\* excluded: orphaned rows, failures and the cap never block it for good.
EveryThreadExtracted ==
    \A t \in Threads : \A v \in Versions :
        (version[t] = v) ~>
        (job[t].done >= v \/ version[t] # v \/ mode[t] # "enabled"
         \/ (job[t].status = "error" /\ job[t].tries = 0))
=============================================================================
