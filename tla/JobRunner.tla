------------------------------ MODULE JobRunner ------------------------------
(***************************************************************************)
(* The content job runner (internal/content/runner.go, bundle.go,          *)
(* import.go, import_job.go) over the job and source rows                  *)
(* (internal/store/content/jobs.go, sources.go): StartSync and its bundle  *)
(* and v1-import variants, Cancel, the worker loop with its progress       *)
(* reports, Stop, and Boot after a stop or a crash.                        *)
(*                                                                         *)
(* Every read and every write transaction of these functions is a step of  *)
(* its own; rows are written with the values the caller read or chose      *)
(* earlier, as Jobs.Update does.  Each may fail, since its request is gone *)
(* or the process is stopping: Update reads its row back, and fails before *)
(* or after the commit.  The adapter's phases are one pipeline that        *)
(* reports progress any number of times and ends.                          *)
(***************************************************************************)
EXTENDS Integers, Sequences, FiniteSets

CONSTANTS
    Jobs,         \* the job each enqueue call would create
    Uploads,      \* the jobs enqueued over a spooled upload (cleanup_upload)
    Sources,      \* content sources
    Cancellers,   \* Cancel calls
    MaxFaults,    \* bound: process stops, crashes and failed transactions of the worker
    NoJob         \* no job

ASSUME RunnerAssumption ==
    /\ IsFiniteSet(Jobs) /\ Uploads \subseteq Jobs /\ NoJob \notin Jobs
    /\ Sources # {} /\ MaxFaults \in Nat

VARIABLES
    status,     \* job row: status, "none" before Create
    cp,         \* job row: checkpoint naming the upload
    source,     \* job row: source_id
    created,    \* jobs in created_at order
    sync,       \* source row: status
    file,       \* the spooled upload exists
    phase,      \* process: "up", "stopping", "down" or "boot" (jobs reconciled, sources not)
    faults,     \* stops, crashes and failed worker transactions so far
    spc, sread, \* each enqueue call: where it is, the status Create read back
    cpc, cjob, cread,  \* each Cancel call: where it is, its job, the status it read
    wpc, wjob, wseen, verdict,  \* the worker
    wcp,        \* the checkpoint of wjob as the worker read it
    runCtx,     \* the run context: "none" until registered, "live", "cancelled" or "deadline"
    raced       \* history: <<job, kind>> of each step that acted on an outdated read or gave up midway

rows == <<status, cp, source, created, sync, file>>
starters == <<spc, sread>>
cancellers == <<cpc, cjob, cread>>
worker == <<wpc, wjob, wcp, wseen, verdict, runCtx>>
vars == <<rows, phase, faults, starters, cancellers, worker, raced>>

Terminal == {"succeeded", "failed", "cancelled", "interrupted"}
Active == {"queued", "running", "cancelling"}
Statuses == Terminal \cup Active \cup {"none"}
Kinds == {"gate", "write", "claim", "syncing", "abandon", "early", "unclaimed", "stranded",
          "uncleared"}
Races == Jobs \X Kinds

TypeOK ==
    /\ status \in [Jobs -> Statuses]
    /\ cp \in [Jobs -> BOOLEAN] /\ file \in [Jobs -> BOOLEAN]
    /\ source \in [Jobs -> Sources]
    /\ created \in Seq(Jobs)
    /\ sync \in [Sources -> {"idle", "syncing", "error"}]
    /\ phase \in {"up", "stopping", "down", "boot"} /\ faults \in 0..MaxFaults
    /\ spc \in [Jobs -> {"idle", "gated", "inserted", "created", "stored", "done"}]
    /\ sread \in [Jobs -> Statuses]
    /\ cpc \in [Cancellers -> {"idle", "read", "source", "ctx", "done"}]
    /\ cjob \in [Cancellers -> Jobs \cup {NoJob}] /\ cread \in [Cancellers -> Statuses]
    /\ wpc \in {"idle", "claimed", "register", "run", "report", "reread", "cleanup", "finish", "source"}
    /\ wjob \in Jobs \cup {NoJob} /\ wcp \in BOOLEAN /\ wseen \in Statuses
    /\ verdict \in {"none", "ok", "error", "ctx"} \cup Terminal
    /\ runCtx \in {"none", "live", "cancelled", "deadline"}
    /\ raced \subseteq Races

Init ==
    /\ status = [j \in Jobs |-> "none"]
    /\ cp = [j \in Jobs |-> FALSE] /\ file = [j \in Jobs |-> FALSE]
    /\ source \in [Jobs -> Sources]
    /\ created = << >>
    /\ sync = [s \in Sources |-> "idle"]
    /\ phase = "down" /\ faults = 0
    /\ spc = [j \in Jobs |-> "idle"] /\ sread = [j \in Jobs |-> "none"]
    /\ cpc = [c \in Cancellers |-> "idle"]
    /\ cjob = [c \in Cancellers |-> NoJob] /\ cread = [c \in Cancellers |-> "none"]
    /\ wpc = "idle" /\ wjob = NoJob /\ wcp = FALSE /\ wseen = "none" /\ verdict = "none"
    /\ runCtx = "none"
    /\ raced = {}

\* Jobs.Update writes the status it is given, whatever the row holds.
Update(j, st) == status' = [status EXCEPT ![j] = st]
SetSyncState(s, st) == sync' = [sync EXCEPT ![s] = st]
Race(j, kind, outdated) == raced' = IF outdated THEN raced \cup {<<j, kind>>} ELSE raced

\* cleanupJobUpload: the file is dropped if the checkpoint the caller holds names it.
DropUpload(j, named) == file' = [file EXCEPT ![j] = file[j] /\ ~named]

ActiveJobs == {j \in Jobs : status[j] \in Active}

\* [mutant] a cancelling job does not occupy the slot.
FindQueuedOrRunning == {j \in Jobs : status[j] \in {"queued", "running"}}

FindActive == {j \in Jobs : status[j] \in {"queued", "running", "cancelling"}}

-----------------------------------------------------------------------------
(* StartSync, StartBundleImport, StartV1Import *)

SGoto(j, l) == spc' = [spc EXCEPT ![j] = l]

\* The upload is spooled first; a busy slot answers 409 and drops it again.
Gate(j) ==
    /\ phase = "up" /\ spc[j] = "idle"
    /\ IF FindActive # {}
       THEN SGoto(j, "done") /\ UNCHANGED file
       ELSE SGoto(j, "gated") /\ file' = [file EXCEPT ![j] = j \in Uploads]
    /\ UNCHANGED <<status, cp, source, created, sync, phase, faults, sread, cancellers,
                   worker, raced>>

\* Jobs.Create inserts a queued row ...
Create(j) ==
    /\ phase = "up" /\ spc[j] = "gated"
    /\ Update(j, "queued")
    /\ created' = Append(created, j)
    /\ Race(j, "gate", FindActive # {})
    /\ SGoto(j, "inserted")
    /\ UNCHANGED <<cp, source, sync, file, phase, faults, sread, cancellers, worker>>

\* ... and reads it back.
ReadBack(j) ==
    /\ phase = "up" /\ spc[j] = "inserted"
    /\ IF j \in Uploads
       THEN SGoto(j, "created") /\ sread' = [sread EXCEPT ![j] = status[j]]
       ELSE SGoto(j, "stored") /\ UNCHANGED sread
    /\ UNCHANGED <<rows, phase, faults, cancellers, worker, raced>>

\* The checkpoint is stored with an Update that carries the status read back.
StoreCheckpoint(j) ==
    /\ phase = "up" /\ spc[j] = "created"
    /\ Update(j, sread[j])
    /\ cp' = [cp EXCEPT ![j] = TRUE]
    /\ Race(j, "write", status[j] # sread[j])
    /\ SGoto(j, "stored") /\ sread' = [sread EXCEPT ![j] = "none"]
    /\ UNCHANGED <<source, created, sync, file, phase, faults, cancellers, worker>>

\* The source is marked syncing; the job may have ended by then.
MarkSyncing(j) ==
    /\ phase = "up" /\ spc[j] = "stored"
    /\ SetSyncState(source[j], "syncing")
    /\ Race(j, "syncing", status[j] \in Terminal)
    /\ SGoto(j, "done")
    /\ UNCHANGED <<status, cp, source, created, file, phase, faults, sread, cancellers, worker>>

\* A write of the call fails (its request is gone, the process is stopping): the
\* call returns the error and drops the upload.  A row it has created stays.
Abandon(j) ==
    /\ spc[j] \in {"gated", "inserted", "created", "stored"}
    /\ file' = [file EXCEPT ![j] = FALSE]
    /\ Race(j, "abandon", spc[j] # "gated" /\ file[j])
    /\ SGoto(j, "done") /\ sread' = [sread EXCEPT ![j] = "none"]
    /\ UNCHANGED <<status, cp, source, created, sync, phase, faults, cancellers, worker>>

StartSync(j) ==
    Gate(j) \/ Create(j) \/ ReadBack(j) \/ StoreCheckpoint(j) \/ MarkSyncing(j) \/ Abandon(j)

-----------------------------------------------------------------------------
(* Cancel *)

CGoto(c, l) == cpc' = [cpc EXCEPT ![c] = l]
CDone(c) ==
    /\ CGoto(c, "done")
    /\ cjob' = [cjob EXCEPT ![c] = NoJob] /\ cread' = [cread EXCEPT ![c] = "none"]

\* A terminal job is a 409, a cancelling one is answered as it is.
CancelRead(c, j) ==
    /\ phase = "up" /\ cpc[c] = "idle" /\ status[j] # "none"
    /\ IF status[j] \in {"queued", "running"}
       THEN /\ CGoto(c, "read")
            /\ cjob' = [cjob EXCEPT ![c] = j] /\ cread' = [cread EXCEPT ![c] = status[j]]
       ELSE CDone(c)
    /\ UNCHANGED <<rows, phase, faults, starters, worker, raced>>

CancelWrite(c) ==
    LET j == cjob[c] IN
    /\ phase = "up" /\ cpc[c] = "read"
    /\ Update(j, IF cread[c] = "queued" THEN "cancelled" ELSE "cancelling")
    /\ Race(j, "write", status[j] # cread[c])
    /\ CGoto(c, IF cread[c] = "queued" THEN "source" ELSE "ctx")
    /\ UNCHANGED <<cp, source, created, sync, file, phase, faults, starters, cjob, cread, worker>>

\* A queued job: its source goes idle and its upload is dropped.  The job is
\* cancelled by then, so a source that cannot be read or written is only logged.
CancelSource(c) ==
    LET j == cjob[c] IN
    /\ cpc[c] = "source"
    /\ \/ phase = "up" /\ SetSyncState(source[j], "idle") /\ UNCHANGED raced
       \/ UNCHANGED sync /\ Race(j, "uncleared", phase = "up")
    /\ DropUpload(j, cp[j])
    /\ CDone(c)
    /\ UNCHANGED <<status, cp, source, created, phase, faults, starters, worker>>

\* A running job: its context is cancelled, if the worker has registered it.
CancelCtx(c) ==
    /\ cpc[c] = "ctx"
    /\ runCtx' = IF runCtx = "live" /\ wjob = cjob[c] THEN "cancelled" ELSE runCtx
    /\ CDone(c)
    /\ UNCHANGED <<rows, phase, faults, starters, wpc, wjob, wcp, wseen, verdict, raced>>

\* The update fails, before its commit ("read") or after it, as the row is read
\* back: neither source, upload nor context is touched.
CancelFails(c) ==
    /\ cpc[c] \in {"read", "source", "ctx"}
    /\ Race(cjob[c], "uncleared", cpc[c] = "source" /\ phase = "up")
    /\ CDone(c)
    /\ UNCHANGED <<rows, phase, faults, starters, worker>>

Cancel(c) ==
    \/ \E j \in Jobs : CancelRead(c, j)
    \/ CancelWrite(c) \/ CancelSource(c) \/ CancelCtx(c) \/ CancelFails(c)

-----------------------------------------------------------------------------
(* The worker: tick, execute, jobProgress.Report, succeedJob, failJob, cancelJob *)

\* The worker's locals are gone and its run context is unregistered.
WorkerIdle ==
    /\ wpc' = "idle" /\ wjob' = NoJob /\ wcp' = FALSE /\ wseen' = "none" /\ verdict' = "none"
    /\ runCtx' = "none"

\* The oldest queued job.
NextQueued(j) ==
    /\ status[j] = "queued"
    /\ \E i \in 1..Len(created) :
          created[i] = j /\ \A k \in 1..(i - 1) : status[created[k]] # "queued"

Tick ==
    /\ phase = "up" /\ wpc = "idle"
    /\ \E j \in Jobs : NextQueued(j) /\ wjob' = j /\ wcp' = cp[j]
    /\ wpc' = "claimed" /\ verdict' = "none"
    /\ UNCHANGED <<rows, phase, faults, starters, cancellers, wseen, runCtx, raced>>

\* The source or its adapter is missing, or a v1 import cannot read its upload:
\* the job fails without a pipeline, in the first case before it is claimed.
LoadSourceFails ==
    /\ wpc \in {"claimed", "run"}
    /\ wpc' = "cleanup" /\ verdict' = "failed" /\ runCtx' = "none"
    /\ Race(wjob, "early", wpc = "claimed" /\ wcp)
    /\ UNCHANGED <<rows, phase, faults, starters, cancellers, wjob, wcp, wseen>>

\* The row becomes running, whatever it says now.
ClaimRunning ==
    /\ phase = "up" /\ wpc = "claimed"
    /\ Update(wjob, "running")
    /\ Race(wjob, "claim", status[wjob] # "queued")
    /\ wpc' = "register"
    /\ UNCHANGED <<cp, source, created, sync, file, phase, faults, starters, cancellers,
                   wjob, wcp, wseen, verdict, runCtx>>

\* runCancel and runJobID are set: from here on Cancel reaches the context.
Register ==
    /\ wpc = "register"
    /\ runCtx' = (IF phase = "up" THEN "live" ELSE "cancelled") /\ wpc' = "run"
    /\ UNCHANGED <<rows, phase, faults, starters, cancellers, wjob, wcp, wseen, verdict, raced>>

\* The deadline passes; after Reread nothing looks at the context any more.
JobTimeout ==
    /\ runCtx = "live" /\ wpc \in {"run", "report", "reread"}
    /\ runCtx' = "deadline"
    /\ UNCHANGED <<rows, phase, faults, starters, cancellers, wpc, wjob, wcp, wseen, verdict, raced>>

\* Report reads the row (a done context reads nothing, and a failed read is
\* passed over) ...
ReportRead ==
    /\ wpc = "run"
    /\ wseen' \in {"none"} \cup (IF runCtx = "live" THEN {status[wjob]} ELSE {})
    /\ wpc' = "report"
    /\ UNCHANGED <<rows, phase, faults, starters, cancellers, wjob, wcp, verdict, runCtx, raced>>

\* ... and writes the progress with the status it read, or running.  A write
\* that fails is only logged.
ReportWrite ==
    /\ wpc = "report"
    /\ \/ /\ runCtx = "live"
          /\ Update(wjob, IF wseen \in Terminal \cup {"cancelling"} THEN wseen ELSE "running")
       \/ UNCHANGED status
    /\ wpc' = "run" /\ wseen' = "none"
    /\ UNCHANGED <<cp, source, created, sync, file, phase, faults, starters, cancellers,
                   wjob, wcp, verdict, runCtx, raced>>

\* runPipeline returns: done, failed, or stopped by its context.
PipelineEnds ==
    /\ wpc = "run"
    /\ verdict' \in {"ok", "error"} \cup (IF runCtx = "live" THEN {} ELSE {"ctx"})
    /\ wpc' = "reread"
    /\ UNCHANGED <<rows, phase, faults, starters, cancellers, wjob, wcp, wseen, runCtx, raced>>

\* The outcome, from the pipeline's error, its context and the row read now.
Decide ==
    CASE verdict = "ok" -> "succeeded"
      [] verdict # "ok" /\ runCtx = "deadline" -> "failed"
      [] verdict # "ok" /\ runCtx # "deadline" /\ (verdict = "ctx" \/ status[wjob] = "cancelling")
           -> "cancelled"
      [] OTHER -> "failed"

\* (The run context stays registered to the end, but nothing looks at it again.)
Reread ==
    /\ phase = "up" /\ wpc = "reread"
    /\ verdict' = Decide /\ wcp' = cp[wjob]
    /\ wpc' = "cleanup" /\ runCtx' = "none"
    /\ UNCHANGED <<rows, phase, faults, starters, cancellers, wjob, wseen, raced>>

\* cleanupJobUpload comes first: the upload is dropped while the row is in flight.
CleanupUpload ==
    /\ wpc = "cleanup"
    /\ DropUpload(wjob, wcp)
    /\ wpc' = "finish"
    /\ UNCHANGED <<status, cp, source, created, sync, phase, faults, starters, cancellers, wjob, wcp,
                   wseen, verdict, runCtx, raced>>

\* [mutant] the final status is written only over a row still running.
FinishJobGuarded ==
    /\ phase = "up" /\ wpc = "finish"
    /\ IF status[wjob] = "running" THEN Update(wjob, verdict) ELSE UNCHANGED status
    /\ wpc' = "source"
    /\ UNCHANGED <<cp, source, created, sync, file, phase, faults, starters, cancellers, wjob, wcp, wseen,
                   verdict, runCtx, raced>>

\* The final status is written over whatever the row says now.
FinishJob ==
    /\ phase = "up" /\ wpc = "finish"
    /\ Update(wjob, verdict)
    /\ wpc' = "source"
    /\ UNCHANGED <<cp, source, created, sync, file, phase, faults, starters, cancellers, wjob, wcp, wseen,
                   verdict, runCtx, raced>>

\* [mutant] a cancelled job leaves its source alone.
FinishSourceSkipsCancelled ==
    /\ phase = "up" /\ wpc = "source"
    /\ IF verdict = "cancelled" THEN UNCHANGED sync
       ELSE SetSyncState(source[wjob], IF verdict = "failed" THEN "error" ELSE "idle")
    /\ WorkerIdle
    /\ UNCHANGED <<status, cp, source, created, file, phase, faults, starters, cancellers, raced>>

\* The source follows, and the run context is unregistered.
FinishSource ==
    /\ phase = "up" /\ wpc = "source"
    /\ SetSyncState(source[wjob], IF verdict = "failed" THEN "error" ELSE "idle")
    /\ WorkerIdle
    /\ UNCHANGED <<status, cp, source, created, file, phase, faults, starters, cancellers, raced>>

\* A read or a write of the worker fails: execute returns the error, drops the
\* upload the checkpoint names and leaves the row as it is, queued if the claim
\* failed.  A stopping process fails them all.
WorkerFails ==
    /\ wpc \in {"claimed", "register", "reread", "finish", "source"}
    /\ IF phase = "up"
       THEN faults < MaxFaults /\ faults' = faults + 1
       ELSE UNCHANGED faults
    /\ IF wpc = "claimed" THEN Race(wjob, "unclaimed", wcp)
                         ELSE Race(wjob, "stranded", phase = "up")
    /\ DropUpload(wjob, wcp)
    /\ WorkerIdle
    /\ UNCHANGED <<status, cp, source, created, sync, phase, starters, cancellers>>

Worker ==
    \/ Tick \/ LoadSourceFails \/ ClaimRunning \/ Register
    \/ ReportRead \/ ReportWrite \/ PipelineEnds \/ Reread \/ CleanupUpload \/ FinishJob \/ FinishSource
    \/ WorkerFails

-----------------------------------------------------------------------------
(* Stop or crash, and Boot *)

\* Stop cancels the worker and the run context; at the server DB.Close fails
\* every transaction from here on.  The worker runs on until one does.
Stop ==
    /\ faults < MaxFaults /\ phase = "up"
    /\ faults' = faults + 1 /\ phase' = "stopping"
    /\ runCtx' = IF runCtx = "live" THEN "cancelled" ELSE runCtx
    /\ UNCHANGED <<rows, starters, cancellers, wpc, wjob, wcp, wseen, verdict, raced>>

\* Every call and the worker are gone; rows and files stay.
Down ==
    /\ phase' = "down"
    /\ spc' = [j \in Jobs |-> IF spc[j] = "idle" THEN "idle" ELSE "done"]
    /\ cpc' = [c \in Cancellers |-> IF cpc[c] = "idle" THEN "idle" ELSE "done"]
    /\ sread' = [j \in Jobs |-> "none"]
    /\ cjob' = [c \in Cancellers |-> NoJob] /\ cread' = [c \in Cancellers |-> "none"]
    /\ WorkerIdle
    /\ UNCHANGED <<rows, raced>>

\* The stopping process ends.  The CLI waits for the worker first, the server does
\* not.
Exit == phase = "stopping" /\ Down /\ UNCHANGED faults

Crash ==
    /\ faults < MaxFaults /\ phase \in {"up", "boot"}
    /\ faults' = faults + 1
    /\ Down

\* [mutant] only running rows are reconciled.
InterruptRunningOnly ==
    /\ phase = "down"
    /\ status' = [j \in Jobs |-> IF status[j] = "running" THEN "interrupted" ELSE status[j]]
    /\ phase' = "boot"
    /\ UNCHANGED <<cp, source, created, sync, file, faults, starters, cancellers, worker, raced>>

\* [mutant] jobs in flight are queued again instead.
RequeueInFlight ==
    /\ phase = "down"
    /\ status' = [j \in Jobs |-> IF status[j] \in {"running", "cancelling"} THEN "queued"
                                 ELSE status[j]]
    /\ phase' = "boot"
    /\ UNCHANGED <<cp, source, created, sync, file, faults, starters, cancellers, worker, raced>>

\* Boot: running and cancelling rows become interrupted ...
InterruptInFlight ==
    /\ phase = "down"
    /\ status' = [j \in Jobs |-> IF status[j] \in {"running", "cancelling"} THEN "interrupted"
                                 ELSE status[j]]
    /\ phase' = "boot"
    /\ UNCHANGED <<cp, source, created, sync, file, faults, starters, cancellers, worker, raced>>

\* ... and syncing sources idle; then the worker starts.
ResetSyncing ==
    /\ phase = "boot"
    /\ sync' = [s \in Sources |-> IF sync[s] = "syncing" THEN "idle" ELSE sync[s]]
    /\ phase' = "up"
    /\ UNCHANGED <<status, cp, source, created, file, faults, starters, cancellers, worker, raced>>

Boot == InterruptInFlight \/ ResetSyncing

Next ==
    \/ \E j \in Jobs : StartSync(j)
    \/ \E c \in Cancellers : Cancel(c)
    \/ Worker \/ JobTimeout \/ Stop \/ Exit \/ Crash \/ Boot

Spec == Init /\ [][Next]_vars

(* Fairness: a stopping process ends, the process is restarted after a stop or
   a crash, a request handler and the worker run to their end.  A pipeline that
   keeps reporting ends, since its context has a deadline (strong fairness: each
   report suspends the choice).  Requests, stops, crashes and failures are not
   forced.                                                                  *)
Fairness ==
    /\ WF_vars(Exit) /\ WF_vars(Boot) /\ WF_vars(Worker) /\ SF_vars(PipelineEnds)
    /\ \A j \in Jobs : WF_vars(spc[j] # "idle" /\ StartSync(j))
    /\ \A c \in Cancellers : WF_vars(cpc[c] # "idle" /\ Cancel(c))

FairSpec == Spec /\ Fairness

-----------------------------------------------------------------------------
(* Properties *)

Held(j) == wjob = j /\ wpc \in {"register", "run", "report", "reread", "cleanup", "finish"}
Raced(j, kinds) == \E k \in kinds : <<j, k>> \in raced

\* While the process is up a running or cancelling row is the worker's current
\* job: across stops, crashes, Boot, cancels and checkpoint writes, a row is
\* stranded in flight only by a status written from an outdated read, or by a
\* worker one of whose reads or writes failed after the claim.
InFlightIsHeld ==
    phase = "up" => \A j \in Jobs : status[j] \in {"running", "cancelling"} =>
                        Held(j) \/ Raced(j, {"write", "stranded"})

\* Two jobs are active together only after a StartSync that created its row
\* when the slot was no longer free, or an outdated write or claim revived one.
SlotSharedOnlyByRace ==
    Cardinality(ActiveJobs) > 1 => \E j \in ActiveJobs : Raced(j, {"gate", "write", "claim"})

\* Nothing is left to run and no call is under way.
Quiet ==
    /\ phase = "up" /\ wpc = "idle" /\ ActiveJobs = {}
    /\ \A j \in Jobs : spc[j] \in {"idle", "done"}
    /\ \A c \in Cancellers : cpc[c] \in {"idle", "done"}

\* When the runner is quiet no source is left syncing, unless its StartSync
\* marked it after the job had already ended, or the Cancel call or the worker
\* that ended its job failed before it could set the source back.
SourcesSettle ==
    Quiet => \A s \in Sources : sync[s] = "syncing" =>
                \E j \in Jobs : source[j] = s /\ Raced(j, {"syncing", "uncleared", "stranded"})

\* A queued upload job still has its file, across crashes between the cleanup
\* and the final status, unless the enqueue call gave up after creating the row,
\* the worker failed the job before claiming it or could not claim it (Stop came
\* first, or its write failed), or an outdated write re-queued it.
UploadKept ==
    \A j \in Uploads : status[j] = "queued" /\ cp[j] =>
        file[j] \/ Raced(j, {"abandon", "write", "early", "unclaimed"})

\* Every job that was enqueued ends, through stops, crashes, timeouts, cancels and
\* failed claims, unless an outdated write moved its row or the worker failed after
\* the claim.
EveryJobSettles ==
    \A j \in Jobs : status[j] \in Active ~>
        (status[j] \in Terminal \/ Raced(j, {"write", "stranded"}))

\* "At most one job is queued or running in the installation. StartSync enforces
\* the gate" (runner.go:37).  Refuted: two calls pass the gate before either inserts
\* (README, Known divergences).
OneActiveJob == Cardinality(ActiveJobs) <= 1

\* "Cancellation flips cancelling; adapter steps observe ctx.Done(). Final
\* status cancelled" (docs/tickets/done/M2-003): a cancelling job ends.
\* Refuted: Cancel writes cancelling over a final status (README, Known divergences).
CancellingEnds == \A j \in Jobs : status[j] = "cancelling" ~> status[j] \in Terminal

\* "The file at BundlePath is removed when the job reaches any terminal status.  If
\* enqueue fails the file is removed immediately" (bundle.go:128): until then it is
\* there.  Refuted: the worker removes it before the final status, and a claim that fails
\* removes it from a job that stays queued (README, Known divergences).
UploadKeptUntilTerminal ==
    \A j \in Uploads : status[j] \in Active /\ cp[j] => file[j] \/ Raced(j, {"abandon"})

=============================================================================
