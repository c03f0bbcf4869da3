--------------------------- MODULE JobRunnerProofs ---------------------------
(***************************************************************************)
(* Proofs about JobRunner, for any finite number of enqueue calls and any  *)
(* number of sources, Cancel calls and faults.  Beside the types and what  *)
(* each caller holds (Calm, WorkerOK, StartersOK, CancellersOK) the        *)
(* inductive invariant has one part for each of the four promises: a row   *)
(* in flight is the worker's, the slot, the uploads, the sources.          *)
(***************************************************************************)
EXTENDS JobRunner, FiniteSetTheorems, TLAPS

-----------------------------------------------------------------------------
(* What each caller holds *)

\* Nobody acts while the process is down or booting.
Calm ==
    phase \notin {"up", "stopping"} =>
        /\ wpc = "idle"
        /\ \A j \in Jobs : spc[j] \in {"idle", "done"}
        /\ \A c \in Cancellers : cpc[c] \in {"idle", "done"}

WorkerOK ==
    /\ wpc = "idle" => wjob = NoJob
    /\ wpc # "idle" => wjob \in Jobs /\ status[wjob] # "none" /\ (wcp => cp[wjob])
    /\ wpc \in {"cleanup", "finish", "source"} => verdict \in Terminal

\* A row exists from Create on, and never ceases to.
StartersOK ==
    \A j \in Jobs :
        /\ spc[j] \in {"idle", "gated"} => status[j] = "none"
        /\ spc[j] \in {"inserted", "created", "stored"} => status[j] # "none"
        /\ spc[j] = "created" => sread[j] # "none"

CancellersOK ==
    \A c \in Cancellers :
        /\ cpc[c] \in {"read", "source", "ctx"} => cjob[c] \in Jobs /\ status[cjob[c]] # "none"
        /\ cpc[c] = "read" => cread[c] \in {"queued", "running"}

-----------------------------------------------------------------------------
(* The four promises *)

\* Boot leaves no row in flight before the worker starts.
FlightInv ==
    /\ InFlightIsHeld
    /\ phase = "boot" => \A j \in Jobs : status[j] \in {"running", "cancelling"} => Raced(j, {"write", "stranded"})

\* Of two active rows one was raced.
SlotPairs ==
    \A j, k \in ActiveJobs : j # k =>
        Raced(j, {"gate", "write", "claim"}) \/ Raced(k, {"gate", "write", "claim"})

\* The worker's row is in flight, or was moved by an outdated write or claim; so a
\* report revives none.
SlotInv ==
    /\ SlotPairs
    /\ wpc \in {"register", "run", "report"} =>
          status[wjob] \in {"running", "cancelling"} \/ Raced(wjob, {"write", "claim"})
    /\ wpc = "report" /\ wseen \in Terminal => Raced(wjob, {"write", "claim"})

\* Up to the checkpoint the enqueue call's upload is there.
UpStarters ==
    /\ \A j \in Jobs : spc[j] \in {"gated", "inserted", "created"} =>
          ~cp[j] /\ (j \in Uploads => file[j])
    /\ \A j \in Jobs : spc[j] = "idle" => ~cp[j]

\* Whoever drops an upload works on a job that is not queued, unless it could not
\* claim it; only an outdated write queues it again.
UpWorker ==
    /\ wpc \in {"register", "run", "report", "reread"} =>
          status[wjob] # "queued" \/ Raced(wjob, {"write", "early"})
    /\ wpc \in {"cleanup", "finish", "source"} /\ wcp =>
          status[wjob] # "queued" \/ Raced(wjob, {"write", "early"})

UpCancellers ==
    \A c \in Cancellers : cpc[c] = "source" =>
        status[cjob[c]] # "queued" \/ Raced(cjob[c], {"write"})

UploadInv == UploadKept /\ UpStarters /\ UpWorker /\ UpCancellers

\* Somebody will set a syncing source back: Boot, the worker once it has claimed a
\* job, a Cancel call, or whoever ends its active job; or that failed, or came too late.
Pending(s) ==
    \/ phase # "up"
    \/ \E j \in Jobs : source[j] = s /\ spc[j] = "done" /\ status[j] \in Active
    \/ \E c \in Cancellers : cpc[c] = "source" /\ source[cjob[c]] = s
    \/ wpc \notin {"idle", "claimed"} /\ source[wjob] = s
    \/ \E j \in Jobs : source[j] = s /\ Raced(j, {"syncing", "uncleared", "stranded"})

SourceInv == \A s \in Sources : sync[s] = "syncing" => Pending(s)

Callers == Calm /\ WorkerOK /\ StartersOK /\ CancellersOK
IInv == TypeOK /\ Callers /\ FlightInv /\ SlotInv /\ UploadInv /\ SourceInv

-----------------------------------------------------------------------------
(* Rows and history *)

LEMMA UpdateRow ==
    ASSUME TypeOK, NEW j \in Jobs, NEW st \in Statuses, Update(j, st)
    PROVE  /\ status' \in [Jobs -> Statuses] /\ status'[j] = st
           /\ \A k \in Jobs : k # j => status'[k] = status[k]
BY DEF TypeOK, Update

LEMMA SyncRow ==
    ASSUME TypeOK, NEW s \in Sources, NEW st \in {"idle", "syncing", "error"}, SetSyncState(s, st)
    PROVE  /\ sync' \in [Sources -> {"idle", "syncing", "error"}] /\ sync'[s] = st
           /\ \A t \in Sources : t # s => sync'[t] = sync[t]
BY DEF TypeOK, SetSyncState

LEMMA RaceGrows ==
    ASSUME TypeOK, NEW j \in Jobs, NEW kind \in Kinds, NEW b, Race(j, kind, b)
    PROVE  raced' \subseteq Races /\ raced \subseteq raced' /\ (b => <<j, kind>> \in raced')
<1>1. <<j, kind>> \in Races
  BY DEF Races, Kinds
<1> QED
  BY <1>1 DEF TypeOK, Race

\* The history only grows.
Grows == raced \subseteq raced'

LEMMA RacedGrows ==
    ASSUME Grows, NEW j, NEW kinds, Raced(j, kinds)
    PROVE  Raced(j, kinds)'
BY DEF Grows, Raced

-----------------------------------------------------------------------------
(* Types *)

LEMMA TypeStep ==
    ASSUME TypeOK, Callers, [Next]_vars
    PROVE  TypeOK' /\ Grows
<1> USE DEF rows, starters, cancellers, worker, WorkerIdle, DropUpload, Grows
<1>1. ASSUME NEW j \in Jobs, StartSync(j) PROVE TypeOK' /\ Grows
  <2>1. CASE Gate(j)
    <3>1. file' \in [Jobs -> BOOLEAN]
      <4> DEFINE b == j \in Uploads
      <4>1. b \in BOOLEAN /\ file \in [Jobs -> BOOLEAN] /\ (file' = file \/ file' = [file EXCEPT ![j] = b])
        BY <2>1 DEF Gate, TypeOK
      <4> HIDE DEF b
      <4> QED
        BY <4>1
    <3>2. \E l \in {"done", "gated"} : SGoto(j, l)
      BY <2>1 DEF Gate
    <3>3. spc' \in [Jobs -> {"idle", "gated", "inserted", "created", "stored", "done"}]
      BY <3>2 DEF SGoto, TypeOK
    <3> QED
      BY <2>1, <3>1, <3>3 DEF Gate, TypeOK
  <2>2. CASE Create(j)
    <3>1. created' \in Seq(Jobs)
      BY <2>2 DEF Create, TypeOK
    <3>2. status' \in [Jobs -> Statuses]
      BY <2>2, UpdateRow DEF Create, Statuses, Active
    <3>3. raced' \subseteq Races /\ raced \subseteq raced'
      BY <2>2, RaceGrows DEF Create, Kinds
    <3> QED
      BY <2>2, <3>1, <3>2, <3>3 DEF Create, SGoto, TypeOK
  <2>3. CASE ReadBack(j)
    BY <2>3 DEF ReadBack, SGoto, TypeOK
  <2>4. CASE StoreCheckpoint(j)
    <3>1. status' \in [Jobs -> Statuses]
      BY <2>4, UpdateRow DEF StoreCheckpoint, TypeOK
    <3>2. raced' \subseteq Races /\ raced \subseteq raced'
      BY <2>4, RaceGrows DEF StoreCheckpoint, Kinds
    <3>3. cp' \in [Jobs -> BOOLEAN]
      BY <2>4 DEF StoreCheckpoint, TypeOK
    <3>4. sread' \in [Jobs -> Statuses]
      BY <2>4 DEF StoreCheckpoint, TypeOK, Statuses
    <3> QED
      BY <2>4, <3>1, <3>2, <3>3, <3>4 DEF StoreCheckpoint, SGoto, TypeOK
  <2>5. CASE MarkSyncing(j)
    <3>1. sync' \in [Sources -> {"idle", "syncing", "error"}]
      BY <2>5, SyncRow DEF MarkSyncing, TypeOK
    <3>2. raced' \subseteq Races /\ raced \subseteq raced'
      BY <2>5, RaceGrows DEF MarkSyncing, Kinds
    <3> QED
      BY <2>5, <3>1, <3>2 DEF MarkSyncing, SGoto, TypeOK
  <2>6. CASE Abandon(j)
    <3>1. raced' \subseteq Races /\ raced \subseteq raced'
      BY <2>6, RaceGrows DEF Abandon, Kinds
    <3> QED
      BY <2>6, <3>1 DEF Abandon, SGoto, TypeOK, Statuses
  <2> QED
    BY <1>1, <2>1, <2>2, <2>3, <2>4, <2>5, <2>6 DEF StartSync
<1>2. ASSUME NEW c \in Cancellers, Cancel(c) PROVE TypeOK' /\ Grows
  <2>1. ASSUME NEW j \in Jobs, CancelRead(c, j) PROVE TypeOK' /\ Grows
    <3>1. /\ cpc' \in [Cancellers -> {"idle", "read", "source", "ctx", "done"}]
          /\ cjob' \in [Cancellers -> Jobs \cup {NoJob}]
      BY <2>1 DEF CancelRead, CGoto, CDone, TypeOK
    <3>2. \E st \in Statuses : cread' = [cread EXCEPT ![c] = st]
      BY <2>1 DEF CancelRead, CDone, TypeOK, Statuses
    <3>3. cread' \in [Cancellers -> Statuses]
      BY <3>2 DEF TypeOK
    <3> QED
      BY <2>1, <3>1, <3>3 DEF CancelRead, TypeOK
  <2>2. CASE CancelWrite(c)
    <3>1. cjob[c] \in Jobs
      BY <2>2 DEF CancelWrite, Callers, CancellersOK
    <3>2. status' \in [Jobs -> Statuses]
      BY <2>2, <3>1, UpdateRow DEF CancelWrite, Statuses, Active, Terminal
    <3>3. raced' \subseteq Races /\ raced \subseteq raced'
      BY <2>2, <3>1, RaceGrows DEF CancelWrite, Kinds
    <3> QED
      BY <2>2, <3>2, <3>3 DEF CancelWrite, CGoto, TypeOK
  <2>3. CASE CancelSource(c)
    <3>1. cjob[c] \in Jobs
      BY <2>3 DEF CancelSource, Callers, CancellersOK
    <3>2. sync' \in [Sources -> {"idle", "syncing", "error"}]
      BY <2>3, <3>1, SyncRow DEF CancelSource, TypeOK
    <3>3. file' \in [Jobs -> BOOLEAN]
      BY <2>3, <3>1 DEF CancelSource, TypeOK
    <3>4. raced' \subseteq Races /\ raced \subseteq raced'
      BY <2>3, <3>1, RaceGrows DEF CancelSource, Kinds, TypeOK
    <3> QED
      BY <2>3, <3>2, <3>3, <3>4 DEF CancelSource, CDone, CGoto, TypeOK, Statuses
  <2>4. CASE CancelCtx(c)
    BY <2>4 DEF CancelCtx, CDone, CGoto, TypeOK, Statuses
  <2>5. CASE CancelFails(c)
    <3>1. raced' \subseteq Races /\ raced \subseteq raced'
      BY <2>5, RaceGrows DEF CancelFails, Callers, CancellersOK, Kinds
    <3> QED
      BY <2>5, <3>1 DEF CancelFails, CDone, CGoto, TypeOK, Statuses
  <2> QED
    BY <1>2, <2>1, <2>2, <2>3, <2>4, <2>5 DEF Cancel
<1>3. ASSUME Worker \/ JobTimeout PROVE TypeOK' /\ Grows
  <2>1. wpc # "idle" => wjob \in Jobs
    BY DEF Callers, WorkerOK
  <2>2. CASE Tick
    BY <2>2 DEF Tick, TypeOK
  <2>3. CASE LoadSourceFails
    <3>1. raced' \subseteq Races /\ raced \subseteq raced'
      BY <2>1, <2>3, RaceGrows DEF LoadSourceFails, Kinds
    <3> QED
      BY <2>3, <3>1 DEF LoadSourceFails, TypeOK, Terminal
  <2>4. CASE ClaimRunning
    <3>1. status' \in [Jobs -> Statuses]
      BY <2>1, <2>4, UpdateRow DEF ClaimRunning, Statuses, Active
    <3>2. raced' \subseteq Races /\ raced \subseteq raced'
      BY <2>1, <2>4, RaceGrows DEF ClaimRunning, Kinds
    <3> QED
      BY <2>4, <3>1, <3>2 DEF ClaimRunning, TypeOK
  <2>5. CASE Register \/ JobTimeout
    BY <2>5 DEF Register, JobTimeout, TypeOK
  <2>6. CASE ReportRead
    BY <2>1, <2>6 DEF ReportRead, TypeOK, Statuses
  <2>7. CASE ReportWrite
    <3>1. status' \in [Jobs -> Statuses]
      <4>1. CASE UNCHANGED status
        BY <4>1 DEF TypeOK
      <4>2. CASE \E st \in Statuses : Update(wjob, st)
        BY <2>1, <2>7, <4>2, UpdateRow DEF ReportWrite
      <4> QED
        BY <2>7, <4>1, <4>2 DEF ReportWrite, Statuses, Active
    <3> QED
      BY <2>7, <3>1 DEF ReportWrite, TypeOK, Statuses
  <2>8. CASE PipelineEnds
    BY <2>8 DEF PipelineEnds, TypeOK
  <2>9. CASE Reread
    <3>1. Decide \in Terminal
      BY DEF Decide, Terminal
    <3> QED
      BY <2>1, <2>9, <3>1 DEF Reread, TypeOK
  <2>10. CASE CleanupUpload
    BY <2>1, <2>10 DEF CleanupUpload, TypeOK
  <2>11. CASE FinishJob
    <3>1. status' \in [Jobs -> Statuses]
      BY <2>1, <2>11, UpdateRow DEF FinishJob, Callers, WorkerOK, Statuses
    <3> QED
      BY <2>11, <3>1 DEF FinishJob, TypeOK
  <2>12. CASE FinishSource
    <3>1. sync' \in [Sources -> {"idle", "syncing", "error"}]
      BY <2>1, <2>12, SyncRow DEF FinishSource, TypeOK
    <3> QED
      BY <2>12, <3>1 DEF FinishSource, TypeOK, Statuses
  <2>13. CASE WorkerFails
    <3>1. raced' \subseteq Races /\ raced \subseteq raced'
      BY <2>1, <2>13, RaceGrows DEF WorkerFails, Kinds
    <3>2. file' \in [Jobs -> BOOLEAN]
      BY <2>1, <2>13 DEF WorkerFails, TypeOK
    <3>3. faults' \in 0..MaxFaults
      BY <2>13, RunnerAssumption DEF WorkerFails, TypeOK
    <3> QED
      BY <2>13, <3>1, <3>2, <3>3 DEF WorkerFails, TypeOK, Statuses
  <2> QED
    BY <1>3, <2>2, <2>3, <2>4, <2>5, <2>6, <2>7, <2>8, <2>9, <2>10, <2>11, <2>12, <2>13 DEF Worker
<1>4. CASE Crash \/ Exit \/ Stop
  <2>1. CASE Stop
    BY <2>1, RunnerAssumption DEF Stop, TypeOK
  <2>2. CASE Down /\ faults' \in 0..MaxFaults
    BY <2>2 DEF Down, TypeOK, Statuses
  <2> QED
    BY <1>4, <2>1, <2>2, RunnerAssumption DEF Crash, Exit, TypeOK
<1>5. CASE Boot
  BY <1>5 DEF Boot, InterruptInFlight, ResetSyncing, TypeOK, Statuses, Terminal
<1>6. CASE UNCHANGED vars
  BY <1>6 DEF vars, TypeOK
<1> QED
  BY <1>1, <1>2, <1>3, <1>4, <1>5, <1>6 DEF Next

-----------------------------------------------------------------------------
(* The callers *)

\* A row that exists is not removed, and one that does not is made by Create alone.
Born(j) == status[j] # "none"

LEMMA CallersFrame ==
    ASSUME TypeOK, Callers, UNCHANGED phase, \A k \in Jobs : (Born(k) => Born(k)') /\ (cp[k] => cp'[k])
    PROVE  /\ UNCHANGED <<wpc, wjob, wcp, verdict>> => WorkerOK'
           /\ UNCHANGED cancellers => CancellersOK'
           /\ (\A k \in Jobs : ~Born(k) => ~Born(k)') /\ UNCHANGED starters => StartersOK'
BY DEF Callers, WorkerOK, CancellersOK, StartersOK, Born, cancellers, starters

LEMMA StartersStep ==
    ASSUME TypeOK, Callers, NEW j \in Jobs, StartSync(j)
    PROVE  Callers'
<1> USE DEF rows, starters, cancellers, worker, WorkerIdle, DropUpload
<1>0. /\ phase \in {"up", "stopping"} /\ phase' = phase /\ UNCHANGED <<cancellers, worker>>
      /\ \A k \in Jobs : cp[k] => cp'[k]
  <2>1. spc[j] \notin {"idle", "done"} => phase \in {"up", "stopping"}
    BY DEF Callers, Calm
  <2>2. \A k \in Jobs : cp[k] => cp'[k]
    BY DEF StartSync, Gate, Create, ReadBack, StoreCheckpoint, MarkSyncing, Abandon, TypeOK
  <2> QED
    BY <2>1, <2>2 DEF StartSync, Gate, Create, ReadBack, StoreCheckpoint, MarkSyncing, Abandon
<1>1. (\A k \in Jobs : Born(k) => Born(k)') /\ StartersOK'
  <2>0. StartersOK
    BY DEF Callers
  <2>1. CASE Gate(j)
    BY <2>0, <2>1 DEF Gate, SGoto, TypeOK, StartersOK, Born
  <2>2. CASE Create(j)
    <3>1. status'[j] = "queued" /\ \A k \in Jobs : k # j => status'[k] = status[k]
      BY <2>2, UpdateRow DEF Create, Statuses, Active
    <3> QED
      BY <2>0, <2>2, <3>1 DEF Create, SGoto, TypeOK, StartersOK, Born
  <2>3. CASE ReadBack(j)
    BY <2>0, <2>3 DEF ReadBack, SGoto, TypeOK, StartersOK, Born
  <2>4. CASE StoreCheckpoint(j)
    <3>1. status'[j] = sread[j] /\ \A k \in Jobs : k # j => status'[k] = status[k]
      BY <2>4, UpdateRow DEF StoreCheckpoint, TypeOK
    <3> QED
      BY <2>0, <2>4, <3>1 DEF StoreCheckpoint, SGoto, TypeOK, StartersOK, Born
  <2>5. CASE MarkSyncing(j)
    BY <2>0, <2>5 DEF MarkSyncing, SGoto, TypeOK, StartersOK, Born
  <2>6. CASE Abandon(j)
    BY <2>0, <2>6 DEF Abandon, SGoto, TypeOK, StartersOK, Born
  <2> QED
    BY <2>1, <2>2, <2>3, <2>4, <2>5, <2>6 DEF StartSync
<1>2. WorkerOK' /\ CancellersOK'
  BY <1>0, <1>1, CallersFrame
<1>3. Calm'
  BY <1>0 DEF Calm
<1> QED
  BY <1>1, <1>2, <1>3 DEF Callers

LEMMA CancellersStep ==
    ASSUME TypeOK, Callers, NEW c \in Cancellers, Cancel(c)
    PROVE  Callers'
<1> USE DEF rows, starters, cancellers, worker, WorkerIdle, DropUpload
<1>0. phase \in {"up", "stopping"} /\ phase' = phase /\ UNCHANGED <<starters, wpc, wjob, wcp, verdict, cp>>
  <2>1. cpc[c] \notin {"idle", "done"} => phase \in {"up", "stopping"}
    BY DEF Callers, Calm
  <2> QED
    BY <2>1 DEF Cancel, CancelRead, CancelWrite, CancelSource, CancelCtx, CancelFails
<1>1. /\ \A k \in Jobs : Born(k) <=> Born(k)'
      /\ CancellersOK'
  <2>0. CancellersOK
    BY DEF Callers
  <2>1. ASSUME NEW j \in Jobs, CancelRead(c, j)
        PROVE  (\A k \in Jobs : Born(k) <=> Born(k)') /\ CancellersOK'
    BY <2>0, <2>1 DEF CancelRead, CDone, CGoto, TypeOK, CancellersOK, Born
  <2>2. CASE CancelWrite(c)
    <3>1. cjob[c] \in Jobs /\ Born(cjob[c])
      BY <2>0, <2>2 DEF CancelWrite, CancellersOK, Born
    <3>2. status'[cjob[c]] # "none" /\ \A k \in Jobs : k # cjob[c] => status'[k] = status[k]
      BY <2>2, <3>1, UpdateRow DEF CancelWrite, Statuses, Active, Terminal
    <3> QED
      BY <2>0, <2>2, <3>1, <3>2 DEF CancelWrite, CGoto, TypeOK, CancellersOK, Born
  <2>3. CASE CancelSource(c) \/ CancelCtx(c) \/ CancelFails(c)
    BY <2>0, <2>3 DEF CancelSource, CancelCtx, CancelFails, CDone, CGoto, TypeOK, CancellersOK, Born
  <2> QED
    BY <2>1, <2>2, <2>3 DEF Cancel
<1>2. WorkerOK' /\ StartersOK'
  BY <1>0, <1>1, CallersFrame
<1>3. Calm'
  BY <1>0 DEF Calm
<1> QED
  BY <1>1, <1>2, <1>3 DEF Callers

LEMMA WorkerStep ==
    ASSUME TypeOK, Callers, Worker \/ JobTimeout
    PROVE  Callers'
<1> USE DEF rows, starters, cancellers, worker, WorkerIdle, DropUpload
<1>0. phase \in {"up", "stopping"} /\ phase' = phase /\ UNCHANGED <<spc, sread, cpc, cjob, cread, cp>>
  <2>1. wpc # "idle" => phase \in {"up", "stopping"}
    BY DEF Callers, Calm
  <2> QED
    BY <2>1 DEF Worker, Tick, LoadSourceFails, ClaimRunning, Register, JobTimeout, ReportRead, ReportWrite,
       PipelineEnds, Reread, CleanupUpload, FinishJob, FinishSource, WorkerFails
<1>1. (\A k \in Jobs : Born(k) <=> Born(k)') /\ WorkerOK'
  <2>0. WorkerOK
    BY DEF Callers
  <2>1. CASE Tick
    BY <2>0, <2>1 DEF Tick, NextQueued, WorkerOK, Born
  <2>2. CASE LoadSourceFails
    BY <2>0, <2>2 DEF LoadSourceFails, WorkerOK, Born, Terminal
  <2>3. CASE ClaimRunning
    <3>1. wjob \in Jobs /\ status'[wjob] = "running" /\ \A k \in Jobs : k # wjob => status'[k] = status[k]
      BY <2>0, <2>3, UpdateRow DEF ClaimRunning, WorkerOK, Statuses, Active
    <3> QED
      BY <2>0, <2>3, <3>1 DEF ClaimRunning, WorkerOK, Born
  <2>4. CASE Register \/ JobTimeout \/ ReportRead \/ PipelineEnds \/ CleanupUpload
    BY <2>0, <2>4 DEF Register, JobTimeout, ReportRead, PipelineEnds, CleanupUpload, WorkerOK, Born
  <2>5. CASE ReportWrite
    <3>1. wjob \in Jobs /\ Born(wjob)
      BY <2>0, <2>5 DEF ReportWrite, WorkerOK, Born
    <3>2. Born(wjob)' /\ \A k \in Jobs : k # wjob => status'[k] = status[k]
      <4>1. CASE status' = status
        BY <2>5, <3>1, <4>1 DEF ReportWrite, Born
      <4>2. CASE \E st \in Terminal \cup Active : Update(wjob, st)
        <5>1. PICK st \in Terminal \cup Active : Update(wjob, st)
          BY <4>2
        <5>2. st \in Statuses /\ st # "none" /\ wjob' = wjob
          BY <2>5 DEF ReportWrite, Statuses, Terminal, Active
        <5> QED
          BY <3>1, <5>1, <5>2, UpdateRow DEF Born
      <4> QED
        BY <2>5, <4>1, <4>2 DEF ReportWrite, Active
    <3> QED
      BY <2>0, <2>5, <3>1, <3>2 DEF ReportWrite, WorkerOK, Born
  <2>6. CASE Reread
    <3>1. Decide \in Terminal
      BY DEF Decide, Terminal
    <3> QED
      BY <2>0, <2>6, <3>1 DEF Reread, WorkerOK, Born
  <2>7. CASE FinishJob
    <3>1. wjob \in Jobs /\ Born(wjob) /\ verdict \in Terminal
      BY <2>0, <2>7 DEF FinishJob, WorkerOK, Born
    <3>2. verdict \in Statuses /\ verdict # "none"
      BY <3>1 DEF Statuses, Terminal
    <3>3. status'[wjob] = verdict /\ \A k \in Jobs : k # wjob => status'[k] = status[k]
      BY <2>7, <3>1, <3>2, UpdateRow DEF FinishJob
    <3> QED
      BY <2>0, <2>7, <3>1, <3>2, <3>3 DEF FinishJob, WorkerOK, Born
  <2>8. CASE FinishSource \/ WorkerFails
    BY <2>0, <2>8 DEF FinishSource, WorkerFails, WorkerOK, Born
  <2> QED
    BY <2>1, <2>2, <2>3, <2>4, <2>5, <2>6, <2>7, <2>8 DEF Worker
<1>2. CancellersOK' /\ StartersOK'
  BY <1>0, <1>1, CallersFrame
<1>3. Calm'
  BY <1>0 DEF Calm
<1> QED
  BY <1>1, <1>2, <1>3 DEF Callers

LEMMA CallersStep ==
    ASSUME TypeOK, Callers, [Next]_vars
    PROVE  Callers'
<1> USE DEF rows, starters, cancellers, worker, WorkerIdle, DropUpload
<1>1. CASE Crash \/ Exit
  BY <1>1 DEF Crash, Exit, Down, TypeOK, Callers, Calm, WorkerOK, StartersOK, CancellersOK
<1>4. CASE Stop
  BY <1>4 DEF Stop, Callers, Calm, WorkerOK, StartersOK, CancellersOK
<1>2. CASE Boot
  BY <1>2 DEF Boot, InterruptInFlight, ResetSyncing, TypeOK, Callers, Calm, WorkerOK, StartersOK,
     CancellersOK
<1>3. CASE UNCHANGED vars
  BY <1>3 DEF vars, Callers, Calm, WorkerOK, StartersOK, CancellersOK
<1> QED
  BY <1>1, <1>2, <1>3, <1>4, StartersStep, CancellersStep, WorkerStep DEF Next

-----------------------------------------------------------------------------
(* A row in flight is the worker's *)

InFlight == {"running", "cancelling"}

\* A step that puts no row in flight and lets go of none.
LEMMA FlightFrame ==
    ASSUME FlightInv, UNCHANGED phase, Grows, phase # "boot",
           \A k \in Jobs : status'[k] \in InFlight =>
               \/ status[k] \in InFlight /\ (Held(k) => Held(k)')
               \/ Held(k)' \/ Raced(k, {"write"})' \/ Raced(k, {"stranded"})'
    PROVE  FlightInv'
<1>1. CASE phase # "up"
  BY <1>1 DEF FlightInv, InFlightIsHeld
<1>2. CASE phase = "up"
  <2> SUFFICES ASSUME NEW k \in Jobs, status'[k] \in InFlight
               PROVE  Held(k)' \/ Raced(k, {"write", "stranded"})'
    BY <1>2 DEF FlightInv, InFlightIsHeld, InFlight
  <2>1. CASE status[k] \in InFlight /\ (Held(k) => Held(k)')
    <3>1. Held(k) \/ Raced(k, {"write", "stranded"})
      BY <1>2, <2>1 DEF FlightInv, InFlightIsHeld, InFlight
    <3> QED
      BY <2>1, <3>1, RacedGrows
  <2>2. CASE Raced(k, {"write"})' \/ Raced(k, {"stranded"})'
    BY <2>2 DEF Raced
  <2> QED
    BY <2>1, <2>2
<1> QED
  BY <1>1, <1>2

\* A write of a status read before: nothing changes, or it is recorded as outdated.
LEMMA OutdatedWrite ==
    ASSUME TypeOK, NEW j \in Jobs, NEW b, Race(j, "write", b), b
    PROVE  Raced(j, {"write"})'
<1>1. <<j, "write">> \in raced'
  BY RaceGrows DEF Kinds
<1> QED
  BY <1>1 DEF Raced

LEMMA CancelWrites ==
    ASSUME TypeOK, Callers, NEW c \in Cancellers, CancelWrite(c)
    PROVE  \E j \in Jobs :
              /\ j = cjob[c] /\ j = cjob'[c] /\ cread[c] \in {"queued", "running"} /\ status[j] # "none"
              /\ cread[c] = "queued" => status'[j] = "cancelled" /\ cpc'[c] = "source"
              /\ cread[c] = "running" => status'[j] = "cancelling" /\ cpc'[c] = "ctx"
              /\ \A k \in Jobs : k # j => status'[k] = status[k]
              /\ \A d \in Cancellers : d # c => cpc'[d] = cpc[d]
              /\ status[j] # cread[c] => Raced(j, {"write"})'
<1>1. PICK j \in Jobs : j = cjob[c] /\ cread[c] \in {"queued", "running"} /\ status[j] # "none"
  BY DEF CancelWrite, Callers, CancellersOK
<1>2. /\ cread[c] = "queued" => status'[j] = "cancelled"
      /\ cread[c] = "running" => status'[j] = "cancelling"
      /\ \A k \in Jobs : k # j => status'[k] = status[k]
  BY <1>1, UpdateRow DEF CancelWrite, Statuses, Active, Terminal
<1>3. status[j] # cread[c] => Raced(j, {"write"})'
  BY <1>1, OutdatedWrite DEF CancelWrite
<1>4. /\ cpc'[c] = IF cread[c] = "queued" THEN "source" ELSE "ctx"
      /\ \A d \in Cancellers : d # c => cpc'[d] = cpc[d]
      /\ cjob' = cjob
  BY DEF CancelWrite, CGoto, TypeOK
<1> QED
  BY <1>1, <1>2, <1>3, <1>4

LEMMA CheckpointWrites ==
    ASSUME TypeOK, Callers, NEW j \in Jobs, StoreCheckpoint(j)
    PROVE  /\ \A k \in Jobs : k # j => status'[k] = status[k]
           /\ status'[j] = status[j] \/ Raced(j, {"write"})'
<1>1. status'[j] = sread[j] /\ \A k \in Jobs : k # j => status'[k] = status[k]
  BY UpdateRow DEF StoreCheckpoint, TypeOK
<1>2. status[j] # sread[j] => Raced(j, {"write"})'
  BY OutdatedWrite DEF StoreCheckpoint
<1> QED
  BY <1>1, <1>2

LEMMA FlightStep ==
    ASSUME IInv, [Next]_vars, Grows
    PROVE  FlightInv'
<1> USE DEF rows, starters, cancellers, worker, WorkerIdle, DropUpload
<1>0. TypeOK /\ Callers /\ FlightInv
  BY DEF IInv
<1>1. ASSUME NEW j \in Jobs, StartSync(j) PROVE FlightInv'
  <2>1. phase # "boot" /\ UNCHANGED phase /\ \A k \in Jobs : Held(k) => Held(k)'
    BY <1>0, <1>1 DEF StartSync, Gate, Create, ReadBack, StoreCheckpoint, MarkSyncing, Abandon, Callers,
       Calm, Held
  <2>2. \A k \in Jobs : status'[k] \in InFlight => status[k] \in InFlight \/ Raced(k, {"write"})'
    <3>1. CASE Create(j)
      BY <1>0, <3>1, UpdateRow DEF Create, Statuses, Active, InFlight
    <3>2. CASE StoreCheckpoint(j)
      BY <1>0, <3>2, CheckpointWrites
    <3>3. CASE UNCHANGED status
      BY <3>3
    <3> QED
      BY <1>1, <3>1, <3>2, <3>3 DEF StartSync, Gate, ReadBack, MarkSyncing, Abandon
  <2> QED
    BY <1>0, <2>1, <2>2, FlightFrame
<1>2. ASSUME NEW c \in Cancellers, Cancel(c) PROVE FlightInv'
  <2>1. phase # "boot" /\ UNCHANGED phase /\ \A k \in Jobs : Held(k) => Held(k)'
    BY <1>0, <1>2 DEF Cancel, CancelRead, CancelWrite, CancelSource, CancelCtx, CancelFails, Callers,
       Calm, Held
  <2>2. \A k \in Jobs : status'[k] \in InFlight => status[k] \in InFlight \/ Raced(k, {"write"})'
    <3>1. CASE CancelWrite(c)
      BY <1>0, <3>1, CancelWrites DEF InFlight
    <3>2. CASE UNCHANGED status
      BY <3>2
    <3> QED
      BY <1>2, <3>1, <3>2 DEF Cancel, CancelRead, CancelSource, CancelCtx, CancelFails
  <2> QED
    BY <1>0, <2>1, <2>2, FlightFrame
<1>3. ASSUME Worker \/ JobTimeout PROVE FlightInv'
  <2>1. phase # "boot" /\ UNCHANGED phase /\ (wpc = "idle" => wjob = NoJob) /\ (wpc # "idle" => wjob \in Jobs)
    BY <1>0, <1>3 DEF Worker, Tick, LoadSourceFails, ClaimRunning, Register, JobTimeout, ReportRead,
       ReportWrite, PipelineEnds, Reread, CleanupUpload, FinishJob, FinishSource, WorkerFails, Callers,
       Calm, WorkerOK
  <2>2. CASE \/ Tick \/ LoadSourceFails \/ Register \/ JobTimeout \/ ReportRead \/ PipelineEnds
             \/ Reread \/ CleanupUpload \/ FinishSource
    <3>1. UNCHANGED status /\ \A k \in Jobs : Held(k) => Held(k)'
      BY <2>2 DEF Tick, LoadSourceFails, Register, JobTimeout, ReportRead, PipelineEnds, Reread,
         CleanupUpload, FinishSource, Held
    <3> QED
      BY <1>0, <2>1, <3>1, FlightFrame
  <2>3. CASE ClaimRunning \/ ReportWrite
    <3>1. wjob \in Jobs /\ Held(wjob)'
      BY <2>1, <2>3 DEF ClaimRunning, ReportWrite, Held
    <3>2. \A k \in Jobs : k # wjob => status'[k] = status[k] /\ ~Held(k)
      BY <1>0, <2>3 DEF ClaimRunning, ReportWrite, Update, TypeOK, Held
    <3>3. \A k \in Jobs : k = wjob => Held(k)'
      BY <2>3, <3>1 DEF ClaimRunning, ReportWrite, Held
    <3> QED
      BY <1>0, <2>1, <3>2, <3>3, FlightFrame
  <2>4. CASE FinishJob
    <3>1. wjob \in Jobs /\ verdict \in Terminal /\ verdict \in Statuses
      BY <1>0, <2>1, <2>4 DEF FinishJob, Callers, WorkerOK, Statuses
    <3>2. status'[wjob] \notin InFlight /\ \A k \in Jobs : k # wjob => status'[k] = status[k] /\ ~Held(k)
      BY <1>0, <2>4, <3>1, UpdateRow DEF FinishJob, Terminal, InFlight, Held
    <3> QED
      BY <1>0, <2>1, <3>2, FlightFrame
  <2>5. CASE WorkerFails
    <3>1. wjob \in Jobs /\ UNCHANGED status /\ \A k \in Jobs : k # wjob => ~Held(k)
      BY <2>1, <2>5 DEF WorkerFails, Held
    <3>2. CASE wpc = "claimed"
      BY <1>0, <2>1, <3>1, <3>2, FlightFrame DEF Held
    <3>3. CASE wpc # "claimed" /\ phase = "up"
      <4>1. PICK j \in Jobs : j = wjob
        BY <3>1
      <4>2. <<j, "stranded">> \in raced'
        BY <1>0, <2>5, <3>3, <4>1, RaceGrows DEF WorkerFails, Kinds
      <4>3. \A k \in Jobs : k = j => Raced(k, {"stranded"})'
        BY <4>2 DEF Raced
      <4> QED
        BY <1>0, <2>1, <3>1, <4>1, <4>3, FlightFrame
    <3>4. CASE phase # "up"
      BY <2>1, <3>4 DEF FlightInv, InFlightIsHeld
    <3> QED
      BY <3>2, <3>3, <3>4
  <2> QED
    BY <1>3, <2>2, <2>3, <2>4, <2>5 DEF Worker
<1>4. CASE Crash \/ Exit \/ Stop
  BY <1>4 DEF Crash, Exit, Down, Stop, FlightInv, InFlightIsHeld
<1>5. CASE InterruptInFlight
  BY <1>0, <1>5 DEF InterruptInFlight, FlightInv, InFlightIsHeld, TypeOK
<1>6. CASE ResetSyncing
  <2>1. UNCHANGED <<status, raced>> /\ phase = "boot" /\ phase' = "up"
    BY <1>6 DEF ResetSyncing
  <2> QED
    BY <1>0, <2>1 DEF FlightInv, InFlightIsHeld, Raced
<1>7. CASE UNCHANGED vars
  BY <1>0, <1>7 DEF vars, FlightInv, InFlightIsHeld, Held, Raced
<1> QED
  BY <1>1, <1>2, <1>3, <1>4, <1>5, <1>6, <1>7 DEF Next, Boot

-----------------------------------------------------------------------------
(* The slot *)

\* No step makes a second row active but a race.
LEMMA SlotPairsFrame ==
    ASSUME SlotPairs, Grows,
           \A k \in Jobs : status'[k] \in Active =>
               status[k] \in Active \/ Raced(k, {"gate", "write", "claim"})'
    PROVE  SlotPairs'
<1> SUFFICES ASSUME NEW j \in Jobs, NEW k \in Jobs, j # k, status'[j] \in Active, status'[k] \in Active
             PROVE  Raced(j, {"gate", "write", "claim"})' \/ Raced(k, {"gate", "write", "claim"})'
  BY DEF SlotPairs, ActiveJobs
<1>1. CASE status[j] \in Active /\ status[k] \in Active
  BY <1>1, RacedGrows DEF SlotPairs, ActiveJobs
<1> QED
  BY <1>1

\* Steps of the other callers: the worker's row stays in flight unless it is raced.
LEMMA SlotFrame ==
    ASSUME TypeOK, Callers, SlotInv, Grows, UNCHANGED <<wpc, wjob, wseen>>,
           SlotPairs', \A k \in Jobs : status[k] \in InFlight =>
                          status'[k] \in InFlight \/ Raced(k, {"write", "claim"})'
    PROVE  SlotInv'
<1>1. CASE wpc \in {"register", "run", "report"}
  <2>1. PICK k \in Jobs : k = wjob /\ k = wjob'
    BY <1>1 DEF Callers, WorkerOK
  <2>2. status[k] \in InFlight \/ Raced(k, {"write", "claim"})
    BY <1>1, <2>1 DEF SlotInv, InFlight
  <2>3. status'[k] \in InFlight \/ Raced(k, {"write", "claim"})'
    BY <2>2, RacedGrows
  <2>4. wpc = "report" /\ wseen \in Terminal => Raced(k, {"write", "claim"})'
    BY <2>1, RacedGrows DEF SlotInv
  <2> QED
    BY <2>1, <2>3, <2>4 DEF SlotInv, SlotPairs, InFlight
<1>2. CASE wpc \notin {"register", "run", "report"}
  BY <1>2 DEF SlotInv, SlotPairs
<1> QED
  BY <1>1, <1>2

LEMMA SlotStep ==
    ASSUME IInv, [Next]_vars, Grows
    PROVE  SlotInv'
<1> USE DEF rows, starters, cancellers, worker, WorkerIdle, DropUpload
<1>0. TypeOK /\ Callers /\ SlotInv /\ SlotPairs
  BY DEF IInv, SlotInv
<1>1. ASSUME NEW j \in Jobs, StartSync(j) PROVE SlotInv'
  <2>1. UNCHANGED <<wpc, wjob, wseen>>
    BY <1>1 DEF StartSync, Gate, Create, ReadBack, StoreCheckpoint, MarkSyncing, Abandon
  <2>2. CASE Create(j)
    <3>1. /\ status[j] = "none" /\ status'[j] = "queued" /\ \A k \in Jobs : k # j => status'[k] = status[k]
          /\ FindActive # {} => Raced(j, {"gate", "write", "claim"})'
      <4>1. status[j] = "none"
        BY <1>0, <2>2 DEF Create, Callers, StartersOK
      <4>2. status'[j] = "queued" /\ \A k \in Jobs : k # j => status'[k] = status[k]
        BY <1>0, <2>2, UpdateRow DEF Create, Statuses, Active
      <4>3. FindActive # {} => <<j, "gate">> \in raced'
        BY <1>0, <2>2, RaceGrows DEF Create, Kinds
      <4> QED
        BY <4>1, <4>2, <4>3 DEF Raced
    <3>2. SlotPairs'
      <4>1. CASE FindActive # {}
        BY <1>0, <3>1, <4>1, SlotPairsFrame
      <4>2. CASE FindActive = {}
        BY <3>1, <4>2 DEF SlotPairs, ActiveJobs, FindActive, Active
      <4> QED
        BY <4>1, <4>2
    <3>3. \A k \in Jobs : status[k] \in InFlight => status'[k] \in InFlight
      BY <3>1 DEF InFlight
    <3> QED
      BY <1>0, <2>1, <3>2, <3>3, SlotFrame
  <2>3. CASE StoreCheckpoint(j)
    <3>1. \A k \in Jobs : status'[k] = status[k] \/ Raced(k, {"write"})'
      BY <1>0, <2>3, CheckpointWrites
    <3>2. \A k \in Jobs : Raced(k, {"write"})' =>
             Raced(k, {"write", "claim"})' /\ Raced(k, {"gate", "write", "claim"})'
      BY DEF Raced
    <3>3. SlotPairs'
      BY <1>0, <3>1, <3>2, SlotPairsFrame
    <3> QED
      BY <1>0, <2>1, <3>1, <3>2, <3>3, SlotFrame
  <2>4. CASE UNCHANGED status
    BY <1>0, <2>1, <2>4, SlotPairsFrame, SlotFrame
  <2> QED
    BY <1>1, <2>2, <2>3, <2>4 DEF StartSync, Gate, ReadBack, MarkSyncing, Abandon
<1>2. ASSUME NEW c \in Cancellers, Cancel(c) PROVE SlotInv'
  <2>1. UNCHANGED <<wpc, wjob, wseen>>
    BY <1>2 DEF Cancel, CancelRead, CancelWrite, CancelSource, CancelCtx, CancelFails
  <2>2. CASE CancelWrite(c)
    <3>1. \A k \in Jobs : Raced(k, {"write"})' =>
             Raced(k, {"write", "claim"})' /\ Raced(k, {"gate", "write", "claim"})'
      BY DEF Raced
    <3>2. PICK j \in Jobs :
              /\ cread[c] \in {"queued", "running"}
              /\ cread[c] = "queued" => status'[j] = "cancelled"
              /\ cread[c] = "running" => status'[j] = "cancelling"
              /\ \A k \in Jobs : k # j => status'[k] = status[k]
              /\ status[j] # cread[c] => Raced(j, {"write"})'
      BY <1>0, <2>2, CancelWrites
    <3>3. \A k \in Jobs : status'[k] \in Active => status[k] \in Active \/ Raced(k, {"write"})'
      BY <3>2 DEF Active
    <3>4. \A k \in Jobs : status[k] \in InFlight => status'[k] \in InFlight \/ Raced(k, {"write"})'
      BY <3>2 DEF InFlight
    <3>5. SlotPairs'
      BY <1>0, <3>1, <3>3, SlotPairsFrame
    <3> QED
      BY <1>0, <2>1, <3>1, <3>4, <3>5, SlotFrame
  <2>3. CASE UNCHANGED status
    BY <1>0, <2>1, <2>3, SlotPairsFrame, SlotFrame
  <2> QED
    BY <1>2, <2>2, <2>3 DEF Cancel, CancelRead, CancelSource, CancelCtx, CancelFails
<1>3. ASSUME Worker \/ JobTimeout PROVE SlotInv'
  <2>1. wpc # "idle" => wjob \in Jobs
    BY <1>0 DEF Callers, WorkerOK
  <2>2. CASE JobTimeout
    <3>1. UNCHANGED <<wpc, wjob, wseen, status>>
      BY <2>2 DEF JobTimeout
    <3> QED
      BY <1>0, <3>1, SlotPairsFrame, SlotFrame
  <2>3. CASE \/ Tick \/ LoadSourceFails \/ PipelineEnds \/ Reread \/ CleanupUpload \/ FinishSource
             \/ WorkerFails
    <3>1. UNCHANGED status /\ wpc' \notin {"register", "run", "report"}
      BY <2>3 DEF Tick, LoadSourceFails, PipelineEnds, Reread, CleanupUpload, FinishSource, WorkerFails
    <3>2. SlotPairs'
      BY <1>0, <3>1, SlotPairsFrame
    <3> QED
      BY <3>1, <3>2 DEF SlotInv, SlotPairs
  <2>4. CASE ClaimRunning
    <3>1. PICK j \in Jobs : j = wjob /\ j = wjob'
      BY <2>1, <2>4 DEF ClaimRunning
    <3>2. status'[j] = "running" /\ \A k \in Jobs : k # j => status'[k] = status[k]
      BY <1>0, <2>4, <3>1, UpdateRow DEF ClaimRunning, Statuses, Active
    <3>3. status[j] # "queued" => <<j, "claim">> \in raced'
      BY <1>0, <2>4, <3>1, RaceGrows DEF ClaimRunning, Kinds
    <3>4. SlotPairs'
      <4>1. \A k \in Jobs : status'[k] \in Active =>
               status[k] \in Active \/ Raced(k, {"gate", "write", "claim"})'
        BY <3>2, <3>3 DEF Active, Raced
      <4> QED
        BY <1>0, <4>1, SlotPairsFrame
    <3>5. wpc' = "register"
      BY <2>4 DEF ClaimRunning
    <3> QED
      BY <3>1, <3>2, <3>4, <3>5 DEF SlotInv, SlotPairs
  <2>5. CASE Register \/ ReportRead
    <3>1. PICK j \in Jobs : j = wjob /\ j = wjob'
      BY <2>1, <2>5 DEF Register, ReportRead
    <3>2. UNCHANGED status /\ wpc \in {"register", "run"} /\ wpc' \in {"run", "report"}
      BY <2>5 DEF Register, ReportRead
    <3>3. SlotPairs'
      BY <1>0, <3>2, SlotPairsFrame
    <3>4. status[j] \in InFlight \/ (Raced(j, {"write", "claim"}) /\ Raced(j, {"write", "claim"})')
      BY <1>0, <3>1, <3>2, RacedGrows DEF SlotInv, InFlight
    <3>5. wpc' = "report" /\ wseen' \in Terminal => status[j] \in Terminal
      BY <2>5, <3>1 DEF Register, ReportRead, Terminal
    <3> QED
      BY <3>1, <3>2, <3>3, <3>4, <3>5 DEF SlotInv, SlotPairs, InFlight, Terminal
  <2>6. CASE ReportWrite
    <3>1. PICK j \in Jobs : j = wjob /\ j = wjob'
      BY <2>1, <2>6 DEF ReportWrite
    <3>2. wpc = "report" /\ wpc' = "run"
      BY <2>6 DEF ReportWrite
    <3>3. /\ status[j] \in InFlight \/ Raced(j, {"write", "claim"})'
          /\ wseen \in Terminal => Raced(j, {"write", "claim"})'
      BY <1>0, <3>1, <3>2, RacedGrows DEF SlotInv, InFlight
    <3>4. /\ \A k \in Jobs : k # j => status'[k] = status[k]
          /\ status'[j] = status[j] \/ status'[j] \in InFlight \/ (wseen \in Terminal)
      <4>1. CASE UNCHANGED status
        BY <4>1
      <4>2. CASE \E st \in Statuses : Update(j, st) /\ (st \in InFlight \/ wseen \in Terminal)
        BY <1>0, <4>2, UpdateRow
      <4> QED
        BY <2>6, <3>1, <4>1, <4>2 DEF ReportWrite, InFlight, Statuses, Active, Terminal
    <3>5. SlotPairs'
      <4>1. Raced(j, {"write", "claim"})' => Raced(j, {"gate", "write", "claim"})'
        BY DEF Raced
      <4> QED
        BY <1>0, <3>3, <3>4, <4>1, SlotPairsFrame DEF InFlight, Active
    <3> QED
      BY <3>1, <3>2, <3>3, <3>4, <3>5 DEF SlotInv, SlotPairs, InFlight
  <2>7. CASE FinishJob
    <3>1. wjob \in Jobs /\ verdict \in Terminal /\ verdict \in Statuses
      BY <1>0, <2>1, <2>7 DEF FinishJob, Callers, WorkerOK, Statuses
    <3>2. status'[wjob] = verdict /\ \A k \in Jobs : k # wjob => status'[k] = status[k]
      BY <1>0, <2>7, <3>1, UpdateRow DEF FinishJob
    <3>3. SlotPairs'
      BY <1>0, <3>1, <3>2, SlotPairsFrame DEF Terminal, Active
    <3> QED
      BY <2>7, <3>3 DEF FinishJob, SlotInv, SlotPairs
  <2> QED
    BY <1>3, <2>2, <2>3, <2>4, <2>5, <2>6, <2>7 DEF Worker
<1>4. CASE Crash \/ Exit \/ Boot
  <2>1. wpc' = "idle"
    BY <1>0, <1>4 DEF Crash, Exit, Down, Boot, InterruptInFlight, ResetSyncing, Callers, Calm
  <2>2. \A k \in Jobs : status'[k] \in Active => status[k] \in Active
    BY <1>0, <1>4 DEF Crash, Exit, Down, Boot, InterruptInFlight, ResetSyncing, Active, TypeOK
  <2>3. SlotPairs'
    BY <1>0, <2>2, SlotPairsFrame
  <2> QED
    BY <2>1, <2>3 DEF SlotInv, SlotPairs
<1>5. CASE Stop \/ UNCHANGED vars
  <2>1. UNCHANGED <<wpc, wjob, wseen, status>>
    BY <1>5 DEF Stop, vars
  <2> QED
    BY <1>0, <2>1, SlotPairsFrame, SlotFrame
<1> QED
  BY <1>1, <1>2, <1>3, <1>4, <1>5 DEF Next

-----------------------------------------------------------------------------
(* The uploads *)

\* A row that exists is queued again by an outdated write alone.
Requeued == \A k \in Jobs : status'[k] = "queued" => ~Born(k) \/ status[k] = "queued" \/ Raced(k, {"write"})'

LEMMA UploadKeptFrame ==
    ASSUME UploadKept, Grows,
           \A k \in Uploads : status'[k] = "queued" /\ cp'[k] =>
               \/ status[k] = "queued" /\ cp[k] /\ (file[k] => file'[k])
               \/ file'[k]
               \/ Raced(k, {"abandon", "write", "early", "unclaimed"})'
    PROVE  UploadKept'
<1>1. \A k : Raced(k, {"abandon", "write", "early", "unclaimed"}) =>
                Raced(k, {"abandon", "write", "early", "unclaimed"})'
  BY RacedGrows
<1> QED
  BY <1>1, Zenon DEF UploadKept

LEMMA UpWorkerFrame ==
    ASSUME TypeOK, Callers, UpWorker, Grows, Requeued, UNCHANGED <<wpc, wjob, wcp>>
    PROVE  UpWorker'
<1>1. CASE \/ wpc \in {"register", "run", "report", "reread"}
           \/ wpc \in {"cleanup", "finish", "source"} /\ wcp
  <2>1. PICK k \in Jobs : k = wjob /\ k = wjob' /\ Born(k)
    BY <1>1 DEF Callers, WorkerOK, Born
  <2>2. status[k] # "queued" \/ Raced(k, {"write", "early"})'
    BY <1>1, <2>1, RacedGrows DEF UpWorker
  <2>3. Raced(k, {"write"})' => Raced(k, {"write", "early"})'
    BY DEF Raced
  <2> QED
    BY <2>1, <2>2, <2>3 DEF UpWorker, Requeued
<1>2. CASE ~(\/ wpc \in {"register", "run", "report", "reread"}
             \/ wpc \in {"cleanup", "finish", "source"} /\ wcp)
  BY <1>2 DEF UpWorker
<1> QED
  BY <1>1, <1>2

\* A Cancel call that is about to drop an upload was so before this step.
LEMMA UpCancellersFrame ==
    ASSUME TypeOK, Callers, UpCancellers, Grows, Requeued,
           \A c \in Cancellers : cpc'[c] = "source" => cpc[c] = "source" /\ cjob'[c] = cjob[c]
    PROVE  UpCancellers'
<1> SUFFICES ASSUME NEW c \in Cancellers, cpc'[c] = "source"
             PROVE  status'[cjob'[c]] # "queued" \/ Raced(cjob[c], {"write"})'
  BY DEF UpCancellers
<1>1. PICK k \in Jobs : k = cjob[c] /\ k = cjob'[c] /\ Born(k)
  BY DEF Callers, CancellersOK, Born
<1>2. status[k] # "queued" \/ Raced(k, {"write"})'
  BY <1>1, RacedGrows DEF UpCancellers
<1> QED
  BY <1>1, <1>2 DEF Requeued

LEMMA UpStartersFrame ==
    ASSUME UpStarters, UNCHANGED <<spc, cp>>, \A k \in Jobs : ~cp[k] /\ file[k] => file'[k]
    PROVE  UpStarters'
BY Zenon DEF UpStarters

LEMMA UploadStarters ==
    ASSUME IInv, Grows, NEW j \in Jobs, StartSync(j)
    PROVE  UploadInv'
<1> USE DEF rows, starters, cancellers, worker, WorkerIdle, DropUpload
<1>0. TypeOK /\ Callers /\ UploadKept /\ UpStarters /\ UpWorker /\ UpCancellers
  BY DEF IInv, UploadInv
<1>1. UNCHANGED <<wpc, wjob, wcp, cpc, cjob>>
  BY DEF StartSync, Gate, Create, ReadBack, StoreCheckpoint, MarkSyncing, Abandon
<1>2. ASSUME Requeued PROVE UpWorker' /\ UpCancellers'
  BY <1>0, <1>1, <1>2, UpWorkerFrame, UpCancellersFrame
<1>3. CASE Gate(j)
  <2>1. UNCHANGED <<status, cp>> /\ spc[j] = "idle"
    BY <1>3 DEF Gate
  <2>2. ~cp[j]
    BY <1>0, <2>1 DEF UpStarters
  <2>3. \A k \in Jobs : k # j => file'[k] = file[k] /\ spc'[k] = spc[k]
    BY <1>0, <1>3 DEF Gate, SGoto, TypeOK
  <2>4. \/ spc'[j] = "done"
        \/ spc'[j] = "gated" /\ (j \in Uploads => file'[j])
    BY <1>0, <1>3 DEF Gate, SGoto, TypeOK
  <2>5. UpStarters'
    BY <1>0, <2>1, <2>2, <2>3, <2>4 DEF UpStarters
  <2>6. Uploads \subseteq Jobs
    BY RunnerAssumption
  <2>7. UploadKept'
    BY <1>0, <2>1, <2>2, <2>3, <2>6, UploadKeptFrame
  <2>8. Requeued
    BY <2>1 DEF Requeued
  <2> QED
    BY <1>2, <2>5, <2>7, <2>8 DEF UploadInv
<1>4. CASE Create(j)
  <2>1. UNCHANGED <<cp, file>> /\ spc[j] = "gated"
    BY <1>4 DEF Create
  <2>2. ~cp[j] /\ (j \in Uploads => file[j]) /\ ~Born(j)
    BY <1>0, <2>1 DEF UpStarters, Callers, StartersOK, Born
  <2>3. \A k \in Jobs : k # j => status'[k] = status[k]
    BY <1>0, <1>4, UpdateRow DEF Create, Statuses, Active
  <2>4. spc'[j] = "inserted" /\ \A k \in Jobs : k # j => spc'[k] = spc[k]
    BY <1>0, <1>4 DEF Create, SGoto, TypeOK
  <2>5. UpStarters'
    BY <1>0, <2>1, <2>2, <2>4 DEF UpStarters
  <2>6. UploadKept'
    BY <1>0, <2>1, <2>2, <2>3, UploadKeptFrame, RunnerAssumption
  <2>7. Requeued
    BY <2>2, <2>3 DEF Requeued
  <2> QED
    BY <1>2, <2>5, <2>6, <2>7 DEF UploadInv
<1>5. CASE ReadBack(j) \/ MarkSyncing(j)
  <2>1. UNCHANGED <<status, cp, file>>
    BY <1>5 DEF ReadBack, MarkSyncing
  <2>2. \A k \in Jobs : spc'[k] = spc[k] \/ (spc[k] = "inserted" /\ spc'[k] = "created") \/ spc'[k] \in {"stored", "done"}
    BY <1>0, <1>5 DEF ReadBack, MarkSyncing, SGoto, TypeOK
  <2>3. UpStarters'
    BY <1>0, <2>1, <2>2 DEF UpStarters
  <2>4. UploadKept'
    BY <1>0, <2>1, UploadKeptFrame
  <2>5. Requeued
    BY <2>1 DEF Requeued
  <2> QED
    BY <1>2, <2>3, <2>4, <2>5 DEF UploadInv
<1>6. CASE StoreCheckpoint(j)
  <2>1. UNCHANGED file /\ spc[j] = "created" /\ \A k \in Jobs : k # j => cp'[k] = cp[k]
    BY <1>0, <1>6 DEF StoreCheckpoint, TypeOK
  <2>2. j \in Uploads => file[j]
    BY <1>0, <2>1 DEF UpStarters
  <2>3. /\ \A k \in Jobs : k # j => status'[k] = status[k]
        /\ status'[j] = status[j] \/ Raced(j, {"write"})'
    BY <1>0, <1>6, CheckpointWrites
  <2>4. spc'[j] = "stored" /\ \A k \in Jobs : k # j => spc'[k] = spc[k]
    BY <1>0, <1>6 DEF StoreCheckpoint, SGoto, TypeOK
  <2>5. UpStarters'
    BY <1>0, <2>1, <2>4 DEF UpStarters
  <2>6. UploadKept'
    BY <1>0, <2>1, <2>2, <2>3, UploadKeptFrame, RunnerAssumption
  <2>7. Requeued
    BY <2>3 DEF Requeued
  <2> QED
    BY <1>2, <2>5, <2>6, <2>7 DEF UploadInv
<1>7. CASE Abandon(j)
  <2>1. UNCHANGED <<status, cp>> /\ \A k \in Jobs : k # j => file'[k] = file[k]
    BY <1>0, <1>7 DEF Abandon, TypeOK
  <2>2. spc'[j] = "done" /\ \A k \in Jobs : k # j => spc'[k] = spc[k]
    BY <1>0, <1>7 DEF Abandon, SGoto, TypeOK
  <2>3. status[j] = "none" \/ ~file[j] \/ Raced(j, {"abandon", "write", "early", "unclaimed"})'
    <3>1. spc[j] # "gated" /\ file[j] => <<j, "abandon">> \in raced'
      BY <1>0, <1>7, RaceGrows DEF Abandon, Kinds
    <3> QED
      BY <1>0, <3>1 DEF Callers, StartersOK, Raced
  <2>4. UpStarters'
    BY <1>0, <2>1, <2>2 DEF UpStarters
  <2>5. UploadKept'
    BY <1>0, <2>1, <2>3, UploadKeptFrame, RunnerAssumption
  <2>6. Requeued
    BY <2>1 DEF Requeued
  <2> QED
    BY <1>2, <2>4, <2>5, <2>6 DEF UploadInv
<1> QED
  BY <1>3, <1>4, <1>5, <1>6, <1>7 DEF StartSync

LEMMA UploadCancellers ==
    ASSUME IInv, Grows, NEW c \in Cancellers, Cancel(c)
    PROVE  UploadInv'
<1> USE DEF rows, starters, cancellers, worker, WorkerIdle, DropUpload
<1>0. TypeOK /\ Callers /\ UploadKept /\ UpStarters /\ UpWorker /\ UpCancellers
  BY DEF IInv, UploadInv
<1>1. UNCHANGED <<wpc, wjob, wcp, spc, cp>>
  BY DEF Cancel, CancelRead, CancelWrite, CancelSource, CancelCtx, CancelFails
<1>2. ASSUME NEW j \in Jobs, CancelRead(c, j) PROVE UploadInv'
  <2>1. /\ UNCHANGED <<status, file>>
        /\ \A d \in Cancellers : cpc'[d] = "source" => cpc[d] = "source" /\ cjob'[d] = cjob[d]
    BY <1>0, <1>2 DEF CancelRead, CDone, CGoto, TypeOK
  <2>2. Requeued
    BY <2>1 DEF Requeued
  <2>3. UpWorker' /\ UpCancellers' /\ UpStarters'
    BY <1>0, <1>1, <2>1, <2>2, UpWorkerFrame, UpCancellersFrame, UpStartersFrame
  <2>4. UploadKept'
    BY <1>0, <1>1, <2>1, UploadKeptFrame
  <2> QED
    BY <2>3, <2>4 DEF UploadInv
<1>3. CASE CancelWrite(c)
  <2>1. PICK j \in Jobs :
            /\ j = cjob[c] /\ j = cjob'[c] /\ cread[c] \in {"queued", "running"}
            /\ cread[c] = "queued" => status'[j] = "cancelled"
            /\ cread[c] = "running" => status'[j] = "cancelling"
            /\ \A k \in Jobs : k # j => status'[k] = status[k]
            /\ \A d \in Cancellers : d # c => cpc'[d] = cpc[d]
    BY <1>0, <1>3, CancelWrites
  <2>2. UNCHANGED <<file, cjob>>
    BY <1>3 DEF CancelWrite
  <2>3. status'[j] # "queued"
    BY <2>1
  <2>4. Requeued
    BY <2>1, <2>3 DEF Requeued
  <2>5. UpWorker' /\ UpStarters'
    BY <1>0, <1>1, <2>2, <2>4, UpWorkerFrame, UpStartersFrame
  <2>6. UploadKept'
    BY <1>0, <1>1, <2>1, <2>2, <2>3, UploadKeptFrame, RunnerAssumption
  <2>7. UpCancellers'
    <3> SUFFICES ASSUME NEW d \in Cancellers, cpc'[d] = "source"
                 PROVE  status'[cjob'[d]] # "queued" \/ Raced(cjob[d], {"write"})'
      BY DEF UpCancellers
    <3>1. CASE d = c
      BY <2>1, <2>3, <3>1
    <3>2. CASE d # c
      <4>1. cpc[d] = "source"
        BY <2>1, <3>2
      <4>2. PICK k \in Jobs : k = cjob[d] /\ k = cjob'[d] /\ Born(k)
        BY <1>0, <2>2, <4>1 DEF Callers, CancellersOK, Born
      <4>3. status[k] # "queued" \/ Raced(k, {"write"})'
        BY <1>0, <4>1, <4>2, RacedGrows DEF UpCancellers
      <4> QED
        BY <2>4, <4>2, <4>3 DEF Requeued
    <3> QED
      BY <3>1, <3>2
  <2> QED
    BY <2>5, <2>6, <2>7 DEF UploadInv
<1>4. CASE CancelSource(c)
  <2>1. PICK j \in Jobs : j = cjob[c]
    BY <1>0, <1>4 DEF CancelSource, Callers, CancellersOK
  <2>2. /\ UNCHANGED status /\ (\A k \in Jobs : k # j => file'[k] = file[k])
        /\ ~cp[j] /\ file[j] => file'[j]
        /\ \A d \in Cancellers : cpc'[d] = "source" => cpc[d] = "source" /\ cjob'[d] = cjob[d]
    BY <1>0, <1>4, <2>1 DEF CancelSource, CDone, CGoto, TypeOK
  <2>3. status[j] # "queued" \/ Raced(j, {"write"})'
    BY <1>0, <1>4, <2>1, RacedGrows DEF CancelSource, UpCancellers
  <2>4. Requeued
    BY <2>2 DEF Requeued
  <2>5. \A k \in Jobs : ~cp[k] /\ file[k] => file'[k]
    BY <2>2
  <2>6. UpWorker' /\ UpCancellers' /\ UpStarters'
    BY <1>0, <1>1, <2>2, <2>4, <2>5, UpWorkerFrame, UpCancellersFrame, UpStartersFrame
  <2>7. Raced(j, {"write"})' => Raced(j, {"abandon", "write", "early", "unclaimed"})'
    BY DEF Raced
  <2>8. UploadKept'
    BY <1>0, <1>1, <2>2, <2>3, <2>7, UploadKeptFrame, RunnerAssumption
  <2> QED
    BY <2>6, <2>8 DEF UploadInv
<1>5. CASE CancelCtx(c) \/ CancelFails(c)
  <2>1. /\ UNCHANGED <<status, file>>
        /\ \A d \in Cancellers : cpc'[d] = "source" => cpc[d] = "source" /\ cjob'[d] = cjob[d]
    BY <1>0, <1>5 DEF CancelCtx, CancelFails, CDone, CGoto, TypeOK
  <2>2. Requeued
    BY <2>1 DEF Requeued
  <2>3. UpWorker' /\ UpCancellers' /\ UpStarters'
    BY <1>0, <1>1, <2>1, <2>2, UpWorkerFrame, UpCancellersFrame, UpStartersFrame
  <2>4. UploadKept'
    BY <1>0, <1>1, <2>1, UploadKeptFrame
  <2> QED
    BY <2>3, <2>4 DEF UploadInv
<1> QED
  BY <1>2, <1>3, <1>4, <1>5 DEF Cancel

LEMMA UploadWorker ==
    ASSUME IInv, Grows, Worker \/ JobTimeout
    PROVE  UploadInv'
<1> USE DEF rows, starters, cancellers, worker, WorkerIdle, DropUpload
<1>0. TypeOK /\ Callers /\ UploadKept /\ UpStarters /\ UpWorker /\ UpCancellers
  BY DEF IInv, UploadInv
<1>1. UNCHANGED <<spc, cp, cpc, cjob>> /\ (wpc # "idle" => wjob \in Jobs /\ (wcp => cp[wjob]))
  BY <1>0 DEF Worker, Tick, LoadSourceFails, ClaimRunning, Register, JobTimeout, ReportRead, ReportWrite,
     PipelineEnds, Reread, CleanupUpload, FinishJob, FinishSource, WorkerFails, Callers, WorkerOK
<1>2. \A c \in Cancellers : cpc'[c] = "source" => cpc[c] = "source" /\ cjob'[c] = cjob[c]
  BY <1>1
<1>3. ASSUME UNCHANGED <<status, file>>, UpWorker' PROVE UploadInv'
  <2>1. Requeued
    BY <1>3 DEF Requeued
  <2>2. UpCancellers' /\ UpStarters'
    BY <1>0, <1>1, <1>2, <1>3, <2>1, UpCancellersFrame, UpStartersFrame
  <2>3. UploadKept'
    BY <1>0, <1>1, <1>3, UploadKeptFrame
  <2> QED
    BY <1>3, <2>2, <2>3 DEF UploadInv
<1>4. ASSUME UNCHANGED <<file, wjob>>, wpc' \in {"register", "run", "source"},
             NEW j \in Jobs, j = wjob, status'[j] # "queued" \/ UNCHANGED status,
             wpc' = "run" => wpc = "report",
             wpc' \in {"register", "source"} => status'[j] # "queued",
             \A k \in Jobs : k # j => status'[k] = status[k]
      PROVE  UploadInv'
  <2>1. Requeued
    BY <1>4 DEF Requeued
  <2>2. UpCancellers' /\ UpStarters'
    BY <1>0, <1>1, <1>2, <1>4, <2>1, UpCancellersFrame, UpStartersFrame
  <2>3. UploadKept'
    BY <1>0, <1>1, <1>4, UploadKeptFrame, RunnerAssumption
  <2>4. UpWorker'
    <3>1. wpc' = "run" => status'[j] # "queued" \/ Raced(j, {"write", "early"})'
      BY <1>0, <1>4, RacedGrows DEF UpWorker
    <3> QED
      BY <1>4, <3>1 DEF UpWorker
  <2> QED
    BY <2>2, <2>3, <2>4 DEF UploadInv
<1>5. CASE Tick \/ FinishSource
  <2>1. UNCHANGED <<status, file>> /\ wpc' \in {"claimed", "idle"}
    BY <1>5 DEF Tick, FinishSource
  <2>2. UpWorker'
    BY <2>1 DEF UpWorker
  <2> QED
    BY <1>3, <2>1, <2>2
<1>6. CASE LoadSourceFails
  <2>1. PICK j \in Jobs : j = wjob /\ j = wjob'
    BY <1>0, <1>6 DEF LoadSourceFails, Callers, WorkerOK
  <2>2. UNCHANGED <<status, file>> /\ (wpc = "claimed" /\ wcp => <<j, "early">> \in raced')
    BY <1>0, <1>6, <2>1, RaceGrows DEF LoadSourceFails, Kinds
  <2>3. wpc = "run" => status'[j] # "queued" \/ Raced(j, {"write", "early"})'
    BY <1>0, <2>1, <2>2, RacedGrows DEF UpWorker
  <2>4. wpc = "claimed" /\ wcp => Raced(j, {"write", "early"})'
    BY <2>2 DEF Raced
  <2>5. wpc \in {"claimed", "run"} /\ wpc' = "cleanup" /\ wcp' = wcp
    BY <1>6 DEF LoadSourceFails
  <2>6. UpWorker'
    BY <2>1, <2>3, <2>4, <2>5 DEF UpWorker
  <2> QED
    BY <1>3, <2>2, <2>6
<1>7. CASE ClaimRunning
  <2>1. PICK j \in Jobs : j = wjob
    BY <1>0, <1>7 DEF ClaimRunning, Callers, WorkerOK
  <2>2. status'[j] = "running" /\ \A k \in Jobs : k # j => status'[k] = status[k]
    BY <1>0, <1>7, <2>1, UpdateRow DEF ClaimRunning, Statuses, Active
  <2>3. UNCHANGED <<file, wjob>> /\ wpc' = "register"
    BY <1>7 DEF ClaimRunning
  <2> QED
    BY <1>4, <2>1, <2>2, <2>3
<1>8. CASE Register \/ JobTimeout \/ ReportRead \/ PipelineEnds \/ Reread
  <2>1. /\ UNCHANGED <<status, file>>
        /\ wpc \in {"register", "run", "report", "reread"}
    BY <1>8 DEF Register, JobTimeout, ReportRead, PipelineEnds, Reread
  <2>2. PICK j \in Jobs : j = wjob /\ j = wjob'
    BY <1>0, <1>8, <2>1 DEF Register, JobTimeout, ReportRead, PipelineEnds, Reread, Callers, WorkerOK
  <2>3. status'[j] # "queued" \/ Raced(j, {"write", "early"})'
    BY <1>0, <2>1, <2>2, RacedGrows DEF UpWorker
  <2>4. UpWorker'
    BY <2>2, <2>3 DEF UpWorker
  <2> QED
    BY <1>3, <2>1, <2>4
<1>9. CASE ReportWrite
  <2>1. PICK j \in Jobs : j = wjob
    BY <1>0, <1>9 DEF ReportWrite, Callers, WorkerOK
  <2>2. UNCHANGED <<file, wjob>> /\ wpc = "report" /\ wpc' = "run"
    BY <1>9 DEF ReportWrite
  <2>3. CASE UNCHANGED status
    BY <1>4, <2>1, <2>2, <2>3
  <2>4. CASE \E st \in Statuses : Update(j, st) /\ st # "queued"
    <3>1. status'[j] # "queued" /\ \A k \in Jobs : k # j => status'[k] = status[k]
      BY <1>0, <2>4, UpdateRow
    <3> QED
      BY <1>4, <2>1, <2>2, <3>1
  <2> QED
    BY <1>9, <2>1, <2>3, <2>4 DEF ReportWrite, Statuses, Active, Terminal
<1>10. CASE CleanupUpload \/ WorkerFails
  <2>1. PICK j \in Jobs : j = wjob /\ (wcp => cp[j])
    BY <1>1, <1>10 DEF CleanupUpload, WorkerFails
  <2>2. /\ UNCHANGED status /\ (\A k \in Jobs : k # j => file'[k] = file[k])
        /\ ~wcp /\ file[j] => file'[j]
    BY <1>0, <1>10, <2>1 DEF CleanupUpload, WorkerFails, TypeOK
  <2>3. wcp => status[j] # "queued" \/ Raced(j, {"abandon", "write", "early", "unclaimed"})'
    <3>1. CASE wpc = "claimed"
      <4>1. wcp => <<j, "unclaimed">> \in raced'
        BY <1>0, <1>10, <2>1, <3>1, RaceGrows DEF CleanupUpload, WorkerFails, Kinds
      <4> QED
        BY <4>1 DEF Raced
    <3>2. CASE wpc # "claimed"
      <4>1. wpc \in {"register", "reread", "cleanup", "finish", "source"}
        BY <1>10, <3>2 DEF CleanupUpload, WorkerFails
      <4>2. wcp => status[j] # "queued" \/ Raced(j, {"write", "early"})'
        BY <1>0, <2>1, <4>1, RacedGrows DEF UpWorker
      <4>3. Raced(j, {"write", "early"})' => Raced(j, {"abandon", "write", "early", "unclaimed"})'
        BY DEF Raced
      <4> QED
        BY <4>2, <4>3
    <3> QED
      BY <3>1, <3>2
  <2>4. Requeued
    BY <2>2 DEF Requeued
  <2>5. UpWorker'
    <3>1. CASE CleanupUpload
      <4>1. wpc = "cleanup" /\ wpc' = "finish" /\ wjob' = wjob /\ wcp' = wcp
        BY <3>1 DEF CleanupUpload
      <4>2. wcp => status[j] # "queued" \/ Raced(j, {"write", "early"})'
        BY <1>0, <2>1, <4>1, RacedGrows DEF UpWorker
      <4> QED
        BY <2>1, <2>2, <4>1, <4>2 DEF UpWorker
    <3>2. CASE WorkerFails
      BY <3>2 DEF WorkerFails, UpWorker
    <3> QED
      BY <1>10, <3>1, <3>2
  <2>6. \A k \in Jobs : ~cp[k] /\ file[k] => file'[k]
    BY <2>1, <2>2
  <2>7. UpCancellers' /\ UpStarters'
    BY <1>0, <1>1, <1>2, <2>4, <2>6, UpCancellersFrame, UpStartersFrame
  <2>8. UploadKept'
    BY <1>0, <1>1, <2>2, <2>3, UploadKeptFrame, RunnerAssumption
  <2> QED
    BY <2>5, <2>7, <2>8 DEF UploadInv
<1>11. CASE FinishJob
  <2>1. PICK j \in Jobs : j = wjob /\ verdict \in Terminal /\ verdict \in Statuses
    BY <1>0, <1>11 DEF FinishJob, Callers, WorkerOK, Statuses
  <2>2. status'[j] # "queued" /\ \A k \in Jobs : k # j => status'[k] = status[k]
    BY <1>0, <1>11, <2>1, UpdateRow DEF FinishJob, Terminal
  <2>3. UNCHANGED <<file, wjob>> /\ wpc' = "source"
    BY <1>11 DEF FinishJob
  <2> QED
    BY <1>4, <2>1, <2>2, <2>3
<1> QED
  BY <1>5, <1>6, <1>7, <1>8, <1>9, <1>10, <1>11 DEF Worker

LEMMA UploadStep ==
    ASSUME IInv, [Next]_vars, Grows
    PROVE  UploadInv'
<1> USE DEF rows, starters, cancellers, worker, WorkerIdle, DropUpload
<1>0. TypeOK /\ Callers /\ UploadKept /\ UpStarters /\ UpWorker /\ UpCancellers
  BY DEF IInv, UploadInv
<1>1. CASE Crash \/ Exit \/ Boot
  <2>1. UNCHANGED <<cp, file>> /\ wpc' = "idle" /\ \A c \in Cancellers : cpc'[c] # "source"
    BY <1>0, <1>1 DEF Crash, Exit, Down, Boot, InterruptInFlight, ResetSyncing, Callers, Calm
  <2>2. \A k \in Jobs : spc'[k] = spc[k] \/ spc'[k] = "done"
    BY <1>0, <1>1 DEF Crash, Exit, Down, Boot, InterruptInFlight, ResetSyncing
  <2>3. \A k \in Jobs : status'[k] = "queued" => status[k] = "queued"
    BY <1>0, <1>1 DEF Crash, Exit, Down, Boot, InterruptInFlight, ResetSyncing, TypeOK
  <2>4. UpStarters' /\ UpWorker' /\ UpCancellers'
    BY <1>0, <2>1, <2>2 DEF UpStarters, UpWorker, UpCancellers
  <2>5. UploadKept'
    BY <1>0, <2>1, <2>3, UploadKeptFrame, RunnerAssumption
  <2> QED
    BY <2>4, <2>5 DEF UploadInv
<1>2. CASE Stop \/ UNCHANGED vars
  <2>1. UNCHANGED <<status, cp, file, spc, cpc, cjob, wpc, wjob, wcp, raced>>
    BY <1>2 DEF Stop, vars
  <2> QED
    BY <1>0, <2>1 DEF UploadInv, UploadKept, UpStarters, UpWorker, UpCancellers, Raced
<1> QED
  BY <1>1, <1>2, UploadStarters, UploadCancellers, UploadWorker DEF Next

-----------------------------------------------------------------------------
(* The sources *)

\* Somebody at work on j will still write its source.
Settler(j) ==
    \/ \E c \in Cancellers : cpc[c] = "source" /\ cjob[c] = j
    \/ wpc \notin {"idle", "claimed"} /\ wjob = j

\* Whoever would set s back still would, or a job that ends leaves a settler.
LEMMA PendingFrame ==
    ASSUME Grows, UNCHANGED <<source, phase>>, NEW s \in Sources, Pending(s),
           \A j \in Jobs : source[j] = s /\ spc[j] = "done" /\ status[j] \in Active =>
               spc'[j] = "done" /\ (status'[j] \in Active \/ Settler(j)'),
           \A c \in Cancellers : cpc[c] = "source" /\ source[cjob[c]] = s =>
               cpc'[c] = "source" /\ cjob'[c] = cjob[c],
           wpc \notin {"idle", "claimed"} /\ source[wjob] = s =>
               wpc' \notin {"idle", "claimed"} /\ wjob' = wjob
    PROVE  Pending(s)'
<1>1. CASE phase # "up"
  BY <1>1 DEF Pending
<1>2. ASSUME NEW j \in Jobs, source[j] = s, spc[j] = "done", status[j] \in Active PROVE Pending(s)'
  <2>1. source'[j] = s /\ spc'[j] = "done" /\ (status'[j] \in Active \/ Settler(j)')
    BY <1>2
  <2>2. CASE status'[j] \in Active
    BY <2>1, <2>2 DEF Pending
  <2>3. CASE \E c \in Cancellers : cpc'[c] = "source" /\ cjob'[c] = j
    BY <2>1, <2>3 DEF Pending
  <2>4. CASE wpc' \notin {"idle", "claimed"} /\ wjob' = j
    BY <2>1, <2>4 DEF Pending
  <2> QED
    BY <2>1, <2>2, <2>3, <2>4 DEF Settler
<1>3. ASSUME NEW c \in Cancellers, cpc[c] = "source", source[cjob[c]] = s PROVE Pending(s)'
  BY <1>3 DEF Pending
<1>4. CASE wpc \notin {"idle", "claimed"} /\ source[wjob] = s
  BY <1>4 DEF Pending
<1>5. ASSUME NEW j \in Jobs, source[j] = s, Raced(j, {"syncing", "uncleared", "stranded"})
      PROVE  Pending(s)'
  BY <1>5, RacedGrows DEF Pending
<1> QED
  BY <1>1, <1>2, <1>3, <1>4, <1>5 DEF Pending

LEMMA SourceStarters ==
    ASSUME IInv, Grows, NEW j \in Jobs, StartSync(j)
    PROVE  SourceInv'
<1> USE DEF rows, starters, cancellers, worker, WorkerIdle, DropUpload
<1>0. TypeOK /\ Callers /\ SourceInv
  BY DEF IInv
<1>1. UNCHANGED <<wpc, wjob, cpc, cjob, source, phase>> /\ spc[j] # "done"
  BY DEF StartSync, Gate, Create, ReadBack, StoreCheckpoint, MarkSyncing, Abandon
<1>2. \A k \in Jobs : k # j => spc'[k] = spc[k] /\ status'[k] = status[k]
  BY <1>0 DEF StartSync, Gate, Create, ReadBack, StoreCheckpoint, MarkSyncing, Abandon, SGoto, Update,
     TypeOK
<1>3. ASSUME NEW s \in Sources, sync[s] = "syncing" PROVE Pending(s)'
  <2>1. Pending(s)
    BY <1>0, <1>3 DEF SourceInv
  <2> QED
    BY <1>1, <1>2, <2>1, PendingFrame
<1>4. CASE MarkSyncing(j)
  <2>1. /\ \A s \in Sources : s # source[j] => sync'[s] = sync[s]
        /\ source[j] \in Sources
    BY <1>0, <1>4, SyncRow DEF MarkSyncing, TypeOK
  <2>2. PICK s \in Sources : s = source[j] /\ s = source'[j]
    BY <1>1, <2>1
  <2>3. status[j] \in Terminal => <<j, "syncing">> \in raced'
    BY <1>0, <1>4, RaceGrows DEF MarkSyncing, Kinds
  <2>4. status[j] \in Terminal \cup Active /\ status'[j] = status[j] /\ spc'[j] = "done"
    BY <1>0, <1>4 DEF MarkSyncing, SGoto, TypeOK, Callers, StartersOK, Statuses
  <2>5. Pending(s)'
    BY <2>2, <2>3, <2>4 DEF Pending, Raced
  <2> QED
    BY <1>3, <2>1, <2>2, <2>5 DEF SourceInv
<1>5. CASE UNCHANGED sync
  BY <1>3, <1>5 DEF SourceInv
<1> QED
  BY <1>4, <1>5 DEF StartSync, Gate, Create, ReadBack, StoreCheckpoint, Abandon

LEMMA SourceCancellers ==
    ASSUME IInv, Grows, NEW c \in Cancellers, Cancel(c)
    PROVE  SourceInv'
<1> USE DEF rows, starters, cancellers, worker, WorkerIdle, DropUpload
<1>0. TypeOK /\ Callers /\ SourceInv
  BY DEF IInv
<1>1. UNCHANGED <<wpc, wjob, spc, source, phase>>
  BY DEF Cancel, CancelRead, CancelWrite, CancelSource, CancelCtx, CancelFails
<1>2. CASE (\E j \in Jobs : CancelRead(c, j)) \/ CancelCtx(c)
  <2>1. /\ UNCHANGED <<sync, status>>
        /\ \A d \in Cancellers : cpc[d] = "source" => cpc'[d] = "source" /\ cjob'[d] = cjob[d]
    BY <1>0, <1>2 DEF CancelRead, CancelCtx, CDone, CGoto, TypeOK
  <2> QED
    BY <1>0, <1>1, <2>1, PendingFrame DEF SourceInv
<1>3. CASE CancelWrite(c)
  <2>1. PICK j \in Jobs :
            /\ j = cjob[c] /\ j = cjob'[c] /\ cread[c] \in {"queued", "running"}
            /\ cread[c] = "queued" => cpc'[c] = "source"
            /\ cread[c] = "running" => status'[j] = "cancelling"
            /\ \A k \in Jobs : k # j => status'[k] = status[k]
            /\ \A d \in Cancellers : d # c => cpc'[d] = cpc[d]
    BY <1>0, <1>3, CancelWrites
  <2>2. UNCHANGED <<sync, cjob>> /\ cpc[c] = "read"
    BY <1>3 DEF CancelWrite
  <2>3. \A k \in Jobs : status[k] \in Active => status'[k] \in Active \/ Settler(k)'
    BY <2>1 DEF Active, Settler
  <2>4. \A d \in Cancellers : cpc[d] = "source" => cpc'[d] = "source" /\ cjob'[d] = cjob[d]
    BY <2>1, <2>2
  <2> QED
    BY <1>0, <1>1, <2>2, <2>3, <2>4, PendingFrame DEF SourceInv
<1>4. CASE CancelSource(c) \/ CancelFails(c)
  <2>1. PICK k \in Jobs : k = cjob[c]
    BY <1>0, <1>4 DEF CancelSource, CancelFails, Callers, CancellersOK
  <2>2. PICK t \in Sources : t = source[k]
    BY <1>0 DEF TypeOK
  <2>3. /\ UNCHANGED status
        /\ \A d \in Cancellers : d # c => cpc'[d] = cpc[d] /\ cjob'[d] = cjob[d]
    BY <1>0, <1>4 DEF CancelSource, CancelFails, CDone, CGoto, TypeOK
  <2>4. ASSUME NEW s \in Sources, sync[s] = "syncing", s # t PROVE Pending(s)'
    <3>1. Pending(s)
      BY <1>0, <2>4 DEF SourceInv
    <3> QED
      BY <1>1, <2>1, <2>2, <2>3, <2>4, <3>1, PendingFrame
  <2>5. CASE phase # "up"
    BY <1>1, <2>5 DEF SourceInv, Pending
  <2>6. CASE phase = "up" /\ cpc[c] = "source" /\ UNCHANGED sync
    <3>1. CASE Race(k, "uncleared", TRUE)
      <4>1. <<k, "uncleared">> \in raced'
        BY <1>0, <3>1, RaceGrows DEF Kinds
      <4>2. Pending(t)'
        BY <1>1, <2>2, <4>1 DEF Pending, Raced
      <4> QED
        BY <2>4, <2>6, <4>2 DEF SourceInv
    <3>2. CASE ~Race(k, "uncleared", TRUE)
      <4>1. SetSyncState(t, "idle")
        BY <1>4, <2>1, <2>2, <2>6, <3>2 DEF CancelSource, CancelFails, Race
      <4>2. sync'[t] = "idle"
        BY <1>0, <4>1, SyncRow
      <4> QED
        BY <2>4, <2>6, <4>2 DEF SourceInv
    <3> QED
      BY <3>1, <3>2
  <2>7. CASE SetSyncState(t, "idle")
    <3>1. sync'[t] = "idle" /\ \A s \in Sources : s # t => sync'[s] = sync[s]
      BY <1>0, <2>7, SyncRow
    <3> QED
      BY <2>4, <3>1 DEF SourceInv
  <2>8. CASE cpc[c] # "source" /\ UNCHANGED sync
    <3>1. \A d \in Cancellers : cpc[d] = "source" => cpc'[d] = "source" /\ cjob'[d] = cjob[d]
      BY <2>3, <2>8
    <3> QED
      BY <1>0, <1>1, <2>3, <2>8, <3>1, PendingFrame DEF SourceInv
  <2> QED
    BY <1>4, <2>1, <2>2, <2>5, <2>6, <2>7, <2>8 DEF CancelSource, CancelFails
<1> QED
  BY <1>2, <1>3, <1>4 DEF Cancel

LEMMA SourceWorker ==
    ASSUME IInv, Grows, Worker \/ JobTimeout
    PROVE  SourceInv'
<1> USE DEF rows, starters, cancellers, worker, WorkerIdle, DropUpload
<1>0. TypeOK /\ Callers /\ SourceInv
  BY DEF IInv
<1>1. UNCHANGED <<spc, cpc, cjob, source, phase>> /\ (wpc # "idle" => wjob \in Jobs)
  BY <1>0 DEF Worker, Tick, LoadSourceFails, ClaimRunning, Register, JobTimeout, ReportRead, ReportWrite,
     PipelineEnds, Reread, CleanupUpload, FinishJob, FinishSource, WorkerFails, Callers, WorkerOK
<1>2. CASE Tick \/ (WorkerFails /\ wpc = "claimed")
  <2>1. UNCHANGED <<sync, status>> /\ wpc \in {"idle", "claimed"}
    BY <1>2 DEF Tick, WorkerFails
  <2> QED
    BY <1>0, <1>1, <2>1, PendingFrame DEF SourceInv
<1>3. CASE \/ LoadSourceFails \/ ClaimRunning \/ Register \/ JobTimeout \/ ReportRead \/ ReportWrite
           \/ PipelineEnds \/ Reread \/ CleanupUpload \/ FinishJob
  <2>1. UNCHANGED <<sync, wjob>> /\ wpc # "idle" /\ wpc' \notin {"idle", "claimed"}
    BY <1>3 DEF LoadSourceFails, ClaimRunning, Register, JobTimeout, ReportRead, ReportWrite, PipelineEnds,
       Reread, CleanupUpload, FinishJob
  <2>2. \A k \in Jobs : k # wjob => status'[k] = status[k]
    BY <1>0, <1>3 DEF LoadSourceFails, ClaimRunning, Register, JobTimeout, ReportRead, ReportWrite,
       PipelineEnds, Reread, CleanupUpload, FinishJob, Update, TypeOK
  <2>3. \A k \in Jobs : status[k] \in Active => status'[k] \in Active \/ Settler(k)'
    BY <2>1, <2>2 DEF Settler
  <2> QED
    BY <1>0, <1>1, <2>1, <2>3, PendingFrame DEF SourceInv
<1>4. CASE FinishSource
  <2>1. PICK t \in Sources : t = source[wjob]
    BY <1>0, <1>1, <1>4 DEF FinishSource, TypeOK
  <2>2. sync'[t] # "syncing" /\ \A s \in Sources : s # t => sync'[s] = sync[s]
    BY <1>0, <1>4, <2>1, SyncRow DEF FinishSource
  <2>3. UNCHANGED status
    BY <1>4 DEF FinishSource
  <2>4. ASSUME NEW s \in Sources, sync'[s] = "syncing" PROVE Pending(s)'
    <3>1. s # t /\ sync[s] = "syncing"
      BY <2>2, <2>4
    <3>2. Pending(s)
      BY <1>0, <3>1 DEF SourceInv
    <3> QED
      BY <1>1, <2>1, <2>3, <3>1, <3>2, PendingFrame
  <2> QED
    BY <2>4 DEF SourceInv
<1>5. CASE WorkerFails /\ wpc # "claimed"
  <2>1. PICK k \in Jobs : k = wjob
    BY <1>1, <1>5 DEF WorkerFails
  <2>2. PICK t \in Sources : t = source[k]
    BY <1>0 DEF TypeOK
  <2>3. UNCHANGED <<status, sync>>
    BY <1>5 DEF WorkerFails
  <2>4. ASSUME NEW s \in Sources, sync[s] = "syncing", s # t PROVE Pending(s)'
    <3>1. Pending(s)
      BY <1>0, <2>4 DEF SourceInv
    <3> QED
      BY <1>1, <2>1, <2>2, <2>3, <2>4, <3>1, PendingFrame
  <2>5. Pending(t)'
    <3>1. CASE phase # "up"
      BY <1>1, <3>1 DEF Pending
    <3>2. CASE phase = "up"
      <4>1. <<k, "stranded">> \in raced'
        BY <1>0, <1>5, <2>1, <3>2, RaceGrows DEF WorkerFails, Kinds
      <4> QED
        BY <1>1, <2>2, <4>1 DEF Pending, Raced
    <3> QED
      BY <3>1, <3>2
  <2> QED
    BY <2>3, <2>4, <2>5 DEF SourceInv
<1> QED
  BY <1>2, <1>3, <1>4, <1>5 DEF Worker

LEMMA SourceStep ==
    ASSUME IInv, [Next]_vars, Grows
    PROVE  SourceInv'
<1> USE DEF rows, starters, cancellers, worker, WorkerIdle, DropUpload
<1>0. TypeOK /\ Callers /\ SourceInv
  BY DEF IInv
<1>1. CASE Crash \/ Exit \/ Stop \/ InterruptInFlight
  BY <1>1 DEF Crash, Exit, Down, Stop, InterruptInFlight, SourceInv, Pending
<1>2. CASE ResetSyncing
  BY <1>2 DEF ResetSyncing, SourceInv
<1>3. CASE UNCHANGED vars
  <2>1. UNCHANGED <<sync, status, source, phase, spc, cpc, cjob, wpc, wjob>>
    BY <1>3 DEF vars
  <2> QED
    BY <1>0, <2>1, PendingFrame DEF SourceInv
<1> QED
  BY <1>1, <1>2, <1>3, SourceStarters, SourceCancellers, SourceWorker DEF Next, Boot

-----------------------------------------------------------------------------
(* The theorems *)

LEMMA InitInv == Init => IInv
<1> SUFFICES ASSUME Init PROVE IInv
  OBVIOUS
<1>1. TypeOK
  <2>1. "none" \in Statuses /\ << >> \in Seq(Jobs) /\ 0 \in 0..MaxFaults
    BY RunnerAssumption DEF Statuses
  <2> QED
    BY <2>1 DEF Init, TypeOK
<1>2. Callers
  BY DEF Init, Callers, Calm, WorkerOK, StartersOK, CancellersOK
<1>3. FlightInv /\ SlotInv
  BY DEF Init, FlightInv, InFlightIsHeld, SlotInv, SlotPairs, ActiveJobs, Active
<1>4. UploadInv
  BY RunnerAssumption DEF Init, UploadInv, UploadKept, UpStarters, UpWorker, UpCancellers
<1>5. SourceInv
  BY DEF Init, SourceInv
<1> QED
  BY <1>1, <1>2, <1>3, <1>4, <1>5 DEF IInv

LEMMA NextInv == IInv /\ [Next]_vars => IInv'
<1> SUFFICES ASSUME IInv, [Next]_vars PROVE IInv'
  OBVIOUS
<1>1. TypeOK' /\ Grows /\ Callers'
  BY TypeStep, CallersStep DEF IInv
<1>2. FlightInv' /\ SlotInv' /\ UploadInv' /\ SourceInv'
  BY <1>1, FlightStep, SlotStep, UploadStep, SourceStep
<1> QED
  BY <1>1, <1>2 DEF IInv

\* The inductive invariant of the job runner: types, what every caller holds, and one part for
\* each promise below.
THEOREM Invariance == Spec => []IInv
<1>1. Init => IInv
  BY InitInv
<1>2. IInv /\ [Next]_vars => IInv'
  BY NextInv
<1> QED
  BY <1>1, <1>2, PTL DEF Spec

\* The rows, the uploads, every enqueue and Cancel call and the worker stay in their types.
THEOREM TypeCorrect == Spec => []TypeOK
<1>1. IInv => TypeOK
  BY DEF IInv
<1> QED
  BY <1>1, Invariance, PTL

\* Between Boot and the next stop or crash a running or cancelling row is the worker's current
\* job (Runner.Boot's InterruptInFlight before the worker starts, execute, Cancel): only a status
\* written from an outdated read strands a row, or a read or write of the worker that failed
\* after the claim (execute returns the error and leaves the row).
THEOREM FlightHeld == Spec => []InFlightIsHeld
<1>1. IInv => InFlightIsHeld
  BY DEF IInv, FlightInv
<1> QED
  BY <1>1, Invariance, PTL

\* The one-job slot of StartSync is shared only after a race: a row created when the slot was
\* no longer free, or a row revived by an outdated write or claim.
THEOREM SlotKept == Spec => []SlotSharedOnlyByRace
<1>1. ASSUME IInv PROVE SlotSharedOnlyByRace
  <2> SUFFICES ASSUME Cardinality(ActiveJobs) > 1
               PROVE  \E j \in ActiveJobs : Raced(j, {"gate", "write", "claim"})
    BY DEF SlotSharedOnlyByRace
  <2>1. IsFiniteSet(ActiveJobs)
    BY FS_Subset, RunnerAssumption DEF ActiveJobs
  <2>2. Cardinality(ActiveJobs) # 0 /\ Cardinality(ActiveJobs) # 1
    BY <2>1, FS_CardinalityType
  <2>3. PICK j : j \in ActiveJobs
    BY <2>1, <2>2, FS_EmptySet
  <2>4. PICK k \in ActiveJobs : k # j
    BY <2>1, <2>2, <2>3, FS_Singleton
  <2> QED
    BY <1>1, <2>3, <2>4 DEF IInv, SlotInv, SlotPairs
<1> QED
  BY <1>1, Invariance, PTL

\* When nothing is left to run and no call is under way, a source still marked syncing was
\* marked by a StartSync whose job had already ended, or the Cancel call or the worker that ended
\* its job failed before SetSyncState: succeedJob, failJob, cancelJob, Cancel and Boot between
\* them settle every other.
THEOREM SourcesSettled == Spec => []SourcesSettle
<1>1. ASSUME IInv PROVE SourcesSettle
  <2> SUFFICES ASSUME Quiet, NEW s \in Sources, sync[s] = "syncing"
               PROVE  \E j \in Jobs : source[j] = s /\ Raced(j, {"syncing", "uncleared", "stranded"})
    BY DEF SourcesSettle
  <2>1. Pending(s)
    BY <1>1 DEF IInv, SourceInv
  <2> QED
    BY <2>1 DEF Quiet, Pending, ActiveJobs
<1> QED
  BY <1>1, Invariance, PTL

\* A queued upload job whose checkpoint names its file finds that file, through crashes between
\* cleanupJobUpload and the final status, unless one of four named steps took it: an enqueue call
\* that gave up, a job failed before its claim, a claim that failed (execute's deferred cleanup,
\* at Stop for one), a write that queued the row again.
THEOREM UploadsKept == Spec => []UploadKept
<1>1. IInv => UploadKept
  BY DEF IInv, UploadInv
<1> QED
  BY <1>1, Invariance, PTL
=============================================================================
