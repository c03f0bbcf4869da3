# Blacklight: verification project

Blacklight is one Go binary: an HTTP API and an embedded single-page application over one DuckDB file, in which a
red and a blue team run and score an engagement together. Every mutation goes through one serialized writer, but most
decisions are made on rows read *before* the writing transaction, on other connections, by other goroutines. That gap
is where the program is hard to test, and it is what these modules model.

`PROJECT.json` is the machine-readable side of this file: components, runs, mutants, the map from definitions to source
lines, findings, hazards and theorems.

## 1. Inventory

The process runs one goroutine per request, one content worker, one presence sweeper and the event-stream handlers. They
share the database (through `store.DB`), the event hub, the fan-out queue, the throttle tables and the presence
registry.

| component | state it keeps | operations | what is hard | what makes it correct |
|---|---|---|---|---|
| store: serialized writer | one-slot channel `writeLock`, `closing`, the `database/sql` pool, `FanoutQueue` | `Write`, `Close`, `Read` | contexts that end anywhere, failing commits, panics, Close against waiting writers, callbacks that need another connection | one writer, no leaked lock or connection, cancelled writes apply nothing, events only for committed rows and in commit order, calls return |
| events: activity log, hub, replay, SSE | activity rows with UUIDv7 ids, subscribers with bounded channels, the client's `Last-Event-ID` | `Record`, `RecordAlone`, `Publish`, `Subscribe`, `ReplayAfter`, `streamEvents` | ids minted, committed and published at different times; eviction; replay cap; reconnects | a client that reconnects misses no row |
| events: presence | entries per engagement and tab, caps, TTL | heartbeat, leave, sweep | caps against heartbeats; presence ids share the cursor | caps hold, a live tab is listed again |
| blind filter | none (a predicate over rows and events) | `VisibleActivity`, `FilterPresenceEvent`, query scopes | two implementations of one rule, reveal racing a read | blue sees a step only once it is revealed |
| content: job runner | job rows, `source.status`, upload files, the worker's run context | `StartSync`, bundle and v1 import, `Cancel`, worker loop, `Boot`, `Stop` | gates and statuses read outside the transaction that acts on them; crash between any two writes | one job at a time, every job ends, no source stays syncing |
| content: library, adapters, version pins | content rows per release | import, custom objects, pin and purge | the import pipeline's apply; pins against references | a referenced release stays |
| engagement: executions and lifecycle | engagement, step and execution rows, an execution version | red and blue patches, reveal, `Update`, `SetStatus` | checks outside the writing transaction; only executions carry a version | no lost update, legal statuses, a shut engagement refuses, auto reveal reveals |
| engagement: scenarios, steps, pin | scenario and step rows under `UNIQUE(scenario_id, ordinal)`, `attack_version` of the engagement and of each step | create scenario and step, from template, import a plan, patch the pin; delete, reorder | the next ordinal, the pin and the step count are read before the write | ordinals stay dense and unique, steps carry the engagement's pin |
| engagement: members | membership rows | add, change role, remove | the last-lead rule is a read before the write | an engagement keeps a lead |
| engagement: comments, findings | rows, comment revisions, finding history | CRUD | one deciding read each | history matches the row |
| evidence | content-addressed files, `evidence_blob.ref_count`, evidence rows | `Put`, download, delete, delete of the engagement | file, count and row change in separate steps; the file goes before its row; a delete that stopped is run again | evidence that was stored can be opened; content can be stored again |
| authn: login throttle | two tables of failure counts, each behind a mutex | `Check`, `Failed`, `Succeeded`, sweeping | reports that arrive after the key closed; full tables | lockouts are kept, guessing and fail-open are bounded |
| authn: sign-in and second factors | the pending challenge, the TOTP enrolment and its last step, recovery codes, sessions | log in, verify a code, enrol, confirm, disable, regenerate, change the password | one exchange spread over several transactions, each of which may be the last | one code buys one session; a changed password or a removed factor leaves nothing behind |
| authn: accounts and federation | user rows, linked identities, sessions | create, edit, disable, rename, log in, federated sign-in | whole rows written back over columns somebody else changed; guard chosen from the row read | an administrator remains; a disabled account holds no session |
| authn: service tokens | token rows | create, rotate, revoke | last-used updates | a revoked token is refused |
| authz | none | `Can` | none (a table) | the table, which its tests enumerate |
| report: publish, share, PDF hash | blocks, versions with ordinals, share links with a grant cap, grants | publish, render, share, claim, revoke, delete | ordinals, existing grants and the hash read before the write; delete in five committed statements | ordinals dense, the cap holds, a revoked link is closed |
| analytics, scoring, archive, PDF, config, CLI, setup, migrations, web client | read-only or start-up | | | |

How they interact: a handler calls a service, which reads through the pool and then calls a store function; that one runs
in `DB.Write`, and its `After` hook calls `Log.Record`, which inserts the activity row in the same transaction and pushes
a callback on the fan-out queue. After the commit, and still under the write lock, `Write` flushes the queue, and each
callback publishes to the hub. The stream handler subscribes to the hub, replays committed rows after the client's cursor
and then tails its channel. `RecordAlone` and presence publish without the lock. The content worker writes through the
same `DB.Write` and polls the job table.

The hazards, each at the line where it bites, are listed in `PROJECT.json`.

## 2. Modules

| module | models | extended by |
|---|---|---|
| `WriteService` | what the doc comments of `DB.Write` and `DB.Close` promise (abstract) | instantiated by `StoreWriter` |
| `StoreWriter` | `internal/store/db.go`, `postcommit.go` | `MCStoreWriter`, `StoreWriterProofs` |
| `FeedState` | the state of the event stream and its two safety promises | `EventStream`, `StoreWriterProofs` |
| `EventStream` | the steps over it: `internal/events/{activity,hub,replay}.go`, `internal/httpapi/events.go`, ids of `presencehandlers.go`, `web/src/lib/use-event-source.ts` | `MCEventStream`; instantiated by `StoreWriterProofs` |
| `JobRunner` | `internal/content/{runner,bundle,import,import_job}.go`, `internal/store/content/{jobs,sources}.go` | `MCJobRunner`, `JobRunnerProofs` |
| `Executions` | `internal/engagement/{executions,steps,service}.go` and their store functions | `MCExecutions`, `ExecutionsProofs` |
| `Workbook` | `internal/engagement/{service,scenarios,steps,from_template,import,members}.go`, `internal/store/engagement`, `internal/store/identity/memberships.go` | `MCWorkbook`, `WorkbookProofs` |
| `EvidenceState` | the state of the evidence store and its three promises | `Evidence`, `ExecutionsProofs` |
| `Evidence` | the steps over it: `internal/evidence/store.go`, `internal/httpapi/evidencehandlers.go`, `internal/store/engagement/{blobs,evidence,engagements}.go` | `MCEvidence`; instantiated by `ExecutionsProofs` |
| `Throttle` | `internal/authn/throttle/throttle.go`, `internal/httpapi/throttle.go` | `MCThrottle`, `ThrottleProofs` |
| `SignIn` | `internal/authn/{service,mfa,recovery}.go`, `authn/{challenge,session,totp}`, `internal/store/identity` | `MCSignIn`, `SignInProofs` |
| `Accounts` | `internal/authn/{users,federated,service}.go`, `internal/store/identity/users.go` | `MCAccounts`, `AccountsProofs` |
| `ReportShare` | `internal/report/{service,publish,share}.go`, `internal/store/report`, the PDF handler of `internal/httpapi/reporthandlers.go` | `MCReportShare`, `ReportShareProofs` |

The `MC` modules add only symmetry sets and initial rows. Operators commented `[mutant]` are wrong variants of the
definition that follows them; nothing of the specification uses them. They document what each property would catch.
Variables commented *history* do not exist in the program: they are written and never guard a step, and let a property
speak about an earlier state. They are `late` (`StoreWriter`), `seen`, `overtaken`, `raced`, `alwaysAuto`, `promise`,
`overtime`, `pinRaced`, `leadRaced` and the calls' `over` (`Workbook`), `released`, `twice`, `contested`, `purged`
(`Evidence`), `signedOut`, `revived`, `retired` and the `late` marks (`SignIn`), `cause`, `ended` and `late`
(`Accounts`), `hist` (`ReportShare`).

Most properties of the request modules have the form *P, unless a named overlap happened*. The overlap is recorded by the
step that acts on what another request has changed since, so the exception is one interleaving of the code, not a hole: a
request that runs alone, or overlaps in any other way, has to keep P. Such a property bounds the damage of the race it names
and does not catch the race itself, which the code has. Where the exception is wide it leaves little more than the sequential
rule: `ShutRefusesLateCalls`, `PinsDivergeOnlyByOverlap`, `LeadLostOnlyByOverlap`, `QuietContentStorable`,
`EnabledOnPurpose`, `TwoGrantsOnlyByOverlap`, `PDFHashKept`. The notes of the hazards in `PROJECT.json` say which half each
covers.

### StoreWriter

A member of `Writes` is one call of `DB.Write`; its `pc` follows the function: `Enter` (the check of `closing` and the
context), `TakeSlot`/`SelectLeaves` (the three-way `select` of `acquireWrite`, which picks any ready branch), `Recheck`,
`Checkout`/`CheckoutFails` (`pool.Conn`), `Begin`, `Record` (an activity row and its pushed callback), `FnFails`, `FnPanics`,
`FnReturns`, `Commit`, `CommitFails`, `Flush`, `RunCallback`, `Finish`, `Release` (the deferred connection close and unlock).
The slot is a boolean: who owns it is told by the callers' positions only, as in the code. `CancelCtx` may end any context at
any time. A running callback queries the pool for another connection (the lookup of the step's reveal state), which is why a
full pool matters. Failures of the rollback are outcomes of `FnFails`.

`WriteService` says the same in four steps: a write is applied (`Apply`), a call returns nil if and only if its write was
applied (`Return`), a call whose context ended first is void (`GiveUp`), and `Close` waits for the applied write to be
answered. `StoreWriter` implements it with `applied <- history, result <- outcome, void <- late, open <- closer # "closed"`
(`KeepsPromise`); a commit is an `Apply`, setting the outcome is a `Return`, everything else stutters.

### EventStream

One engagement topic and one browser client. Entries in `Recorded` are written under the write lock and published by the
flush; entries in `Alone` go through `RecordAlone`, which appends, unlocks, and then publishes; `Beats` are presence events,
whose id is minted at publication. `Snapshot` is `Publish` copying the subscriber list, `TrySend` the non-blocking send that
evicts a full subscriber. `Connect` subscribes, `ReplayThenTail` replays at most `MaxReplay` rows after the cursor or sends a
gap frame, `Tail1` forwards one event, `StreamEnds` ends an evicted stream, `Drop` loses the connection, and `Receive` is the
browser taking a frame and moving its cursor. The client is new, or comes with the cursor of an earlier visit. Ids are a
rising counter, because UUIDv7 values minted by one process are ordered by minting time. The query's `ORDER BY` is a relation
and not a computation: `OldestFirst(S)` is the set of sequences that list `S` in rising order (there is one for a finite
`S`), and the replay is any member of it, cut by `ReplayAfter`.

### JobRunner

Each read and each write transaction of `StartSync` (`Gate`, `Create`, `ReadBack`, `StoreCheckpoint`, `MarkSyncing`,
`Abandon`), of `Cancel` (`CancelRead`, `CancelWrite`, `CancelSource`, `CancelCtx`), of the worker (`Tick`, `LoadSourceFails`,
`ClaimRunning`, `Register`, `ReportRead`, `ReportWrite`, `PipelineEnds`, `Decide`, `Reread`, `CleanupUpload`, `FinishJob`,
`FinishSource`) and of `Boot` (`InterruptInFlight`, `ResetSyncing`) is a step. `JobTimeout` is the deadline of the run
context. Any of these may fail: an enqueue call returns and drops its upload (`Abandon`); `Cancel` returns (`CancelFails`),
or, once the job is cancelled, skips or only logs a source it cannot read or set back (the second alternative of
`CancelSource`); `execute` returns with the row as it is, and its deferred cleanup drops the upload that the checkpoint it
read (`wcp`) names (`WorkerFails`). `Crash` ends the process anywhere. `Stop` cancels the worker's context: in the phase
`stopping` the process still runs, but its transactions fail or never come, until `Exit`. The CLI stops the runner and waits
for it; the server only closes the database under the worker, which then fails in the same places.

The history variable `raced` names every step that acted on an outdated read or gave up midway, and how; the properties say
what holds for all other jobs, so each exception in them is a named case and not a hole: `gate`, `write`, `claim`, `syncing`
(a StartSync, a written status, a claim and a marking of the source on an outdated read), `abandon` (an enqueue call that
failed after its row was created), `early` (a job failed before it was claimed), `unclaimed` (a claim that failed or was
stopped, and whose upload is gone while the row stays queued), `stranded` (a failure of the worker after the claim, which
leaves the row in flight, and the slot taken, until the next boot) and `uncleared` (a source left syncing by a `Cancel` whose
request was gone).

### Executions

A request slot serves one call after another: `PatchRedExecution` (`Send`, `ReadExecution`, `CheckRed`, `AutoReveal`,
`PatchRed`), `PatchBlueDetection`, `RevealStep`, `Update` and `ChangeStatus`. A call record holds what its client and its
handler read. Executions carry a version that the `UPDATE` names in its `WHERE`; the engagement row carries none, and that
difference is the subject of the module.

### Workbook

A request slot serves one call after another; a call record holds what it has read. `ReadEngagement` reads pin and status,
`NextStepOrdinal` is `MAX(ordinal) + 1` through the read pool, and `CreateWithExecution` inserts with the ordinal and the pin
that were read, refused by `UNIQUE(scenario_id, ordinal)`. An import (`BeginImport`) creates its scenario and then one step
per transaction from the starting ordinal on, so one that is refused half-way leaves a prefix of the plan. `ReadForUpdate`,
`CountSteps` and `WriteEngagement` are the freeze of the pin ("attack_version cannot be changed once steps exist") and the
write of the whole row. `CheckLastLead` and `WriteMember` are `PatchMemberRole` and `RemoveMember`. `SetStatus` is reduced to
shutting and reopening; its state machine is in `Executions`.

The races are real: two overlapping removals leave an engagement without a lead, and a step created between the count and
the write keeps a technique of the old version. `PatchStep`'s doc comment speaks of a soft freeze after the start, for
which the code has no check. Deleting and reordering steps and scenarios are left out: they move rows through
ordinals that a unique key already holds, and whether DuckDB accepts that depends on its eager key checks
(`0003_user_updatable.sql` works around them), which the source does not settle.

### Evidence

A blob is a file and an `evidence_blob` row with a count. Storing is `Stat`, then `IncrementRef` for a known content or
`Rename`, `InsertBlob` and, on an error, `Cleanup` (the removal of the file) for a new one, then `Create` of the evidence
row. Deleting is `DeleteLink`, `DecrementRef`, `RemoveBlobFile`, `DeleteBlob`; deleting an engagement is `Release` (the
decrement of the shared counts), `DropRows`, `DropRest`, in committed statements. `Fail` fails any transaction, `Crash` stops
every call; an engagement whose delete stopped may be deleted again. The initial rows share one content between two
engagements.

The upload is the sequence the load test runs (`internal/engagement/loadtest/warroom_test.go:365`), `Put` and then
`EvidenceRepo.Create`. The handler `UploadEvidence` cannot complete it at this commit: it reads the next multipart part
before it uses the file part, which drains it, and does not pass the digest to `Create`. What the model shows about the
store: of two uploads of one new content the loser's cleanup removes the winner's file (`contested`); an engagement
delete that is run again gives its references back twice (`twice`); `DeleteBlob` refused by the foreign key leaves a row
without a file, which refuses every later `Put` of the content; and the sweeper that the comment at
`engagements.go:264` relies on for files left behind does not exist.

### Throttle

Two tables, one per scope. `CheckAccount` and `CheckSource` are the halves of `Limiter.Check`, `Handler` the guarded
handler deciding the outcome with no lock held, `FailAccount`/`FailSource` the halves of `Failed`, `Succeed` is
`Succeeded`, `Tick` the clock. `fail` is `counter.fail` with its sweep, admission and full flag. The ladder of lockouts
(1, 2, 4, 8 times the rule) is the code's.

### SignIn

One account with a local password. Passwords, secrets, recovery codes and challenges are numbered in the order they are made;
a session remembers which code, challenge and password it rests on. `Login` compares the password it read, `UpgradeHash`
rewrites the row with stronger parameters, `DecideLogin` chooses between a session and `OpenChallenge`. A verification is
`Resolve`, `PresentTOTP`/`Accept` or `PresentRecovery`/`UseCode`, `Spend`, `Issue`. `EnrollRead`/`Enroll`,
`ConfirmRead`/`MintCodes`/`SatisfyMFA`, `DisableRead`/`DeleteTOTP`/`DeleteCodes`, `RegenerateRead` and
`ChangeRead`/`UpdatePassword`/`RevokeOthers`/`Discard` are the management calls; `Revoke` is a logout. `EditRead`/`EditWrite`
are everything else that reads the row and later writes all its columns, the password hash included (`Users.Update`): a
rename, an administrative edit or status change, a claimed invitation, a mapped role. A request may stop before any step.

Worth knowing, and all within the properties: an edit that read the row before a password change writes the old password's
hash back (`revived`), as a hash upgrade does; `Accept` names the user and not the secret, so a code of a replaced secret can
confirm its successor; the check of `EnrollTOTP` is outdated when it writes, so it can replace an enrolment that was
confirmed in between; a second factor verified between `RevokeOthers` and `Discard` leaves a session that rests on the old
password. The rotation of session tokens is abstracted with the token values.

### Accounts

Every edit reads the row, changes some columns and writes the whole row (`Users.Update`, operator `Update`). `ReadAsAdmin`
and `ReadSelf` begin an edit, `SaveAccount` writes it with `lastAdminGuard` when the row *read* was an active
administrator's, `RevokeAll` ends a disabled account's sessions in a transaction of its own. `Login`, `UpgradeHash`, `Issue`
are a sign-in by password; `FederatedUser`, `Link`, `Provision`, `Claim`, `ApplyMappedRole` the account side of a federated
one. Provisioning creates the user and then the identity in two transactions.

### ReportShare

One report. `Publish`, `NextOrdinal`, `Insert` number a version; `RenderPDF`, `SetPDFSHA256` store a hash when the read found
none; `CreateShare`, `InsertShare`; `ClaimShare`, `Existing`, `ClaimInsert` claim, with the cap counted in the inserting
transaction and the existing grant looked up before it; `RevokeShare`, `Revoke`, `ListByShare`, `RevokeEach` revoke a link
and then its grants one by one; `Delete` and the five statements after it remove the report, refused by the foreign keys if a
child was written in between. `Fail` ends any request before its next statement. A `RevokeShare` that ends so after its first
commit leaves grants on a revoked share (`hist.halted`), and a second call answers 404; the endpoint that revokes one grant
is then the way to be rid of them.

## 3. Runs

| run | question | answer |
|---|---|---|
| `store_writer` | Do two calls of `Write` that fail, panic, are cancelled or commit anywhere, with `Close` and two readers, keep one writer (`OneWriter`), give back every connection (`NoConnLeak`), publish exactly the events of successful calls (`FanOutMatchesOutcome`) in commit order (`PublishedInCommitOrder`), fall silent after `Close` (`QuietAfterClose`), implement `WriteService` (`KeepsPromise`) and return (`EveryWriteReturns`, `CloseReturns`)? | holds |
| `event_stream` | Can the cursor pass a row the client never got? Only if a larger id was sent before the row (`LossOnlyByOvertaking`), for transactional rows only by a presence event (`RecordedOvertakenByPresenceOnly`). Does every other row arrive, with a one-event buffer, a one-row replay and a connection that drops (`EveryRowArrives`)? | holds |
| `job_runner` | With two enqueue calls, a cancel, a timeout, one stop, crash or failure of the worker, requests that fail, and a reboot: are rows in flight held by the worker (`InFlightIsHeld`), the slot exclusive (`SlotSharedOnlyByRace`), sources settled (`SourcesSettle`) and uploads kept (`UploadKept`), but for the races and failures recorded by name? | holds |
| `job_runner_live` | Does every enqueued job end (`EveryJobSettles`)? | holds, unless an outdated write moved its row or the worker failed after the claim |
| `executions` | Does the version check prevent lost updates (`NoLostUpdate`) and illegal statuses (`StatusMovesLegally`); does a shut engagement refuse (`ShutRefusesLateCalls`); does auto reveal reveal (`StartedIsRevealed`)? | holds |
| `workbook` | Do steps carry the engagement's pin (`PinsDivergeOnlyByOverlap`) and does a lead remain (`LeadLostOnlyByOverlap`) but for overlapping requests; do racing creations and imports keep ordinals unique and dense (`OrdinalsDense`)? | holds |
| `evidence` | Through failures and a crash: can evidence be opened (`EvidenceOutlivesFaults`), does the count cover the rows (`CountCoversRows`), and without failures, can a content at rest be stored again (`QuietContentStorable`), but for the overlaps recorded by name? | holds |
| `throttle` | Does a lockout last exactly as announced (`LockoutExact`), are failures during a lockout bounded by the requests in flight (`OvertimeBounded`), do stale keys crowd a new one out for less than a sweep interval (`CrowdedOutBriefly`)? | holds |
| `sign_in` | Does one code or challenge buy one session (`CodeBuysOneSession`); what survives a password change (`OldPasswordOnlyInFlight`) and the removal of an authenticator (`RemovedFactorLeavesNoCodes`)? | one; only what was in flight, unless a write puts an older hash back |
| `accounts` | Do guarded edits keep an administrator (`AdminsLostOnlyByUnguardedWrite`), does a disabled account hold no session but a late one (`DisabledHoldsNoSession`), is nobody enabled by accident (`EnabledOnPurpose`)? | holds |
| `accounts_last_admin` | Does an administrator remain whatever the edits (`AnAdminRemains`), when no role is mapped? | **violated**, see the finding |
| `report_share` | With requests that fail anywhere: does the cap hold (`CapHolds`); who holds two grants (`TwoGrantsOnlyByOverlap`) or a grant of a revoked link (`RevokedShareKeepsLateGrantsOnly`); are ordinals dense (`OrdinalsDense`) and PDF hashes kept (`PDFHashKept`)? | holds |

Each module of a component defines `TypeOK`. It is proved for all of them (for `Workbook` as part of the inductive
invariant), and no run repeats it.

### Finding

**The last administrator is lost to an edit of something else** (`internal/authn/users.go:301`). `saveAccount` asks for the
guard only when the row it *read* was an active administrator's, and then writes every column of that row. An edit that read
the account before it became the installation's active administrator puts the old role or status back with no guard, although
the comments promise that "an installation must never end up with no administrator" (`internal/store/identity/users.go:293`).

### Known divergences

Nine properties are stated in the modules and refuted by the code; each quotes a promise of a comment or of the interface.
The passing runs state what holds instead. Adding the property to the configuration of the module's run shows the
counterexample.

- `StoreWriter!NoPhantomEvent` (invariant): `Write` clears the fan-out queue only after `fn` failed and the rollback
  succeeded. A failed commit, a panic or a failed rollback leaves the callbacks in the process-wide queue, and the next
  successful `Write` of any request publishes them (`internal/store/db.go:187`).
- `EventStream!NoSilentLoss` (invariant): `RecordAlone` publishes after releasing the lock; a client that got the newer of
  two rows and reconnects never gets the older one (`internal/events/activity.go:328`).
- `JobRunner!OneActiveJob` (invariant): the single-slot gate is a read before the insert (`internal/content/runner.go:385`).
- `JobRunner!CancellingEnds` (property, in `JobRunnerLive.cfg`, which has the fairness): `Cancel` writes `cancelling` over
  the worker's final status; the row holds the slot until the next boot (`internal/content/runner.go:499`).
- `JobRunner!UploadKeptUntilTerminal` (invariant): "the file at BundlePath is removed when the job reaches any terminal
  status" (`internal/content/bundle.go:128`). The worker removes it before the final status, and a claim that fails or is
  stopped removes it from a job that stays queued (`internal/content/runner.go:602`).
- `Executions!LifecycleLegal` (property): `SetStatus` validates an earlier read and writes unconditionally, so a closed
  engagement reopens (`internal/engagement/service.go:385`).
- `Evidence!FailedDeleteCorruptsNothing` (invariant): a delete of an engagement that is run again gives the references
  back twice, and a file another engagement still needs goes (`internal/store/engagement/engagements.go:238`).
- `ReportShare!RevokedShareKeepsNoGrant` (invariant): "Revokes the share and every grant under it" (`api/openapi.yaml:7180`).
  A failed statement, a gone request or a grant somebody else revoked ends the loop early, and a claim in flight adds a grant
  after it (`internal/report/share.go:331`).
- `ReportShare!PDFHashSetOnce` (property): "pdf_sha256 is set once on first PDF generation" (`0020_report_versions.sql:11`).
  Two first renderings both found no hash, and the second one overwrites the first one's
  (`internal/httpapi/reporthandlers.go:583`).

### Bounds and why they are enough

- *store_writer*: two writes, two readers, a pool of two. A leak, a lost wakeup and an event crossing to another call all
  need two calls; two readers fill the pool, so the writer and its callback have to wait for a connection.
  `MaxRecords = 2` distinguishes the order of two events of one call. The theorems cover any number of each.
- *event_stream*: a transactional row, a standalone row, a presence event and two dropped connections (536,803 states).
  `Buffer = 1` makes eviction and `MaxReplay = 1` makes the gap frame frequent. Overtaking needs two ids, of any two kinds; a
  cursor that skips a row needs one reconnect.
- *job_runner*: two enqueue calls (one over an upload), one source, one cancel, one fault (6,125,501 states). Both jobs share
  the source, the hard case. A fault is a stop, a crash or a failed transaction of the worker while the process is up; a
  failure in a stopping process, of an enqueue call or of `Cancel` does not count, so one fault and these still combine. Each
  exception of a property needs one fault only. The live run follows one upload job (58,807 states); liveness over two jobs
  takes too long to be checked with every change.
- *executions*: two request slots, each serving calls one after another up to version 4, which is enough for
  pending to running to complete with a blue patch in between. One step, since executions of different steps share only
  the engagement row; the theorems cover any number.
- *workbook*: two request slots, four requests, two pins, two users, plans of two steps from ordinal 2, ordinals up to 4
  (1,436,180 states). Every race is between two requests; two users are the least for a last lead to be somebody else; the
  starting ordinal above 1 makes the gap below a plan. The theorems cover any number.
- *evidence*: three slots, four calls, two contents, two engagements sharing one of them, one fault (613,168 states). An
  upload, a delete and an engagement delete overlap on one content while the second content stays quiet.
- *sign_in*: two slots, six calls, two of each kind of credential (1,127,088 states), which is what "one code, two
  sessions" and "an old password after a change" need; `Skew = 1` as in the code.
- *accounts*: two users, two slots, four calls, one mapped role (905,659 states). The finding needs five calls and no
  mapped role, so that the loss cannot be blamed on the identity provider.
- *report_share*: three slots, six calls, two users, a cap of one, one share, three versions, three grants (392,675
  states). Three slots let a revocation, a claim and another claim overlap.
- *throttle*: two accounts compete for a table of one key, one source, two requests in flight and three attempts in all;
  the clock passes the longest lockout (8) plus a sweep interval (2), so staleness and the full flag are reached.

The bounded counters are named in the modules: `MaxRecords`, `MaxDrops`, `MaxFaults`, `MaxVersion`, `MaxTime`, `MaxAttempts`,
`MaxOrdinal`, `MaxCall`, `MaxRow`, `MaxFault`, `MaxStep`, `MaxPw`, `MaxSecret`, `MaxCode`, `MaxChallenge`, `MaxSession`,
`MaxShare`, `MaxGrant`. The runs that end because a bound is used up, or because all calls have returned, turn the deadlock
check off; the liveness properties speak about calls that would hang.

### Fairness

- `StoreWriter`: a goroutine that can run does run (weak fairness of each call's own steps), `fn` and queries return;
  `database/sql` hands a freed connection to a random waiter, so a waiter that has a chance again and again gets one
  (strong fairness of `Checkout` and `RunCallback`). No failure, panic, cancellation or `Close` is forced.
- `EventStream`: handlers that have begun run to their end; the server writes, the browser reads and reconnects
  (`EventSource` reconnects by itself). Drops, rollbacks and new work are not forced.
- `JobRunner`: a stopping process ends, the process is restarted after a stop or a crash, handlers and the worker run on; a
  pipeline that keeps reporting ends, because its context has a deadline (strong fairness, since each report suspends the
  choice). Requests, stops, crashes and failures are not forced; a process has finitely many of the last three (`MaxFaults`),
  without which nothing would have to end.
- The other modules state safety only and assume no fairness: their calls are straight-line code whose return is
  the writer's liveness.

## 4. Proofs

TLAPS proves the following for every value of the constants.

- **`StoreWriterProofs`** (any number of calls and readers, any pool of at least two): `WriterExclusion`,
  `ConnectionsAccounted`, `CancelledWritesApplyNothing`, `TypeCorrect`, `CloseIsQuiet`. The inductive invariant is `TypeOK /\
  OneWriter /\ NoConnLeak /\ LateInv`. `OneWriter` is inductive only with its last conjunct, that the slot is full exactly
  when somebody owns it; `NoConnLeak` needs the arithmetic of one program counter moving into or out of the positions that
  own a connection (`ConnHoldersCard`); `LateInv` adds that a late call has no transaction and that no call before its commit
  is in the history. Assumes finite sets of calls and readers. `OutcomesAgree` adds `OutcomeInv`, that a call returned nil if
  and only if it is in the history or still on its way there, and from it `ImplementsService` proves the refinement of
  `WriteService` step by step. `FanOutInCommitOrder` proves `PublishedInCommitOrder`. `FanOutAgrees` proves
  `FanOutMatchesOutcome` with `FanInv`, which follows the events of a call from the queue through the batch of whoever
  flushes it to the subscribers: how many are where is a function of the call's position, and the lemmas `AppendEvents` and
  `TailEvents` say how a push and a publication change the counts.
- **`ExecutionsProofs`** (any requests, steps, categories, versions): `TypeCorrect`, `PatchesSeeWhatTheyChange`,
  `StatusesMoveLegally`, `LateCallsRefused`, `StartsAreRevealed`. The invariant is per call: `Tied` (what a patch read is
  never ahead of the row and, while the row is at that version, is what the row says), `Sound`, `Vetted` (a patch past its
  check was legal for the status read, and its step is revealed by the time it writes) and `Kept`. `StatusMovesLegally` needs
  it because the check and the write are separate steps: only a version that has not moved makes the checked status the
  status replaced. The versions are the whole argument, which is why the engagement row, without one, can reopen.
- **`WorkbookProofs`** (any requests, pins, users, starting ordinals, plan sizes): `Invariance`, `PinFreezeHoldsUnraced`,
  `LeadKeptUnraced`, `OrdinalsStayDense`. The invariant says of each call that what it read still holds unless it is
  marked overlapped (`Knows`), and that the ordinal it is about to use does not skip one (`OrdOK`). `OrdinalsDense` is
  unconditional: the unique key makes an outdated ordinal collide, and an ordinal that does not collide was the next one.
- **`ThrottleProofs`** (any keys, rules, table size, sweep interval, requests): `TypeCorrect`, `LockoutsAreKept`,
  `OvertimeIsBounded`, `CrowdingIsBrief`. `Ladder` bounds an entry's lockout by its age, so nothing still locked is stale;
  `Promised` ties the table to the lockouts announced; `Fresh` says what the last sweep left; `Late` counts failures during
  a lockout plus requests still in flight, which together stay below the number of slots.

- **`JobRunnerProofs`** (any finite number of jobs; any sources, cancels, faults): `TypeCorrect`, `FlightHeld`, `SlotKept`,
  `SourcesSettled`, `UploadsKept`. `Callers` says what each caller can rely on: nobody acts while the process is down, a row
  that somebody works on exists, a verdict is terminal. Each promise then needs what it does not say itself. `FlightInv`:
  `Boot` has left no row in flight before the worker starts, but what an outdated write or a failure put there. `SlotInv`: of
  any two active rows one was raced, and a report revives no ended job, because the worker's row is in flight or was raced.
  `UploadInv`: whoever is about to drop a file works on a job that is not queued, or says so in `raced`. `SourceInv`: every
  syncing source has somebody who will still set it back (its active job, the worker, a `Cancel` call past its write, the
  next boot), or one of those has failed or came too late (`syncing`, `uncleared`, `stranded`).
- **`SignInProofs`** (any number of requests, any bounds): `TypeCorrect`, `OneCodeOneSession`, `OldPasswordSignedOut`,
  `RemovedFactorGone`. Three independent parts, each about the rows, about one request and about pairs of requests. `CInv`: a
  code that bought a session cannot be presented again, and a request that still carries it does so on a challenge that
  nobody can spend any more; hence the code may be *checked* twice and yet buys one session. `PInv`: past its revocation a
  change of password has marked every request that rests on an older one. It holds as long as the row's password is the
  newest (`~revived`), and every whole-row write by an outdated reader ends that: `UpgradeHash` and `EditWrite` are the steps
  at which the proof asks for it. `FInv`: the same for a removed secret and the requests that mint codes for it.
- **`AccountsProofs`** (any users, calls, mapped roles): `TypeCorrect`, `AdministratorKept`, `DisabledIsSignedOut`,
  `OnlyEditsEnable`. The invariant `CallOK` says what a call read and still counts on: a sign-in that no revocation overtook
  has not read as active an account whose disabling has ended. `AdministratorKept` rests on the count inside the writing
  transaction.
- **`ReportShareProofs`** (any people, requests, versions, shares, caps): `TypeCorrect`, `CapKept`, `OneGrantEach`,
  `RevocationReaches`, `OrdinalsStayDense`, `HashKept`. `VInv` for publishing (an ordinal about to be used is taken or
  the next one), `SInv` for sharing (a claim past its question for an existing grant finds none unless the same person claims
  twice; an unrevoked grant of a revoked share is late, or a revocation under way will come to it, or the share is marked
  `halted`).

Two proof modules hold the proofs of a second model. `StoreWriterProofs` extends `FeedState` and reaches the steps of the
event stream as `Stream == INSTANCE EventStream`; `ExecutionsProofs` extends `EvidenceState` and has `Evid == INSTANCE
Evidence`. The two models of a file have no constant, variable or definition in common, and the theorems read `Stream!Spec =>
[]P` and `Evid!Spec => []P` with the `P` the runs check. An instance brings a copy of `FiniteSets`, hence the lemmas
`SameCardinality` and `SameCount`.

- **`EventStream`, in `StoreWriterProofs`** (any recorded and standalone entries and presence events, any buffer and replay
  cap of at least one, any number of drops): `StreamInvariance`, `StreamTypeCorrect`, `NoLossButOvertaking`,
  `OnlyPresenceOvertakesRecorded`. `LossOnlyByOvertaking` speaks of the cursor alone, and the cursor moves to whatever frame
  comes next; so the invariant follows a row all the way. `Minted` (an id is given once) and `LockInv` (while an entry holds
  the write lock no entry and no row has a larger id) say what the writer guarantees. `Owed` are the rows, committed or about
  to be, that the stream owes the client; for these `CursorInv`, `WireInv` and `ChanInv` say that nothing the cursor, a frame
  under way or an event in the channel would leave behind is unknown to the client by then: it was received, comes earlier,
  is covered by a gap frame or by the replay still due (`Coming`), or was overtaken. `OpenInv` is why this survives a new
  event: an open subscriber has every row it lacks in its channel, or the producer is still about to send it (`ToSend`).
  About a replay the proof uses that it lists every missed row in order, which is what `OldestFirst` says.
  `RecordedOvertakenByPresenceOnly` is inductive with `LockInv`.
- **`Evidence`, in `ExecutionsProofs`** (any contents, engagements, requests, rows and faults; finitely many rows stored at
  first, numbered without gaps): `EvidenceInvariance`, `EvidenceTypeCorrect`, `EvidenceSurvives`, `QuietContentIsStorable`,
  `CountsCoverRows`. A reference is held by a stored row or by a delete between `DeleteLink` and `DecrementRef`; `Claims(b)`
  is the set of both that were not given back. `Covered(b)`: claims have a file and a count of at least their number, an
  upload past its increment has one more, and whoever is about to remove the file or its row finds no claim. This is not
  preserved by itself: `Excl` says that outside `contested` an upload has its content to itself, `IdsFresh` that no id is
  given twice, so that one delete at a time works on a row, and `FiniteClaims` lets cardinalities be compared. `Release` is
  the hard step: it subtracts the number of an engagement's rows at once, and these are claims exactly when none of them was
  given back before (`twice`). For `QuietContentStorable`, `Quiet(b)` names the two positions at which file and row are apart
  (after `Rename`, after `RemoveBlobFile`) and the one call that is there; `Leftover` (without a failure a row given back is
  about to be dropped) and `PurgeAlone` keep `DeleteBlob` from being refused.

The action properties (`CloseIsQuiet`, `StatusesMoveLegally`, `CrowdingIsBrief`, `OnlyEditsEnable`, `HashKept`) and the
refinement follow from the same invariants, step by step. The assumptions are the named `ASSUME`s of the modules; TLC
evaluates them on each run.

Only model-checked:

- all liveness properties (`EveryWriteReturns`, `CloseReturns`, `EveryRowArrives`, `EveryJobSettles`): fairness is out of the
  prover's reach.

Every invariant and every action property of a passing run is proved; `AnAdminRemains` is refuted by its run.

## 5. Not modelled

Most of the repository's Go lines are generated (`sdk/go/client.gen.go`, `internal/httpapi/gen/server.gen.go`) or carry no
state: format adapters and scoring are sequential data transformations; authz is a table enumerated by its tests;
analytics and the archive only read; PDF drives an external browser; configuration, CLI, setup and migrations run before
the process serves. Comments, findings, custom content and service tokens are single-transaction row operations. The
exchanges of OIDC and SAML with the provider, password hashing and secret encryption are external or cryptography.

Inside modelled components: a stream with several topics and the subscriber caps, the presence caps and sweep, the blind
filter, the phases of the import pipeline, deletion and reordering of steps and scenarios, patches of descriptive fields
(`PatchStep`, `PatchScenario` write back whole outdated rows, as `Update` does), touching and idle expiry of sessions, and
the wording of errors, logs and activity rows.

## 6. Plan

Done, in this order: `StoreWriter`, `EventStream`, `JobRunner`, `Executions`, `Throttle`, `WriteService` and its refinement,
`Workbook`, `SignIn`, `Accounts`, `Evidence`, `ReportShare`; proofs of the safety properties of all of
them.

1. `Presence`, with its caps and sweep, and `Blind`, composed with the reveal of `Executions`.
2. The phases of the import pipeline as a refinement of `PipelineEnds`.
3. An abstract specification of a lossless activity feed that `EventStream` implements up to overtaking, proved from
   `StreamInv`.

The safety and liveness runs of a module are merged where the state space allows, as in `store_writer`, so that the number of
runs grows with the number of questions and not of modules.

## 7. Running

    tlc -config StoreWriter.cfg MCStoreWriter      # likewise for the other configurations
    tlapm StoreWriterProofs.tla                    # likewise the other Proofs modules

The largest runs (`job_runner`, `executions`, `throttle`) take one to two minutes with two workers, the others about one or
less.
