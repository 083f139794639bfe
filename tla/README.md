# cheapspace in TLA+

A verification development for cheapspace, the single-binary control plane that
creates disposable development workspaces (containers reached over SSH) from
prebuilt images, Dockerfiles or Nixpacks builds. It consists of TLA+ modules that
follow `internal/service`, `internal/db`, `internal/runtime`, `internal/web`,
`cmd/cheapspace` and `web/static/app.js`, of TLC configurations that model-check
them, and of proofs that TLAPS checks. `PROJECT.json` maps every definition to the
lines it stands for; paths below are relative to the repository.

## 1. Inventory of the system

| Component | Where | State | Operations | Module |
| --- | --- | --- | --- | --- |
| Jobs table and lease | `internal/db/store.go` | rows of `jobs` | `LeaseNextJob`, `CreateJob`, `SetJobStatus`, `RequestJobCancel`, `DeleteJob` | JobBoard, LeaseTx |
| Worker loop and job execution | `internal/service/service.go` | the job and the workspace row in memory | `Start`, `RunOneJob`, `RunUntilIdle`, `executeJob` and its three job types, `failJob` | Lifecycle |
| Workspace and job requests | `internal/service/service.go`, `internal/web/server.go` | rows of `workspaces`, the form | `CreateWorkspace` with its validation, `QueueWorkspaceDelete`, `ResumeJob`, `RequestJobCancel`, `DeleteJob` | CreateRequest, Lifecycle |
| Port leases | `internal/db/store.go` | rows of `port_leases` | `AllocatePort`, `ReleasePort` | PortTable, PortTx, Lifecycle |
| Docker runtime | `internal/runtime/docker.go` | image, volume and container of a workspace | `Build`, `Provision`, `Delete` | Lifecycle |
| Mock runtime | `internal/runtime/mock.go` | none | the same, without effect | - |
| Initial password | service, store, `app.js` | the row of `ephemeral_secrets`, the page's button | `RevealPassword`, the reveal button | PasswordReveal |
| Job log and its page | store, service, server, `app.js` | rows of `job_logs`, the page's `lastSequence` | `AppendJobLog`, `GetJobDetails`, `setupJobDetailPolling` | LogTail |
| CLI commands | `cmd/cheapspace/workspace_cli.go` | none of their own | `new`, `delete` (with `--wait` a worker loop), `list`, `view` | CliWait, CreateRequest, Migrate |
| Migrations | `internal/db/migrate.go` | the schema, `schema_migrations` | `Migrate` | Migrate |
| Pages and read-only handlers | `internal/web`, `app.js` | none | lists, forms, details | partly: CreateRequest, LogTail, PasswordReveal |
| Configuration, start-up | `internal/config`, `cmd/cheapspace/main.go` | none | `Load`, `serve` with or without migration, shutdown | partly: CreateRequest, Migrate, Lifecycle |
| Workspace image | `docker/workspace` | outside the control plane | entrypoint script | - |

**How they interact.** Handlers and commands never do the work: they insert rows in
`jobs` and return. The server's worker loop, and next to it the loop of every CLI
command run with `--wait`, lease the oldest queued row from the same SQLite file and
execute it: they read the workspace row once, call docker commands between statements
on the store, and write the outcome back. The browser polls what they wrote. Nothing
is shared in memory between them: all coordination goes through single statements and
a few short transactions (`LeaseNextJob`, `AllocatePort`, one per migration file).
A command migrates the file before it does anything else, and so does the server unless
`CHEAPSPACE_AUTO_MIGRATE` is off: then it serves whatever schema it finds.

**What is hard.**

* several processes race for one row through deferred SQLite transactions, whose
  UPDATE or INSERT does not test again what they read;
* processes that start together migrate the file, each migration in a transaction that
  begins after the question whether it is needed, perhaps beside a server that does not
  migrate and writes to the tables that are there;
* a job works for minutes on a workspace row read at its start, while handlers and
  other workers change the row, the port table and the container;
* operations are sequences of statements (insert the delete job, then write the
  state; end the build job, then queue its follow-up; write the failed job, then the
  workspace) that anybody can get between and that a crash can cut;
* errors of half the calls are dropped (`failJob`, `ReleasePort`, `docker rm`,
  the cancellation check, `jobLogger.Log`);
* jobs can be stopped, resumed in any finished status and removed while queued, so
  job types meet a workspace in every state;
* the browser's polls overlap and are answered out of order;
* three places fill in defaults for a request, each in its own units.

**What makes each component correct.**

* Queue: oldest first, one worker per job, no job lost (`OneRunner`,
  `ImplementsBoard`, `EveryJobLeased`).
* Workers: every leased job ends, no workspace is left building (`RunningJobHeld`,
  `NoStranded`, `JobsEnd`).
* Requests: what is accepted can run, a refusal loses nothing (`AcceptedCanRun`,
  `NewFormAccepted`, `RefusalKeepsRequest`); stops are honoured, deletes get through
  (`EarlyCancelHonoured`, `DeletesGetThrough`).
* Ports: no workspace holds two, none goes to two workspaces, none is lost or used
  without a lease (`WriteIsSafe`, `ImplementsTable`, `ImplementsPorts`, `NoPortLeak`,
  `RunningHasLease`), and every call returns (`CallsReturn`).
* Runtime and rows agree (`RunningIsReal`, `RunningIsServed`, `DeletedHoldsNothing`), the image is
  known when it is needed (`ProvisionHasImage`), and a deletion lasts but for the ways back
  that the code leaves open (`DeletionLasts`).
* Migrations: what is recorded is what exists (`RecordIsTrue`), whoever migrates goes on
  only with the whole schema (`UpIsMigrated`), and starting together does not stop everybody
  (`SomeoneMigrates`, `ServersComeUp`).
* Password: nobody gets it after it was revealed (`NoLaterReveal`), and every click ends
  (`ClicksEnd`).
* Log page: no row missing, none twice (`NoGap`, `TailComplete`, `ShownOnce`), and it
  stops (`TailEnds`).
* CLI: a waiting command returns, not before its job was taken (`CommandReturns`,
  `OwnJobTaken`).

## 2. The modules

    JobBoard   the queue, abstractly        PortTable   the port leases, abstractly
      ^  implemented by LeaseTx               ^  implemented by PortTx
      ^  implemented by Lifecycle             ^  implemented by Lifecycle
      ^  used by CliWait (its INSTANCE)

    CreateRequest ... what it accepts, Lifecycle's CreateWorkspace takes up
    Migrate, PasswordReveal, LogTail     stand alone

`X.tla` is the specification, `MCX.tla` with `MCX*.cfg` its instances for TLC, and
`XProofs.tla` its theorems; the theorems about JobBoard are in `LeaseTxProofs`. Definitions whose comment starts
with "Mutant:" are plausible bugs, used to check that each property can fail; no
specification uses them.

**JobBoard** is what `internal/db` promises about `jobs` without mentioning
transactions: rows are posted, the oldest queued row is taken by one free worker, the
worker that holds a row ends it or is lost, a row that is not running may be erased. A
job *is* its rank in the order `run_after, created_at`. Ranks may be posted in any
order, since a handler takes its timestamps before its INSERT and the columns are
compared as text, which drops trailing zeros.

**LeaseTx** is `LeaseNextJob` statement by statement in WAL mode. `BeginTx` is a deferred
transaction: the SELECT fixes a snapshot (`BeginSelect`), the UPDATE needs the single
write lock and a snapshot that is still the latest (`Upgrade`), otherwise SQLite refuses
it and the deferred rollback runs (`Refused`); the commit publishes (`CommitLease`). All
other writers of the file are there: inserts, `SetJobStatus`, `DeleteJob`, and
`OtherWrite` for any commit that does not touch `jobs.status` but makes snapshots old.
A statement outside a transaction is one atomic commit. `stale[w]` is the whole of
what a snapshot matters for.

**PortTable** is what the `port_leases` table promises: a workspace that has a port is
answered with it (`Again`), one that has none gets the lowest free candidate (`Grant`),
`Release` frees whatever the workspace holds, and a caller forgets what it was told when
its job ends.

**PortTx** is `AllocatePort` in the same way. The whole search reads one snapshot
(`SelectLease`, `ChooseFree`); the INSERT, or the UPDATE of a released row, needs the lock
and the latest snapshot (`WriteLease`, else `Refused` with a rollback); `CommitLease`
publishes. The deferred rollback of the code looks at the variable `err` only, and two
kinds of return leave it nil: no port was found (`FindNone`) and a SELECT failed into a
variable of its own (`ReadFails`). Their transaction stays open for the life of the
process. That is not part of the state: the pool has no limit and opens another
connection for the next call, and in WAL mode an old reader hinders nobody, so nothing
that is modelled depends on it. `Callers` are processes, one call at a time each. An existing lease is answered as of the
first SELECT: `ReleasePort` of somebody else may come before the COMMIT of the
transaction that read it, so the refinement mapping places `Again` at the SELECT.

**Lifecycle** is the core. One action is one statement on the store, one docker command
or one cancellation check, in the order `executeJob`, its three job types and
`DockerRuntime` make them; `pc[w]` is the next one. `state`, `row`, `status`, `task`,
`cancel` and `lease` are the columns of `workspaces`, `jobs` and `port_leases` that some
property needs; `box[ws]` is what Docker has under the workspace's names; `held`, `seen`,
`port` and `outcome` are the worker's local variables (`seen` is the row `GetWorkspace`
returned, from which the rest of the job works). `LeaseNextJob` and `AllocatePort` are
one step each: both are transactions, and LeaseTx and PortTx justify that. A docker
command may fail at any time. Faults (`Crash`, `LoadFails`, `StatementFails`,
`AllocateOrSecretFails`, `ErrorIgnored`, `DropDelete`) are kills of the process, failing
writes and calls whose error the code drops; each marks its workspace as `disturbed`, so
that properties can say what holds of the *others*. `disturbed` and `faults` are history
and guard nothing but the bound. A row may be inserted before ones that are already
there; `MaxLate` bounds how many earlier ranks may be left free for that (`InsertJob`).
Simplifications: per workspace at most one `QueueWorkspaceDelete` is between its two
statements; a build job's slot for its follow-up is reserved (`HasRoom`), so that the bound
never stops a worker; `cancel[j]` records the status at the first request.

**CreateRequest** follows a request for a workspace from what is typed to what the jobs
read. `NewForm` is the page as first shown, `FromForm` what `handleWorkspaceCreate` makes
of its fields, `FromFlags` what `workspace new` makes of the same values as flags (a number
that does not parse ends the command before that, `Parses`); both go through `Defaults` and `Valid` of `Service.CreateWorkspace`. A refused form is shown
again from the parsed values (`ShownAgain`), and the user goes on editing that. Numbers
are real numbers, with `Blank` and `Junk` for fields without one; texts and keys are the few
that the code tells apart (empty, blanks only, a key line with fewer than two fields).
`Load` corrects a reversed port range, as `config.Load` does.

**Migrate** is processes that bring one file up to date when they start; those outside of
`Migrating` are servers with `CHEAPSPACE_AUTO_MIGRATE` off, which are up at once. `Check` is
`isApplied`, a query outside of the transaction that runs the file. A file of
`CREATE .. IF NOT EXISTS` reads before it writes (`ExecuteCreates`, `CreateTables`); a file of
`ALTER TABLE .. ADD COLUMN` writes at once, waits `busy_timeout` for the lock (`Timeout`) and
fails on a column that is there (`AlterTable`); `RecordVersion` writes the row in the same
transaction. Every error ends the process (`Refused`); a crash drops the transaction.
`Serve` is any commit of a process that is up, which makes snapshots old; it needs the
tables of the first file, which a process that has not migrated may not find yet.

**PasswordReveal** is the reveal button and its handlers. `RevealPassword` reads the row
and tests it, then marks it and answers; in between other handlers run. Pages are
disabled by a click, enabled by an error, can be reloaded and can lose their connection
before or after the answer was written.

**LogTail** is one job's log: `AppendJobLog` as one deferred transaction among other
commits, `GetJobDetails` as its two reads in the code's order, and the page, whose
`poll()` runs every 1500 ms whether or not earlier ones were answered. `MaxInFlight` bounds
how many are pending, and the history variable `overlapped` remembers whether a poll was
ever sent before an earlier one was answered. The rows on screen are a set plus the
history variable `repeated` (a row was appended a second time or below a later one), which
keeps the model finite. A removed job takes its log rows along only on the connection that
has `foreign_keys` on; it is answered 404, which the page ignores while it goes on
polling.

**CliWait** is `workspace new|delete --wait`: the command posts its job on a JobBoard and
runs `RunUntilIdle` on it, next to the server's loop and everybody else's posts. `MaxTurns`
stands for the 64 iterations. A job that fails, a lease that is refused (`LeaseRefused`)
and a write that fails end the command with an error. `short` holds the jobs whose
`run_after`, as text, sorts after the instants just behind it: `LeaseNextJob` may look and
not see them.

## 3. What is checked

Bounds are the CONSTANTS of each `.cfg`. The number of jobs, disturbances and
requests is bounded in the guards, so a run stops when its rows are used up, and the real
system quiesces when nobody asks for anything: therefore `CHECK_DEADLOCK FALSE`, except
in `migrate`, where processes can always be started again.

| Run | Module and bounds | Shows |
| --- | --- | --- |
| `lease` | LeaseTx: 3 processes, 3 jobs, 1 disturbance | a job is never run twice although UPDATE does not test the status (`OneRunner`); the transaction implements JobBoard (`ImplementsBoard`); every queued job is leased or removed (`EveryJobLeased`) |
| `ports` | PortTx: 2 processes, 2 workspaces, 2 ports, 1 disturbance | the unconditional write meets a table that still says what was read (`WriteIsSafe`); the transaction implements PortTable (`ImplementsTable`); every call returns (`CallsReturn`) |
| `server_alone` | Lifecycle: 1 worker, 2 workspaces, 2 ports of which one is also asked for by number, 3 jobs, 1 fault, all requests but "remove" | a running workspace has its running container on its port (`RunningIsReal`), a running container has its lease (`RunningHasLease`), a deleted workspace holds neither port nor container nor volume (`DeletedHoldsNothing`), it comes back by two ways only (`DeletionLasts`), and the jobs of two workspaces that want the same port use the port table as PortTable promises it (`ImplementsPorts`) |
| `server_and_cli` | Lifecycle: 2 workers, 1 workspace, 2 ports, 3 jobs inserted up to 1 rank early, 1 fault, all requests but "remove" | no job stays running, no workspace stays building or provisioning, an early stop is seen before anything is created or removed, the image is always known, no port leaks, a workspace shown as running is served until it is deleted or resumed (`RunningIsServed`); the jobs table implements JobBoard |
| `liveness` | Lifecycle: 1 worker, 1 workspace, 2 ports, 3 jobs, 1 fault, all requests but "resume" | every queued job ends (`JobsEnd`) and every delete gets through (`DeletesGetThrough`), unless stopped, removed or hit by a fault |
| `create` | CreateRequest: 4 configurations, 3 changed fields | an accepted request stays within limits, gets an image and leaves its owner a way in (`AcceptedCanRun`); the page is accepted as first shown (`NewFormAccepted`); a refused page asks for what was asked before (`RefusalKeepsRequest`) |
| `migrate` | Migrate: a server, `migrate up`, a CLI command and a server that does not migrate, the 3 embedded files, 2 faults | a file is recorded exactly when its tables and columns exist (`RecordIsTrue`), whoever migrates goes on only with the whole schema (`UpIsMigrated`), without a fault not everybody fails (`SomeoneMigrates`), and a server comes up (`ServersComeUp`) |
| `reveal` | PasswordReveal: 2 pages, 3 requests | whoever asks after a reveal is refused, and a page waits for one request (`NoLaterReveal`); every click ends (`ClicksEnd`) |
| `tail` | LogTail: 3 rows, 2 polls in flight | the page skips no row (`NoGap`), a page that stopped has them all (`TailComplete`), and it stops (`TailEnds`); while no polls overlap, rows are shown once and in order (`ShownOnce`) |
| `cli_wait` | CliWait: 4 jobs, 3 turns | the command returns (`CommandReturns`), and not while its own job is queued (`OwnJobTaken`) |

Every module but CreateRequest, CliWait and PasswordReveal also checks its type invariant in
one of these runs; those of CliWait and PasswordReveal are proved, CreateRequest's number
fields are in `FormTyped` of its proofs.

**Why the bounds are enough.** A race needs two actors and one object, and a third actor to
disturb the outcome of the race: hence two workers (three in LeaseTx and Migrate), two or
three jobs per workspace (create, follow-up or resume, delete) and a second workspace where
ports are contended. Two ports let a search skip one and find none. One fault is enough to
cut any sequence in two; Migrate has two, because a second process can meet what a
first crash left. A form goes wrong in one field at a time or where two fields feed one
value (source and reference, cores and thousandths, the two proxies); the third edit is the
correction after a refusal. Every safety property is proved for all bounds besides (section 4).
Symmetry is used over workspaces, workers, pages and requests, and in no run that
checks liveness.

**Properties with a side condition.** Outside of these conditions the code does not keep
them:

* `RunningIsReal`, `RunningHasLease` and `DeletedHoldsNothing` hold for one worker. A server
  and a `--wait` command that overlap jobs of one workspace leave a container without
  its lease, or one that a deleted row does not name, with three jobs and no fault, and a
  workspace shown as running without its container with four.
* `RunningIsServed` says what is left for any number of workers: it excepts workspaces that
  somebody asked to delete, or of which a build or provision job was resumed (`Plain`).
* `RunningHasLease` excepts workspaces of which a build or provision job was resumed, and
  `DeletedHoldsNothing` the containers (not running) and volumes of a provisioning that
  was stopped or failed.
* `DeletionLasts` holds for one worker and rows inserted in the order of their times. It
  excepts workspaces for which a build or provision job was queued behind a deletion (a
  build's follow-up, a resumed job) and those one of whose deletions was asked to stop:
  `failJob` then writes "pending" over the "deleted" of the other.
* `UpIsMigrated` is about processes that migrate. A server with `CHEAPSPACE_AUTO_MIGRATE` off
  is up on whatever schema it finds.
* `OwnJobTaken` excepts jobs whose time has lost trailing zeros.
* `ShownOnce` excepts a page on which two polls overlapped.
* `NewFormAccepted` excepts CPU limits that are not in whole cores and limits of zero;
  `RefusalKeepsRequest` what the page cannot send back (an unknown source, a port below 1,
  CPU in thousandths).
* The properties of Lifecycle about jobs, states and ports except workspaces hit by a fault.

**Fairness.** A busy worker takes its next step (`Start` and `RunUntilIdle` wait for
nobody, docker commands are taken to return); some lease is taken while one stays
possible (the server's loop polls for ever); `SetDeleting` runs because net/http runs a
handler to its end. Calls of the store return, refused or not (PortTx, CliWait). A
started process migrates without waiting for anything but the lock, whose wait ends in
the timeout, and compose starts a failed server again (`restart: unless-stopped`,
`docker-compose.yml`). In the browser the interval fires and a fetch is settled. Handlers
that start something, faults, crashes and other people's commits are never fair.
LeaseTx needs weak fairness per worker: a refused transaction is retried on a new
snapshot, and whoever got in first has taken a job or used up a disturbance. With an
unbounded stream of foreign commits a worker could be refused for ever; the bound
`MaxDisturbances` excludes that. Migrate needs no bound on `Serve` or on restarts: a server
that others made fail finds one more file recorded when it starts again, or will.

### Where the code and its documents disagree

Two runs check one statement of a document each and end in a counterexample; paths and
lines are in `PROJECT.json`, "findings".

| Run | Statement | What happens |
| --- | --- | --- |
| `resurrected` | a deletion ends in `deleted` (implementation plan, 7.2) | the build's follow-up job is queued behind the delete and provisions the deleted workspace |
| `reveal_twice` | one-time reveal (`README.md`) | two overlapping handlers both answer with the password |

The same models show more, which need no run of their own because a guard of an action
already says them; the properties above leave exactly these cases out:

* A provisioning that is stopped or fails after `docker create` leaves a container and a
  volume that no row names; `Delete` works from the row, while the plan (7.2) has the
  worker destroy container and volume.
* `--wait` ("wait for queued jobs to complete") returns as soon as no row is *queued*,
  also while the server still runs the command's own job.
* `SetDeleting` may come after the delete job has ended, since the handler inserts the job
  first: a deleted workspace can read `deleting` again, with no delete job left.
* `UpdateWorkspaceProvisioned` leaves `deleted_at` as it is: a workspace provisioned again after
  its deletion runs, and `ListWorkspaces` hides it.
* `ResumeJob` accepts a job that is done: provisioning a running workspace again fails on
  the container's name, and `ReleaseAfterError` frees the port of the running container.
* After `Crash` nothing looks at the running job again, which `ResumeJob` and `DeleteJob`
  refuse; the plan (7.3) wants it recovered.
* `DeleteJob` removes a queued row as well; the workspace that waits for it stays pending.
* `AllocatePort` leaves its transaction and its connection open when it finds no port, or
  cannot read. The pool replaces the connection, so calls go on, with one more open reader
  of the file each time.
* The ports that a workspace asks for by number, or has recorded, are its only candidates
  from then on: once another workspace has leased it, provisioning it again fails.
* `LoseLine`: `AppendJobLog` is refused when somebody committed after its SELECT, and the
  error is dropped with the line; the plan (11.2) says errors are left in the job log.
* Overlapping polls ask for the same rows, so the page appends them twice.
* With a CPU limit that is not in whole cores, the new-workspace page rounds its default up
  and is refused as first shown. The CLI's defaults (2 cores, 4096 MB, 480 minutes) are
  not held to the limits, the page's are.
* The flag `--ttl-minutes` is an "auto shutdown timeout"; nothing in the code acts on it.

## 4. What is proved

All theorems hold for every value of the constants under the module's named assumption
(`LeaseAssumption`, `LifecycleAssumption`, `PortTxAssumption`, `MigrateAssumption`,
`TailAssumption`, `WaitAssumption`, `RevealAssumption`, `CreateAssumption`). Four theorems
about Lifecycle need more, in their ASSUME: `RunningReal`, `RunningLeased`, `DeletedHolds` and
`DeletionsLast` that there is one worker, `DeletedHolds` besides that no job is removed, since
its exception is read off the jobs table, and `DeletionsLast` that rows are inserted in the
order of their times (`MaxLate = 0`).

| Theorem | Statement |
| --- | --- |
| `LeaseTxProofs!BoardSafe` | the abstract queue: a held row is running, no two workers hold one row |
| `LeaseTxProofs!LeaseTxTyped`, `LeaseSafe` | `TypeOK`; `OneRunner` with the facts about snapshot and lock that it rests on |
| `LeaseTxProofs!LeaseImplementsBoard` | the lease transaction implements JobBoard |
| `LifecycleProofs!LifecycleTyped` | `TypeOK`, and that jobs, workers' hands and workers' steps fit each other (`JobsKnown`, `HeldKnown`, `StepsMatch`) |
| `LifecycleProofs!JobsHeld` | `RunningJobHeld`: every path of `executeJob` ends its job |
| `LifecycleProofs!NothingStranded` | `NoStranded` |
| `LifecycleProofs!EarlyCancel` | `EarlyCancelHonoured` |
| `LifecycleProofs!PortsReturned` | `NoPortLeak` |
| `LifecycleProofs!ImageFirst` | `ProvisionHasImage` |
| `LifecycleProofs!OneLease` | `OneLeasePerWorkspace`: a workspace never holds two ports |
| `LifecycleProofs!LifecycleImplementsBoard` | the workers and handlers implement JobBoard |
| `LifecycleProofs!LifecycleImplementsPorts` | the jobs' use of `port_leases` implements PortTable |
| `LifecycleProofs!RunningServed` | `RunningIsServed`, for any number of workers |
| `LifecycleProofs!WorkersApart` | no two workers are at work for one `Plain` workspace, faults or not |
| `LifecycleProofs!CancelNeedsStop` | no job ends as cancelled unless its stop was asked for |
| `LifecycleProofs!RunningReal` | `RunningIsReal`, for one worker |
| `LifecycleProofs!RunningLeased` | `RunningHasLease`, for one worker |
| `LifecycleProofs!DeletedHolds` | `DeletedHoldsNothing`, for one worker and without "remove" |
| `LifecycleProofs!DeletionsLast` | `DeletionLasts`, for one worker and rows inserted in the order of their times; builds, stops, resumptions, removals and faults included |
| `PortTxProofs!PortsTyped`, `OnePort` | `TypeOK`; no interleaving gives a workspace two ports |
| `PortTxProofs!WritesAreSafe` | `WriteIsSafe` |
| `PortTxProofs!PortTxImplementsTable` | `AllocatePort` over snapshots implements PortTable |
| `MigrateProofs!MigrateTyped` | `TypeOK` |
| `MigrateProofs!RecordedIffApplied` | `RecordIsTrue` |
| `MigrateProofs!MigratedIsWhole` | `UpIsMigrated` |
| `MigrateProofs!NeverAllFail` | `SomeoneMigrates` |
| `MigrateProofs!FilesInOrder` | every change of the database is the next file, applied and recorded in one step |
| `CreateRequestProofs!AcceptedRuns`, `NewPageAccepted`, `RefusalsKeepRequests` | `AcceptedCanRun`, `NewFormAccepted`, `RefusalKeepsRequest`, for every configuration, every input and any number of edits |
| `LogTailProofs!TailTyped`, `PageHasNoGap`, `PageIsComplete`, `RowsShownOnce` | `TypeOK`, `NoGap`, `TailComplete`, `ShownOnce`, for any number of polls in flight |
| `CliWaitProofs!WaitTyped`, `OwnJobSeen` | the types; `OwnJobTaken` |
| `PasswordRevealProofs!RevealTyped`, `RevealSafe` | `TypeOK`; `NoLaterReveal` |

*LeaseTx.* `OneRunner` alone is not inductive: the commit must know that its row is
queued. `LeaseInv` adds `SnapshotHolds` (an up-to-date snapshot has picked the oldest
queued row) and `WriterAlone` (who may commit has an up-to-date snapshot, alone). Every
commit by somebody else makes the snapshot stale, which is what the step proofs use. The
refinement is then a case split: `CommitLease` is `Take`, the inserts and removals are
`Post` and `Erase`, everything else stutters.

*PortTx.* The same argument with a snapshot that is a value: `PortInv` says that a snapshot
nobody has overtaken equals the committed table (`SnapshotCurrent`), that a writer is alone
on such a snapshot (`WriterAlone`), what the search found on its snapshot (`Searched`), and
that a caller works with a port only after its call returned (`PortAfterReturn`). With
`OneLease` it is inductive, and `WriteIsSafe` follows from it. In the refinement
`SelectLease` of a workspace with a lease is `Again`, `CommitLease` is `Grant`.

*Lifecycle, any number of workers.* `Core` is the type invariant plus three facts that tie a
worker's step to its job: an inserted job has its workspace and type (`JobsKnown`), a
worker holds a job exactly while it is busy (`HeldKnown`), and its step belongs to the type of
that job, with an outcome known to `failJob` (`StepsMatch`). `EndsKnown` reads off a worker's
step whether its job still runs, and `HeldApart` says that two workers hold different
jobs. With `RunningJobHeld` they are `JobInv`, from which the refinement of JobBoard follows: the
mapping of `runner` counts a worker as holding its job only while the row is running, so
`SetDone` and `FailJob` are `Finish`, a crash is `Lose`, and the statements after the end of
a job (`EnqueueFollowUp`, a `Post`; `FailWorkspace`, a stutter) fit as well.
`EarlyCancelHonoured`, `NoPortLeak` and `NoStranded` are inductive over `Core`; each has
lemmas for a worker that moves on, a worker that goes idle and a step that leaves the
property's variables alone. `ProvisionHasImage` needs
`ImageInv`: a provision job exists only for a workspace whose row knows its image
(`JobsOfCreated`), a build that asks for one has stored its image (`BuiltKnown`), and a
provisioning works on a row read with the image in it (`SeenKnown`); `RowsGrow` says that no
step takes an image out of a row.
`OneLease` needs the type invariant only, because `AllocatePort` looks for a lease before it
makes one, within its transaction. `CancelNeedsStop` follows the flag: a worker with the
outcome "cancelled" has seen it for the job it holds (`FlagSeen`), and nobody takes it back.
The refinement of PortTable needs `PortKnown`: a worker
remembers a port only after `allocate`, so `AllocatePort` starts from none.

*Lifecycle, one worker.* The properties relate tables that one job changes in several steps, so
each invariant says what holds in between. `RealInv`: the container of a provisioning is on
its port before it is recorded (`ContainerKnown`), and a deletion that ends has left its
mark (`MarkKnown`). `LeaseInv`: while a provisioning is at work its port is leased to its
workspace (`PortHeld`), the lease goes only after an error or a removed container
(`ReleaseKnown`, `RemovalKnown`), and a container has a job that created it (`MadeBy`), so
that a second provisioning is a resumed one. `DeletedInv`: what Docker has is in the row or
comes from a provisioning that was broken off or still goes on (`ScrapAt`), and the
deletion's steps work from the row and have removed what it named (`DeletionKnown`,
`RemovedKnown`).

*Lifecycle, what is left with several workers.* A workspace that nobody asked to delete and no
job of which was resumed (`Plain`) has at most a build and the provisioning that follows it, and
the provisioning is inserted when the build is over (`FollowsBuild`): its worker is alone
(`OneActing`), which is `WorkersApart`. For such a workspace the steps of one provisioning say
what Docker and the tables hold (`ServingKnown`), other workers touch nothing of it (`Local`),
and so the container, once running, stays on the port that row and lease name (`ServedAt`).
Delete and resume requests only ever end `Plain` (`PlainBack`), so nothing needs to be restored.

*Lifecycle, where a deletion lasts.* The run `resurrected` shows a deleted workspace provisioned
by a follow-up job. `DeletionsLast` says what such a return takes. Rows are filled in order
(`RowsInOrder`) and the only worker takes the oldest, so what lies before its job has left the
queue for good (`Passed`, `HeldPassed`): a deleted workspace has a deletion that the worker
has passed or is at (`DeletionPassed`). Whoever writes another state to it is the worker at a
job behind that deletion, or at the deletion itself. A build or provision job there was queued
behind the deletion, the first way back; a deletion writes another state only in `failJob`,
which it reaches from its cancellation check alone (`DeletionStops`, `FlagSeen`), the second
one. With a second worker, or a row inserted before earlier ones, TLC finds others.

*Migrate.* `RecordIsTrue` holds because the SQL and the version's row are committed
together or not at all; the step that could break it is the commit of a process whose
SQL found everything in place. `IInv` therefore follows a process through its
transaction (`Knows`): past `execute` its transaction holds the file's SQL exactly when the
file is not in the schema yet, and one process writes at a time (`OneWriter`).
`SomeoneMigrates` needs a witness that changes hands (`HasLeader`): either somebody writes
and will commit, or somebody that has not failed stands on the last commit and cannot be
refused; a commit makes the committer the next leader. `FilesInOrder` reads the commit the
other way round: the files before the committer's are recorded, a record has no gap, so the
file is either there already or the next one.

*CreateRequest.* The configuration and the number fields are numbers, or `Blank` or `Junk`
(`FormTyped`). A request is taken apart into texts and numbers (`Parsed`, `Defaulted`); applying
the defaults to what the page shows of them gives what they gave before (`TrimTwice`,
`DefaultTwice`, and `CoresBack` for the CPU limit, which the page has in whole cores). A page
that nobody has changed is still the new one (`Untouched`), since a valid page is not refused.

*LogTail.* `PageInv` says that the log only grows (`LogGrows`), that the page has every row
up to `lastSequence` and up to what any poll in flight asked after (`HasUpTo`), that an
answer is an interval that begins right there (`AnswersAreIntervals`), and that one with the
final status reaches to the last row (`FinalIsComplete`). `ShownOnce` adds `OneAtATime`:
without an overlap at most one poll is in flight, and it asked after the newest row shown.

*CliWait.* `IInv`: the command's job was posted (`MineKnown`), and a command that holds a
job is waiting (`CliBusy`). Then `FindIdle`, the only return without an error, finds no row
queued but the short ones.

*PasswordReveal.* `RevealInv` adds that a late request is never past
its test and the row marked by then (`LateRefused`), that an unsent request belongs to
nobody, and that a page with a pending fetch is waiting; then a late request reads a
marked row and is refused.

**Only model-checked**: all liveness (fairness and ENABLED are out of the prover's reach):
`EveryJobLeased`, `CallsReturn`, `JobsEnd`, `DeletesGetThrough`, `ServersComeUp`, `ClicksEnd`,
`TailEnds` and `CommandReturns`. Every invariant and every action property of the passing runs
is proved. No module declares a RECURSIVE operator, and nothing
is claimed about recursive functions or by induction over data.

## 5. What is not modelled, and why

* The mock runtime: it waits and answers made-up names, keeps no state and creates nothing
  that a property could relate to the tables.
* The workspace image's entrypoint: a shell script that the control plane never talks to.
* Read-only pages and commands (lists, details, `view`, `migrate status`), copy buttons and
  themes: they render what they read.
* Names, dotfiles, the PAC URL and Traefik's host name of a request, which are copied
  unread; reading environment variables.
* Containers that stop by themselves, images and networks: the control plane never asks
  Docker about them again.
* `run_after` beyond its order: nothing sets it into the future.
* Which pooled connection a statement gets. `PRAGMA busy_timeout` and `foreign_keys` reach
  only one connection, so a write may be refused at once: such a refusal is a fault.
  (LogTail lets a removed job leave its log rows behind for the same reason.) The pragmas at
  start-up and the creation of `schema_migrations` are taken to succeed.
* TTL and pausing, which are in the documents and not in the code.

## 6. Plan

Done, in this order: JobBoard and LeaseTx, Lifecycle with its refinement, PasswordReveal,
LogTail, CliWait; then PortTable and PortTx, Migrate, CreateRequest, jobs inserted out of
order, and the proofs above. Next, in the order of what they add:

1. **Connections**: the pool of `database/sql` with the pragmas on one connection and the
   transactions `AllocatePort` leaves open, shared by LeaseTx and PortTx.
2. **TextTime**: `timestamp` as a function on instants, with its order as text, instead of
   the free ranks and the set `short` that stand for it now.
3. **Runtime contract**: an abstract `Provision` and `Delete` that both the docker commands
   and the mock runtime implement.
4. The workspace page's polling, with the states of Lifecycle behind it.
5. Proofs: what a deletion leaves behind with several workers, and the weakest conditions under
   which `RunningHasLease` and `DeletedHoldsNothing` survive a second one.
