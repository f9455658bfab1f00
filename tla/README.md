# A verification of probe-agent

probe-agent instruments Python programs and turns what it observes into
reviewed changes. This directory holds TLA+ models of the parts of it in which
order, concurrency and failure decide whether it is right, the TLC
configurations that check them on small instances, and proofs, checked by
TLAPS, that hold for every value of the constants. Paths without a prefix are
below `src/apps/control-server/app/`.

- [The system](#the-system)
- [What is modelled: the publish workflow](#what-is-modelled-the-publish-workflow)
- [What it promises: the lifecycle of a job](#what-it-promises-the-lifecycle-of-a-job)
- [What is modelled: the other components](#what-is-modelled-the-other-components)
- [What is checked](#what-is-checked)
- [What is proved](#what-is-proved)
- [Where code and documentation disagree](#where-code-and-documentation-disagree)
- [What is not modelled](#what-is-not-modelled)
- [Plan](#plan)

Check a configuration with `tlc -config MCPublishSafety.cfg MCPublishRefinement.tla`,
and a proof with `tlapm PublishProofs.tla`.

## The system

A FastAPI control server over one SQLite file, a React dashboard, a Python SDK
inside the instrumented program, and an optional execution worker in a process
of its own. The server has no task queue: long work runs on daemon threads that
request handlers start, and what a thread has done is known to others only
through rows of the database and files on disk. Nearly every hazard below comes
from that design. `db.get_conn` holds one process-wide lock for as long as its block
runs, so within a process the blocks do not interleave; but it is autocommit, so
a crash, or another process, comes between any two statements of a block.
`write_transaction` makes one act of them where it is used, which is not
everywhere. What is read in one block and used in another may be old.

| Component | State it keeps | Operations | Interacts with | What is hard | What makes it correct | Model |
|---|---|---|---|---|---|---|
| Publish jobs (`publish_job.py`) | `publish_jobs` rows, worktrees, the branch and pull request on GitHub | create, prepare, approve, publish, retry, reconcile, cancel | connections, repositories, recovery, GitHub | threads race with requests; lost answers; crashes between git and SQL | nothing pushed without approval, one pull request, closed stays closed, every job comes to rest | `PublishJobs` |
| Publish recovery (`publish_recovery.py`) | heartbeat ages | repair stale jobs, retry automatically | publish jobs | a live thread may look dead | a repair never undoes what a live thread or a human did | `PublishJobs` |
| GitHub connections (`routes/github_connections.py`) | `github_connections` rows | create, verify, sync, disconnect | publish jobs, GitHub | a request to GitHub between read and write | a disconnect is final and cancels what has not been pushed | `PublishJobs` (partly) |
| Managed repositories (`repo_manager.py`) | mirrors and worktrees, a lock per connection | clone, fetch, worktree, commit, push, clean up | git | failures of every call; leftovers | pushes without force; no leftover goes unnoticed | `PublishJobs` (partly) |
| Publish lease (`publish_job.py`, `publish_connection_leases`) | owner and expiry | acquire, release, expire | two server processes | TTL shorter than the phase | one reconcile phase per connection across processes (within one process modelled) | `PublishJobs` (one process) |
| SDK transport (`packages/python-probe/probe_agent/client.py`, `policy.py`) | bounded queue, circuit breaker, policy cache | enqueue, send, open, half-open, close, flush, get, invalidate | control server | caller threads and one worker share counters | never blocks the host, counts every drop, one probe while half open, recovers | `ProbeTransport`, `ProbeCalls` |
| SDK decorator, projection, redaction, replay capture | per-call context | wrap a call, record, redact | transport | mostly pure | the host's result is never changed | `ProbeCalls` (partly) |
| Execution backend and worker (`execution_backend.py`, `execution_worker.py`) | a spool directory | submit, claim, run, answer, time out, sweep | two processes through files | renames race with timeouts | a request runs at most once while its caller waits, and is answered or reported late | `ExecutionSpool` |
| Experiments, replay, validation | worktrees, results | run candidates in a sandbox | execution backend | sequential | each run's result belongs to its candidate | - |
| Build jobs (`system_understanding_jobs.py`) | builds, steps, runs, heartbeat | start, supersede, retry, cancel | LLM, snapshots | a superseded worker goes on | one live build per system, a superseded one stays failed | `BuildJobs` |
| Resync jobs (`repository_resync_jobs.py`) | one active row per system | start, snapshot, index, recover | snapshots | start races, restart | one active job, a restart leaves none active | `ResyncJobs` |
| Discussion jobs (`interview_discussion_jobs.py`) | leased extraction rows, an outbox | enqueue, run, deliver | LLM, interview refresh | leases expire while an attempt runs | only the last attempt writes; events are delivered at least once | `DiscussionJobs` |
| Resource limits (`resource_limits.py`) | windows in memory, a daily count in SQL | allow, consume | every ingest | window edges, full table | never more than the limit in a window | `RequestLimits` (partly) |
| Cell tasks (`cell_tasks.py`) | tasks, reports, escalations | delegate, move, return, report, settle | Cells, people | what was read is old when it is written | the events of a task are one path, what is sent twice is stored once | `CellTasks` |
| Cell rosters and quality (`cell_orchestrator.py`, `cell_quality.py`) | rosters; audits, budget, intake | change a roster, roll up; audit, evaluate, resume | tasks, LLM | circles closed in several steps; audits stored late | no circle, bounded chains; suspension earned by distinct samples | `CellRoster`, `CellChains`, `CellWalks`, `CellQuality` |
| Cell improvements (`cell_improvement.py`) | improvements, pinned card, shadow decisions | create, draft, move, approve, adopt, reject, suspend, roll back | LLM, experiments | content and evidence change between approvals | what is adopted is what was approved twice | `CellImprovement` |
| Cell bindings, activations, root Cells | versions | bind, activate | Cells | one transaction each | - | - |
| Evolution nodes, stabilization | maturity, gates | establish, reopen | experiments | gates checked earlier than used | no node is established with an open gate | - |
| Execution modes and flow orchestration | mode, capabilities | switch, run a flow | routes | mode changes under a running flow | no step runs in a mode that forbids it | - |
| Change sets, refresh proposals | proposals with base revisions | propose, approve, apply | understanding rows | concurrent edits | only a proposal on the present revision is applied | - |
| Interview refresh (`interview_refresh.py`, `routes/interview.py`) | refresh jobs, a lock per session, the understanding | request, merge, run, drain, rebuild by hand, confirm | answers, LLM | requests merge while threads take and run jobs | no answer is lost, no newer result overwritten | `InterviewRefresh` |
| Canonical understanding (`canonical_understanding.py`) | head, revisions, premises of sessions | pin, gate, store, promote, rebase, branch, adopt, prune | interviews, LLM | the head moves while a model reasons | one chain, each link reasoned on the one before, or adopted by its session on record | `CanonicalPremise` |
| Backup and restore (`sqlite_backup.py`) | database, log, copies | back up, restore | the running server | loss of power between any two system calls | the database always reads as its last commit or the backup | `DatabaseFiles` |
| Retention | old rows | delete in batches | database | small, sequential | - | - |
| LLM-backed understanding, lineage, product models | versioned rows | create, project | LLM | content, little concurrency | outside the reach of a model | - |
| Authentication, trace ingestion, dashboard, deploy files | sessions, traces | - | - | - | outside the subject of these models | - |

The publish workflow is the core chosen first: it is the one part that changes
something outside the system, it has the most actors (request handlers, one
thread per phase, the recovery worker, the repair at startup, other people on
GitHub), and its documentation makes explicit promises about each of them.

## What is modelled: the publish workflow

`PublishJobs.tla` models one server process and one connection. Its state:

| Variable | In the code |
|---|---|
| `conn`, `probe` | status of the `github_connections` row; a verify or sync request between its read and its write |
| `job` | the `publish_jobs` row: status, an approver set or not, recorded commit, `retry_count`, heartbeat older than the threshold, pull request recorded, `cleanup_state` |
| `wt`, `made` | the worktree on disk (none, base checkout, patched, at our n-th commit); commits made |
| `remote`, `prs`, `baseMoved` | the branch and its open pull requests on GitHub, and the base branch |
| `lock`, `lease` | holder of `repo_manager.connection_lock`; the lease row |
| `thr`, `todo`, `removals` | per thread: the next thing it does, its job and the copies it carries in local variables; the list a repair has read; worktrees a cancel or disconnect handler still has to remove |
| `server`, `crashes`, `connLost` | is the process up; a bound; history |

One action per step between which another thread can run: a SQL statement (or
several where the database lock or a transaction keeps others out), a git call,
a GitHub call. `thr[t].pc` names that step, and where the step is a
`_set_status` call it is the status the call asks for. The two ways in which
the code guards a status are both there: compare-and-set (create, approve,
retry, cancel, disconnect) and `_set_status`, which only refuses to leave a
closed status (`Live`). The phases:

- *prepare* `StartPrepare` .. `Offer`: authenticate, fetch, check out, apply,
  validate, offer for approval; any call may fail (`CallFails`), and a failure
  cleans up (`Cleanup`) and records `failed` (`Settle`).
- *publish* `StartPublish` .. `Tidy`: commit and record the commit (two steps, a
  crash may come between), compare the base branch and the remote branch, check
  the connection again, push, list and create the pull request, record it,
  complete. A push and a pull request may take effect and lose their answer.
- *reconcile* `ReadRow` .. `Recommit`: a retry looks at the remote branch
  first and takes up the publish phase where that says, or asks for a human.
- *recovery* `Tick`, `RepairWorktree`, `RepairStatus`, `AutoRetry`: the
  worker reads the stale jobs once, then removes each worktree under the lock
  and writes each status after it, without another look.
- *connection* `VerifyBegin/End`, `SyncBegin/End`, `Disconnect`, and the second
  half of a cancel or disconnect, `RemoveWorktree`.
- *environment* `Crash` (at any step), `CrashInDisconnect` (between two
  statements), `Restart`, `LeaseExpires`, `HeartbeatAges`, and people:
  `BaseMoves`, `ForeignPush`, `ClosePr`.

Abstracted: a patch, its guards and the texts of a pull request are calls that
may fail; times are the two facts the code derives from them (stale, expired);
an id is a model value; who approves is a boolean. One pair of request threads
(`Workers`) is enough for the races below: a first phase that hangs and its
retry.

Three constants are switches, so that each run can say which circumstance a
property depends on:

- `Stalls`: may a thread that is alive go `PUBLISH_STUCK_THRESHOLD_SECONDS` (900)
  without a heartbeat? The code writes it only in `_set_status`, so a wait for
  the connection lock, or a long git call, counts as silence.
- `TornWrites`: may a crash come between two autocommit statements of one
  handler?
- `Outsiders`: do other people push to the base branch and to job branches, and
  close pull requests?

`MCPublishJobs.tla` instantiates it for TLC.

## What it promises: the lifecycle of a job

`PublishLifecycle.tla` says what the owner of a job may rely on, with no thread,
lock, worktree, retry count or crash in it. A job is prepared, offered and
approved once; it is then published, or waits for a retry and is published
again, until it is completed, failed or cancelled for good. A commit reaches the
branch only after the approval, a pull request is linked only after a commit has
reached the branch, completing needs both, a job that is publishing is never
cancelled, and nothing that was reached is ever taken back.

`PublishRefinement.tla` maps the rows and the remote branch to it and states
`ImplementsLifecycle`: `PhaseOf` folds the statuses of a row into `preparing`,
`offered`, `publishing`, `waiting` and the closed ones; a job is published when
its branch holds a commit of ours, also below what others pushed on top
(`OnBranch`); approved and linked are columns of the row. Two things in the
lifecycle are there because the code really does them: an effect may come after
the phase that asked for it has ended (a push whose answer was lost, a thread
taken for dead), so `Push` and `Link` ask for no phase; and a job that waits may
complete without being seen to publish again, since the thread it waits for may
still be alive.

## What is modelled: the other components

Each module below is a specification of its own, with its own `Init`, `Next` and
`Spec`. In all of them a step is what nothing can interleave with: a critical
section, a block of one database connection (`db.get_conn` holds the
process-wide lock from its first to its last statement), a transaction, one
system call on a file, or one call of a model or of another process with
nothing held. A variable `used` counts the events that are bounded; each bound
is a constant of the module.

### Python SDK: `ProbeTransport`, `ProbeCalls`

`ProbeTransport` is `ControlClient` (`client.py`). State: the breaker (`state`,
`cooled`, `consecutive`, `reserved`), the counters `counts` of drops and
failures not yet acknowledged, `pending` (what `flush` waits for), the length of
the queue, and per thread the next step, what it has drained and the snapshot of
the counters attached to the post in flight. A caller (`Reserve`, `Enqueue`)
passes the breaker under the lock and puts the event outside of it; the worker
(`Get`, `Snapshot`, `Post`, `Ack`, `Close`, `RecordFailure`, `Settle`) posts,
subtracts what it reported and opens or closes the breaker; whoever opens it
empties the queue after the lock is released (`Empty`). `CooldownEnds` is time.
`total` is history: what became of each event.

`ProbeCalls` is the wrapper of a probed function (`decorator.py`) with the
`PolicyCache` (`policy.py`): `Lookup`, `Fetch`, `Store` (age counted from
before the fetch), `ApplyMode`, `Run`, `Send`, and in shadow mode `List`,
`Start`, `Deliver`, `Finish` of a candidate's thread; `flush` copies the list of
these threads and joins them (`FlushBegin`, `FlushScan`, `FlushJoin`). The
server's policy is a version number that changes; a fetch may fail or return
something that is no policy.

### Execution spool: `ExecutionSpool`

Server threads (`execution_backend.py`) and workers (`execution_worker.py`) in
two containers share only a directory. One action per system call the other side
can see: `Stage`, `Publish` (rename), `Poll`, `Deadline`, and the removal in its
parts `RmList`, `Unlink`, `RmDir`; `Claim` (exclusive create), `ReadRequest`,
`RunEnds`, `Check`, `WriteTemp`, `Replace`. Either side may die at any step.
`starts` counts how often a job's command was started.

### Limits on posted traces: `RequestLimits`

`FixedWindowLimiter.allow` (`resource_limits.py`) as its two steps, the reading
of the clock and the critical section (`ReadClock`, `Admit`, `Refuse`), and the
quota transaction of `post_trace` (`routes/traces.py`; `Store`), next to the
rescan of old rows (`Rescan`) and time (`Tick`). `late` counts the calls that were
admitted after the window they believed to be in.

### Backup and restore: `DatabaseFiles`

`sqlite_backup.py` on a file system that may lose power: `dir` is what a process
sees, `disk` what is durable, and a database is a main file and a write-ahead log
that is good for one main file only. A tool goes through copy, sync, link or
replace, and directory sync, each a step at which an exception, a kill
or `PowerLoss` may come; the server commits, checkpoints, stops and starts.
`expect` is the set of contents the database may have.

### Background jobs: `DiscussionJobs`, `ResyncJobs`, `BuildJobs`

`DiscussionJobs` (`interview_discussion_jobs.py`): `Schedule` makes a job for an
interval of turns behind the last success; workers `Pick`, `Claim` under a lease,
call the model, and `Store` or `Fail` if the attempt is still theirs; a lease
`Lapse`s, under a dead worker or a slow one; `LeaseEvent`, `Deliver` and
`MarkEvent` work the outbox. What the targets of the session resolve to is a
version that may change under a job.

`ResyncJobs` (`repository_resync_jobs.py`, `repository_refresh_service.py`): a
job's thread makes a snapshot (`InsertSnapshot`, `ReadHead`, `StoreSnapshot`,
`Pin`) and indexes it (`Find`, `Exists`, `StoreIndex`, `Complete`), next to
requests that do one stage alone, commits, failures, a `Crash` at any step and
the repair at startup (`Recover`).

`BuildJobs` (`system_understanding_jobs.py`): jobs with a row per step of the
pipeline and chunk tasks of the scan. `Start` (which supersedes a stale job) or
`StartTorn` (the process dies between the autocommit statements), `RetryAll`,
`RetryStep`, `CancelBuild`, `CancelStep`, `GoSilent` (no heartbeat for the stuck
limit), `Crash`, and a thread's `Begin` .. `Finalize`, `Write`, with `Trouble` for
each failure. The pipeline is a constant: steps in order and what each depends
on. There is one snapshot. A start and the storing of an artifact are the two
places where a torn write matters and is modelled; the finalisation of a stale
cancelled job is done by a request thread, as in the code. `LateSettling` names two
races of the code that the properties exempt: the thread that settles
again because the history could not be stored, and the request that cancels a
job whose thread was lost, both next to a retry. `TwoThreads` is what a second retry
makes of them. `PipelineAssumption` says that the graph depends on the scan and is
never torn, since it is one INSERT (`understanding_graph.py:441`).

### Interview refresh: `InterviewRefresh`

`interview_refresh.py` and the rebuild in `routes/interview.py`. `SaveAnswer` and
`RequestRefresh` are two connections; requests merge into a pending job of
higher or equal priority (`Merged`); a thread goes through `Acquire`, `StartJob`
(with the gate `Blocked` and the watermark), `Begin`, `ReadEvidence`, `Persist`
or `Fail`, `ReadIntents`, `Finish` and `Drain`, which takes up the next pending
job under the same lock. `ManualRebuild` is the request that runs the same
rebuild without the lock. An answer is a model value, an understanding the set
of answers it was built from; the clock ticks at the steps that write a
timestamp; superseded rows of the answers are left out. There is no liveness
run: a thread that cannot be started leaves a job pending until the next restart
(`interview_refresh.py:221`), so none would hold without that case removed.

### Canonical understanding: `CanonicalPremise`

`canonical_understanding.py` and its callers in `routes/interview.py`. A session
is pinned to the head it was created on; a request passes the gate (`Gate`),
takes a token of the premise (`TakeToken`), calls the model with no connection
and stores a candidate revision if the token still matches (`Store`, `Fail`),
with retention in the same transaction. A developer reads the head and a
candidate (`ReadPremise`) and promotes it later (`Promote`, `Refuse`). `Rebase`,
`Branch`, `Adopt`, `Decide` and `Edit` are the other requests. `Adopt` pins any
session to the head, as the server does; only the dashboard offers it to none but
legacy sessions. `ground` is history: the premise a revision was reasoned on; the
field `adopted` of a session is the events `session_rebased` with its id.

### Probe Cells: `CellTasks`, `CellRoster`, `CellChains`, `CellWalks`, `CellQuality`, `CellImprovement`

`CellTasks` (`cell_tasks.py`): a request reads what it decides on and writes in
one transaction; `Delegate`, `Move`, `Return`, `Report`, `Settle` are the reads
and `...Write` the writes, with compare-and-set on the status and unique keys.
One member of `Processes` is a deployment of one process, in which nothing comes
between the two; with two members what was read may be old. `ReturnWrite` writes
an event with the status that was read, and compares it with nothing: `stray` says
that it was not the present one, which only two processes can bring about
(`ReturnsFit`).

`CellRoster` (`cell_orchestrator.py`): creation and change of rosters with the
checks of `validate_roster`, each with its write one step. That is so within one
process, where the request holds the connection from the check to the end of the
write, and the server is deployed as one (`apps/control-server/Dockerfile`,
`--workers 1`); two processes could together close a circle, since the check of
`routes/cell_orchestrators.py` comes before its BEGIN. What those checks and the rollup of a digest find is
stated twice. `CellChains` says it without recursion, by the chains of orchestrators
there are (`Below`, `Depth`, `Height`, `Counted`); this is what the actions use and
the proofs are about. `CellWalks` has the recursive walks as the code takes them,
with what each does where it meets a Cell again. `WalksAgree` compares the two:
`MCCellWalks` has it evaluated for every roster of every subset of three Cells,
circles included, for the limit of the run and for a limit of one.

`CellQuality` (`cell_quality.py`): `Read` a sample against the criteria and spend
a unit of the day's count, which all Cells of the System share (`OtherCell`) and
which is compared with the budget of the Cell that is audited (`EditBudget` changes
it), `Store` or `GiveUp` after the model explained; `Evaluate`
closes the intake (in three transactions, between which the process may die) and
`Resume` opens it.

`CellImprovement` (`cell_improvement.py`): creation by hand or as a draft
(`DraftRead`, `DraftWrite`), transitions through canary and two approvals to
adoption, rejection with its breaker, suspension, rollback, and decisions about
shadow runs; results that are evidence may turn out otherwise (`Revise`) and cards
be deprecated.

### How the parts are put together for TLC

`MCStorage`, `MCJobs`, `MCProbe`, `MCUnderstanding`, `MCDecisions` and `MCCells`
each hold several specifications over disjoint variables. A variable `part` (in
`MCProbe` `half`) is chosen in `Init` and never changes; a behaviour is one of that
part, and the variables of the others stay as they begin. So the state space is
the sum of the parts and not their product, and each property is checked
over every behaviour of its part. `MCDecisions` has three instances of
`CellImprovement` with different constants in this way, `MCCells` two of `CellTasks`;
`MCCellWalks` adds the comparison of the walks to it.

## What is checked

Twelve runs; all instances are in the `.cfg` of the same name. Three more
configurations show behaviours that are described [below](#where-code-and-documentation-disagree).

| Run | Instance | Distinct states | Shows |
|---|---|---|---|
| `publish_safety` (`MCPublishRefinement`, `MCPublishSafety.cfg`) | 1 job, 2 request threads, 2 retries, 1 crash, torn writes, outsiders, no stalls | 426,180 | While threads that are alive keep their heartbeat: no push follows a disconnect (`NoPushAfterDisconnect`), only a request ends `manual_intervention_required` (`ManualWaitsForHuman`), after the approval only a moved base or a lost connection closes a job as failed (`ApprovedStaysRetryable`), and without a crash a worktree left behind is one whose removal was recorded as failed (`LeftoverIsRecorded`); a job that a torn disconnect left open only closes (`DisconnectedOnlyCloses`); and every behaviour is one of the promised lifecycle (`ImplementsLifecycle`) |
| `publish_stalls` (`MCPublishJobs`) | 1 job, 2 threads, 1 retry, 1 crash, stalls, outsiders | 1,609,026 | Even when live threads are taken for dead: `TypeOK`, `PushedWasApproved`, `PushedIsRecorded`, `AtMostOnePullRequest`, `CompletedIsPublished`, `TerminalIsFinal` |
| `publish_live` (`MCPublishJobs`) | 1 job, 1 thread, 1 retry, 1 crash, outsiders | 171,376 | `InFlightComesToRest` under crashes and restarts |
| `publish_two_jobs` (`MCPublishJobs`) | 2 jobs, 2 threads | 312,510 | Two jobs and the handlers compete for one lock: none is stuck (`InFlightComesToRest`), and a disconnect leaves no job that is not closed (`DisconnectCancelsAll`) |
| `probe` (`MCProbe`) | 2 callers, a queue of 2, a breaker that opens after 2 failures, 5 events; or one call each while the policy changes once | 219,468 | Every event is posted, pending or counted as dropped and `pending` is exact, an outage lets one event through at a time and opens the breaker (`TransportInv`); a trial decides (`TrialDecides`), `flush` comes back (`FlushReturns`); no call applies a policy replaced more than a TTL ago, `flush` covers every candidate that runs (`CallsInv`) |
| `storage` (`MCStorage`) | 2 tokens, 3 threads, 4 calls, 3 windows and a limiter of 1 key; or 1 spooled job, 2 workers, crashes and a deadline; or 2 tools, 2 backups, 1 restore, 1 loss of power | 478,444 | The limits of traces are overrun by calls that came late to the lock and no more (`LimitsInv`); a command runs once while its caller waits, a torn answer is not read, what is left behind cannot run (`SpoolInv`); the database always reads as its last commit or the backup, named copies are whole, a safety copy is durable before anything is replaced, a backup that was reported stays (`FilesInv`) |
| `jobs` (`MCJobs`) | 1 turn, 2 schedules, an event, 2 workers, 1 slow worker, 1 crash; or 2 resyncs and a request; or a spooled call and 2 workers | 141,300 | Candidates of a job are stored once, the cursor passes over nothing unprocessed, an event marked done was requested (`DiscussionInv`); a completed resync is pinned to an indexed snapshot of its own and an active job has its thread (`ResyncInv`); what has ended stays so (`EndedStays`); jobs end, events are delivered, calls are answered (`JobsEnd`, `EveryEventIsDelivered`, `EveryCallIsAnswered`) |
| `understanding` (`MCUnderstanding`) | the 3 steps around the scan, 1 chunk, 2 builds, 3 threads, one each of retry, cancellation, crash, failure; or 2 answers, 2 threads, a manual rebuild or a confirmation, a restart | 1,274,300 | Dependencies before dependents, scans and graphs called complete are complete, a run belongs to its thread (`BuildInv`); settled jobs and completed steps stay so (`BuildKeeps`); one pending and one running refresh, no answer lost between merged requests (`RefreshInv`); no regress, and a skipped refresh is right (`RefreshKeeps`) |
| `decisions` (`MCDecisions`) | 2 proposals for 2 role cards; or 3 and the breaker; or 1 and its shadows; or 2 sessions, 2 requests, 3 revisions, and one of adoption, edit or decision | 880,214 | What is adopted is what was approved twice (`ImprovementInv`), on evidence that holds, nothing suspended moves, the breaker leaves nothing open, live shadows are grounded (`StepsAreSound`); what was promoted is one chain, each link reasoned on the one before or its session is on record for having adopted that one (`PremiseInv`), and stores and promotions are of the premise they show (`PremisesHold`) |
| `cells` (`MCCellWalks`) | 2 tasks in one process; or 1 and two requests at a time; or 4 Cells; or 3 samples, 4 audits and budgets of 1 or 2 | 1,307,109 | Transition events of a task form one path, what is sent twice is stored once (`TasksInv`); rosters have no circle and no chain too long, a digest leaves out nobody, a Cell's audits stay within its own budget, in one process retries stay within their limit and the event of a return names the status the task has (`CellsInv`); suspension and resumption are earned by distinct samples and escalations only advance in one process (`StatusIsEarned`) |
| `publish_push_after_disconnect`, `publish_verify_race` | as `publish_stalls`, without crashes or outsiders | - | violations, [below](#where-code-and-documentation-disagree) |
| (`MCPublishLateRepair.cfg`, `MCPublishTornDisconnect.cfg`; `MCPremiseAdopt.cfg` for `MCDecisions`) | as `publish_stalls`, without crashes; with torn writes and a crash instead of stalls; as `decisions`, sessions alone | - | `RepairsUnpushed`, `DisconnectCancelsAll` and `PromotedOnHead` fail, [below](#where-code-and-documentation-disagree) |

**Bounds of the publish workflow.** `RetryBound` (on `retry_count`),
`AutoRetryMax`, `CrashBound` and the number of jobs and threads are the only
bounds. Jobs of one connection share nothing but the lock, the lease, the
connection row and the recovery worker's list, so every property of one job's
data is explored on one job, and waiting on two. A retry starts from the row, the
worktree and the remote alone, so a second and third retry add no new kind of
state: `publish_safety` uses two to have a retry of a retry. One crash may come
at every step; a second one finds a state of the same kind, since nothing but
`crashes` and an orphaned lease survives that the first run could not have left.
Two threads on one job need a stall and a retry, which both fit.
`publish_safety` has no stalls, so that the lifecycle under stalls is covered
by the theorem `LifecycleImplemented` only, which has no such restriction; and
`publish_two_jobs` has no torn writes. What goes wrong with them on is the subject
of `publish_push_after_disconnect`, `MCPublishLateRepair.cfg` and
`MCPublishTornDisconnect.cfg`.

**Bounds of the other runs.** Two actors on each side of a race, one crash or
restart, queues and tables of size two. A limiter of one key with two tokens is
full at once; three calls of one key with a limit of one contain a late, an
early and a refused one. One restore, one loss of power and two commits give
every order of durable and lost steps, as each restore begins from a stopped
server and a database that reads as expected. The window of the floor holds two of the
three samples, so it cuts, and one Cell's budget is below what others may spend.
One adoption lets a session stand on a head it did not reason on; one more would
repeat it, and one next to an edit or a decision is left to the theorems
`PromotedIsOneChain` and `PremisesAreHeld`. One turn scheduled twice is the smallest race of two attempts over the cursor; overlapping intervals of several
turns do not fit the five minutes of a run together with liveness and are left
to the theorem `DiscussionsHold`, whose inductive invariant TLC also checked
once with more turns (21 million states). The inductive invariant of the
refreshes was checked with more answers and threads in the same way
(7.2 million states). `MaxTogether`, `MaxApart`, `FewEdits`, `OnlyOne` and
`Complete` in the MC modules keep rare events from being combined all at once.

**Fairness.** `LiveSpec` of `PublishJobs`: weak fairness of each thread
(`ThreadStep(t)`): a daemon thread runs until its process dies, and git and
GitHub calls have timeouts, so each step ends. Weak fairness of the recovery
worker (its loop ticks for as long as the server runs), of the restart (a
supervisor restarts a dead server), of the passing of time (`HeartbeatAges`,
`LeaseExpires`), and of a started removal. None of requests, of crashes or of
other people. Weak fairness of a thread that waits for the lock suffices because
every holder gives the lock back and a job starts few phases; the lock of the
code is no fairer than that. `InFlightComesToRest` leaves `pending` out on
purpose: no part of the code repairs a job whose process died before the prepare
thread wrote its first status; it waits for a cancel or a disconnect.

`probe`: weak fairness of a caller's enqueueing, of the worker and of the
cooldown. `jobs`: weak fairness of each worker's steps, of the lapse of leases
(time) and of the repair at startup. In the spool weak fairness of a thread of
`execute` and of a worker at work, and strong fairness of a claim: a worker that
looks again and again at a directory another one is busy with claims the
job in the end, because each pass lists all jobs. `EveryCallIsAnswered` is
checked with the deadline switched off, so an answer does not depend on it.

**Deadlock** is checked in the publish runs, where verify requests and the
recovery worker can always go on, in `probe` and in `jobs`. In
`storage`, `understanding`, `decisions` and `cells` bounded work simply ends, so
the check is off (`CHECK_DEADLOCK FALSE`).

**Switches.** `LateDrain = FALSE` in `probe`: with `TRUE`, a worker that empties
the queue for longer than the cooldown throws away the next trial, and
`TrialDecides` fails. `Silence = FALSE` in `understanding`: with `TRUE`, a thread
that computes for longer than the stuck limit is taken for lost, and
`SettledStays` and `NeverReExecuted` fail. Both are described
[below](#where-code-and-documentation-disagree).

**Mutants.** Every property of a passing run has a mutant of a mapped
definition (`Bug_*`, beside the original) that breaks it: a retry allowed before
the approval, a closed status that is overwritten, a retry that
does not look at the connection, a request claimed twice, a directory that is not synced, a lease that is
not looked at, an answer merged into a weaker job, a rebuild that does not wait
for the lock, a candidate promoted over a head it was not reasoned on, an
approval that survives a change of the content, and so on.

## What is proved

For all sets and all bounds, from the named assumptions of the modules
(`ThreadAssumption`, `BoundAssumption`, ... each says that a set is finite, a
number natural, or that "nobody" is not one of the actors; TLC evaluates all of
them). "Spec" is that of the module; a prefix (`Spool!Spec`) is the instance
in the MC module, so the theorem is about the very definitions the run checks.

| Theorem | Module | Statement |
|---|---|---|
| `TypeCorrect` | `PublishProofs` | `Spec => []TypeOK` |
| `LockSafety` | `PublishProofs` | the connection lock is exclusive |
| `TerminalFinality` | `PublishProofs` | `Spec => TerminalIsFinal` |
| `PushedApproval` | `PublishProofs` | `Spec => []PushedWasApproved` |
| `PublishSafety` | `PublishProofs` | `Spec => []SafetyInv` |
| `PushedRecorded` | `PublishProofs` | `Spec => []PushedIsRecorded` |
| `LifecycleImplemented` | `PublishProofs` | `Spec => ImplementsLifecycle` |
| `CompletedPublished` | `PublishProofs` | `Spec => []CompletedIsPublished` |
| `OnePullRequest` | `PublishProofs` | `Spec => []AtMostOnePullRequest` |
| `DisconnectedIsClosed` | `PublishProofs` | `~TornWrites => (Spec => []DisconnectCancelsAll)` |
| `LeftOpenOnlyCloses` | `PublishProofs` | `Spec => DisconnectedOnlyCloses` |
| `LeftoversAreRecorded` | `PublishProofs` | `~Stalls => (Spec => []LeftoverIsRecorded)` |
| `HumanIsAsked`, `PushesAreConnected`, `ApprovedIsRetryable` | `PublishProofs` | `~Stalls =>` of `Spec => ManualWaitsForHuman`, `Spec => NoPushAfterDisconnect`, `Spec => ApprovedStaysRetryable` |
| `LimitsHold` | `StorageProofs` | `Spec => []LimitsInv` (`RequestLimits`) |
| `SpoolHolds` | `StorageProofs` | `Spool!Spec => []SpoolInv` |
| `FilesHold` | `StorageProofs` | `Files!Spec => []FilesInv` |
| `DiscussionsHold`, `ExtractionsEndOnce` | `JobsProofs` | `Spec => []DiscussionInv`, `Spec => SuccessIsFinal` (`DiscussionJobs`) |
| `ResyncsHold` | `JobsProofs` | `Resync!Spec => []ResyncInv` |
| `WhatEndsStays` | `JobsProofs` | `MCSpec => EndedStays` |
| `TransportAccounts` | `ProbeProofs` | `Spec => []TransportInv` (`ProbeTransport`) |
| `CallsHold` | `ProbeProofs` | `Calls!Spec => []CallsInv` |
| `RefreshesHold`, `RefreshesKeep` | `UnderstandingProofs` | `Refresh!Spec => []RefreshInv`, `Refresh!Spec => RefreshKeeps` |
| `BuildsHold`, `BuildsKeep` | `UnderstandingProofs` | `~Silence =>` of `Spec => []BuildInv`, `Spec => BuildKeeps` (`BuildJobs`) |
| `LedgerHolds` | `CellsProofs` | `Spec => []TasksInv` |
| `OneProcessIsSerial` | `CellsProofs` | with one request at a time, retries are bounded, the event of a return names the present status, and escalations only advance |
| `RostersHold`, `FloorHolds` | `CellsProofs` | `Roster!Spec => []Roster!RosterInv`; `Quality!Spec =>` of the budget, `SuspensionIsEarned` and `ResumeIsEarned` |
| `CellsHold`, `StatusEarned` | `CellsProofs` | `OneProcess =>` of `MCSpec => []CellsInv`, `MCSpec => StatusIsEarned` |
| `AdoptsWhatWasApproved` | `ImprovementProofs` | `Spec => []ImprovementInv` |
| `TransitionsAreSound` | `ImprovementProofs` | `Spec => EvidenceHolds /\ SuspendedIsFrozen /\ LiveShadowIsGrounded` |
| `RejectionsTripTheBreaker` | `ImprovementProofs` | where no process dies, the rejection that completes the streak leaves nothing open |
| `DecisionsAreSound` | `DecisionProofs` | `MCSpec => StepsAreSound` |
| `PromotedIsOneChain`, `PremisesAreHeld` | `DecisionProofs` | `Premise!Spec => []PremiseInv`, `Premise!Spec => PremisesHold` |

### The publish workflow

None of the properties is inductive. `SafetyInv` is, and is built in layers, each
inductive relative to those before it:

1. `TypeInv`: `TypeOK`, and a thread that is not at rest has a job. Without the
   second part an action would look up a row that does not exist.
2. `LockInv`: a thread at a label behind the lock is its holder. It is what
   makes the sequential reading of a phase sound: while a thread is between
   two steps of a phase, no other phase, repair or removal of a worktree runs.
3. `ApprovedInv`: every status from `committing` on, every thread of a publish
   or reconcile phase and every planned repair of such a job belongs to an
   approved job. `PushedWasApproved` follows, since a push is a step of such a
   thread. The mutant that lets a retry start from `awaiting_approval` breaks
   exactly this layer.
4. `PrepareInv`: a thread in the prepare phase is alone on its job and the job
   is not approved. It keeps a late prepare thread from replacing a committed
   worktree.
5. `CommitInv`: a commit on the branch is the recorded one, and a thread between
   commit and push carries the commit that is in the worktree and, once
   recorded, in the row. `PushedIsRecorded` is its first part. The layer needs
   `LockInv` (nobody else touches row and worktree in between) and the fact
   that a retry which rebuilds a worktree, and forgets the commit, has seen an
   absent branch while holding the lock.

`TerminalIsFinal` is an action property and follows from `TypeInv` and `LockInv`
by cases over the actions that write a status. Layers 2 to 5 hold with `Stalls`
and `TornWrites` on: these results do not depend on the recovery worker guessing
right.

`LifecycleImplemented` says that the workflow implements its abstract
specification. Every step is shown to be a step of the lifecycle or not to be
seen (`StepIsSeen`), which needs `SeenInv`, three layers more: `BornInv`, threads
and planned repairs are of jobs that exist; `OnwardInv`, an approved job never
goes back before its approval; and `EffectInv`, a thread that has reached the
pull request has a commit on the branch, and one that completes the job has
recorded a pull request. Most of this is inherited from the lifecycle itself:
since a step is one of the lifecycle, jobs keep existing, facts are not taken
back and approved jobs go on (`RowsGrow`), and only what the threads carry is
left to prove.

`CompletedPublished` and `OnePullRequest` add `OutcomeInv`: a completed job has a
pull request and its recorded commit on the branch (`DoneInv`), and a thread at
the pull request has that too, one that still commits has a job that is not
completed, and one about to create a pull request has seen none (`ThreadsInv`).
`RecordCommit` and `Rebuild` are the steps that could break it; the lock keeps
them away from a thread that is already at the pull request.

The rest of the properties need that the recovery worker takes no live thread for
dead (`~Stalls`). They are not true without it: a repair of a job whose thread
goes on gives the job a second thread, and the run `MCPublishPushAfterDisconnect`
shows one of them pushing after the disconnect. With it `SoloInv` is inductive: a
job has one thread at most, a planned repair is of a job that has none, and so a
thread knows at each label what the status of its job may be (`LabelOK`), however
long ago the worker read the rows. Three layers rest on it, each for one hazard:

- `OpenInv`: no job publishes on a disconnected connection. A disconnect is
  refused while one does, and none can start afterwards; so a push finds the
  connection in place (`PushesAreConnected`), although the thread checked it some
  steps earlier and holds nothing that would keep the handler out.
- `FaultInv`: a thread about to fail an approved job as `failed` has seen a moved
  base branch or a connection that is no longer connected; both facts last.
- `TidyInv`: until the first crash, the worktree of a closed job is gone, its
  removal is recorded as failed, or it is in somebody's hand: a handler that still
  waits for the lock, or the thread that completed the job. The case that needs
  care is a prepare thread that checks out after its job was closed
  (`CheckOutSeen`): the handler then has the removal still to do, since it waits
  for the lock this thread holds.

`ManualWaitsForHuman` follows from `SoloInv` alone: nobody works on a job that
waits. `DisconnectCancelsAll` needs no heartbeat, but `~TornWrites`: a crash between
the two statements of the handler leaves the row disconnected and the jobs open
(`MCPublishTornDisconnect.cfg`). `LeftOpenOnlyCloses` says what becomes of these jobs,
with stalls and torn writes: the crash has ended every thread, so nothing is at work
on them but repairs that were read in time to close them (`ClosingInv`), and every
request that would take one up asks for a connected connection.

### The other components

- *Limits.* `Overrun` says how far the counter of a key lags behind the calls
  admitted: each late call may have reset it once, and so may the end of the
  window it counts.
- *Spool.* A job has one worker at most, because its file `claimed` stays until
  the directory is gone and `request` is unlinked before it; its worker alone
  writes in it, and a result is there only when the worker is done.
- *Files.* After a loss of power each name shows what was seen or what was
  durable, so every main file that may be shown must read, with every log that
  may be shown beside it, as something expected (`AllRead`). That needs what a
  restore knows at each step (`RestoreOK`) and that it is alone while the server
  is down. A backup's name is durable once one was reported, and no step takes it
  away (`KeptInv`).
- *Discussions.* Attempts only grow, rivals have different ones, and the one that
  equals the row's belongs to a running job, so one worker at most ends it.
  Every interval begins at the latest right behind the cursor, so a job that
  moves the cursor covers everything it skips.
- *Resyncs.* A thread knows its job's status and the snapshot it made, which no
  other thread writes; so a late thread finds its job still active and a job
  completes with a snapshot of its own.
- *SDK.* The counters never fall below what the post in flight reports, since
  only the worker takes away from them, so no `max(0, ...)` cuts anything off; the
  equations are by cardinalities of callers at labels and of events taken out of
  the queue. A policy about to be stored was the server's when it was requested;
  a candidate is listed before it runs.
- *Refresh.* A thread at work holds the lock and its job is the one updating; the
  pending job is the newest. What a rebuild has read is all that was saved when
  it began, so `rebuiltAt` never promises an answer the understanding lacks.
- *Builds.* Both theorems need that no thread at work is silent for the stuck
  limit (`~Silence`); where one is, its job gets a second thread and they do not
  hold. Four layers, each resting on those before it: `ThreadInv`, a job has
  one thread, and looks lost only when it has none; `StepInv`, a thread at a step
  found it open with its dependencies completed, and nobody else marks it;
  `ScanInv`, until the scan is marked each chunk is scanned, failed, in the hand
  of a call, or still ahead; `GraphInv`, a job that reuses the scan finds the graph
  fresh as well, and one that builds the graph has scanned every chunk itself.
  The pipeline is any set of steps and dependencies in an order that respects
  them, so the result is not about the seven steps of today. The proofs moved two
  boundaries of the properties, because the invariants were not inductive at the
  old ones: `TwoThreads` and the number of builds in `GraphIsWhole`, both behaviours
  of the code described [below](#where-code-and-documentation-disagree).
- *Cell tasks.* Compare-and-set on the status makes the events a path whatever
  was read before (`Made` says what a request can have read); with one process
  what was read is still true (`Fresh`).
- *Rosters.* `RosterIInv`: rosters name Cells that exist, nobody is below itself,
  and there is no chain of more than `MaxDepth` orchestrators. What is below some
  Cells is the least set closed under rosters (`BelowIsLeast`), and in acyclic
  rosters no chain comes past a Cell twice (`ChainIsInjective`). A chain through
  the Cell that was changed is therefore one above it, the Cell and one below it,
  none of which contains the changed roster: their lengths are the height and the
  depth the check added up (`SetKeepsDepth`). A digest is complete
  (`DigestIsComplete`) because the Cells it counts are a set closed under rosters
  that contains the roster of the orchestrator. The mutant without the ancestors,
  which is how the code once was, breaks `SetKeepsDepth`. The numbers need that a
  set of them has a least one (`LeastNumber`), which follows from the library's
  theorem on well-founded relations. The proof is about `CellChains`; that the
  recursive walks find the same is what TLC compares. It is about one process, in
  which the check and the write are one step.
- *Quality.* The count of the day bounds that of the Cell, and the budget it was
  compared with the largest of the day. The audits of the window are the latest of
  different samples (`WindowOfSamples`), and of those audited last
  (`WindowIsRecent`); a breach leaves at least a share of failures among them
  (`BreachIsEarned`, by `Shares`), and what a resumption considers are those whose
  last verdict counts (`ResumptionIsEarned`). The proof moved a boundary of `ResumeIsEarned`: with a
  `quality_floor` of 0, which the schema allows (`db.py:4949`), an intake may be
  resumed with no passing sample at all; what is needed is a sample that was judged.
  `QualityAssumption` has the floor between 0 and 1, as the schema does.
- *Improvements.* Adoption looks at approvals and not at what they were given
  to; every approval a row has is of its present content (`RowOK`). The theorems
  of `ImprovementProofs` are about `CellImprovement` with any constants.
  `DecisionsAreSound` is about the composition in `MCDecisions`: `DecisionProofs`
  instantiates them for `Breaker` and `Shadow`, shows that the constants of both are
  as `CellImprovement` assumes (`InstancesAreAssumed`) and that their actions are
  those the theorems speak of (`BreakerIsImprovement`, `ShadowIsImprovement`).
- *Premises.* Every revision was reasoned on the premise its session still has, or
  the session adopted the one it has now on record (`OnRecord`, `RevOK`), and so
  was what a run in flight carries (`CallOK`). A promotion compares with the session's premise alone, so what it appends continues
  the chain in any case. A step that promotes nothing only adds candidates and
  sessions, prunes what no revision links to and takes nothing off a session's
  record (`Grows`). The strengthening is the one thing an unguarded `Adopt` leaves
  true: `PromotedOnHead` is not.

### Only model-checked

Liveness (`InFlightComesToRest`, `TrialDecides`, `FlushReturns`, `JobsEnd`,
`EveryEventIsDelivered`, `EveryCallIsAnswered`): fairness and ENABLED are outside
what the prover handles. `WalksAgree`: what recursive operators compute is outside
the prover's reach, so it is evaluated on small rosters. Every other property of a
passing run is stated by one of the theorems above.

## Where code and documentation disagree

Five of these are shown by a configuration in which TLC finds the behaviour; the
first two are runs (`PROJECT.json`, "findings", quotes the sentence that says
otherwise), the others contradict the sentence quoted here:

- `publish_verify_race`: `verify_connection` (`routes/github_connections.py:494`)
  writes its verdict with no condition on the status it read, so a disconnect
  that lands while it talks to GitHub is undone.
- `publish_push_after_disconnect`: the repair (`publish_recovery.py:132`) takes a
  thread that is silent for a dead one; the disconnect then finds no job in
  flight and succeeds, and the push follows it.
- `MCPublishLateRepair.cfg` (`RepairsUnpushed`): the repair (`publish_recovery.py:114`) lists the silent
  prepare jobs, waits for the lock to remove a worktree and writes `failed`
  although the job was offered, approved and pushed meanwhile. `publish_recovery.py:9`:
  "nothing was ever pushed, so there is nothing to reconcile".
- `MCPublishTornDisconnect.cfg` (`DisconnectCancelsAll`): the disconnect handler's updates
  (`routes/github_connections.py:677`) are not one transaction, so a crash between
  them leaves open jobs on a disconnected connection. `publish_job.py:47`: "cancelled
  in the same transaction as the disconnect". The property is checked without
  torn writes in `publish_two_jobs`; with them `DisconnectedOnlyCloses` is what
  remains.
- `MCPremiseAdopt.cfg` (`PromotedOnHead`): `adopt_current_premise`
  (`canonical_understanding.py:1346`) and its route pin any session, also a stale or
  branched one, to the head, and its candidate of the old head is then promoted over
  the new one. `canonical_understanding.py:299`, of a branched session: "its candidate
  can still never be promoted -- promotion requires ``current``". `PremiseInv` says
  what remains: the event `session_rebased` is on record.

The others were found with TLC in the same way while the models were built, and
are kept here rather than as runs. The properties that a run checks exempt
them by a switch or say what remains true.

Publish workflow:
- `publish_job.py:912`: a publish thread that was repaired while it waited for
  the lock writes `committing` over a `manual_intervention_required` its retry ended
  in (`ManualWaitsForHuman` is checked without stalls).
- `repo_manager.py:453`: nothing calls `cleanup_expired_jobs`, so a worktree left
  behind by a crash stays. The docstring of `cancel_publish_job` allows a cancel
  from the prepare phase where `_CANCELLABLE_STATUSES` has only `pending`.

SDK (`packages/python-probe/probe_agent/`):
- `client.py:289`: the queue is emptied after the lock is released; past the
  cooldown this throws away the one trial event, whose reservation is never
  released.
- `client.py:127`: a policy answer that is no JSON raises through the wrapper
  (`decorator.py:323`) into the caller of the probed function.
- `decorator.py:592`: the start of the shadow thread is not guarded; where no
  thread can be started the probed call raises after it succeeded.
- `decorator.py:591`: the thread is listed before it is started; a `flush` in
  between joins an unstarted thread, which raises.

Understanding and interviews:
- `routes/interview.py:3863`: a manual rebuild runs without the session's lock,
  so an understanding built from fewer answers may replace a newer one
  (`NeverRegresses` is about behaviours without one).
- `routes/interview.py:220`: the gate compares with the later of confirmation
  and rebuild, so an answer saved during a rebuild and before a confirmation is
  skipped (`SkippedIsConfirmed` says what remains).
- `routes/interview.py:3657`: the stage is computed from the row read before the
  model call, so a confirmation in between is undone.
- `system_understanding_jobs.py:213`, `:621`: a job that is merely slow is
  superseded or retried while its thread goes on; it completes a failed job or
  runs a completed step again.
- `system_understanding_jobs.py:1019`: the symbol index is stored statement by
  statement; an error in the middle leaves a run that is taken for complete.
- `system_understanding_jobs.py:623`: `retry_build` does not look for another
  active job, so two jobs of a System may be active. With a third, an old job that
  is retried may reuse a scan that is outdated before it gets to the graph, and
  `:1350` then builds a graph of the chunks it scanned itself, which are not all
  (`GraphIsWhole` is about histories without a retry, or of two jobs).
- `system_understanding_jobs.py:264`, `:691`: after a retry, a thread that settles
  its job late (its history could not be stored), or a cancellation of a job whose
  thread was lost, settles the retried job under its new thread; one more retry
  then gives the job two threads (`LateSettling`, `TwoThreads`).
- `system_understanding_jobs.py:578`: a cancellation accepted between the reading
  of the flag and the final status leaves a completed job with the flag up.
- `repository_resync_jobs.py:240`: a restart between the snapshot's commit and the
  pinning ends the job as `snapshot_failed` although its snapshot is in use.
- `routes/interview.py:3531`: the gate and the token are taken in two connections,
  and a session's first build passes no gate, so a run may reason on a premise
  that has just become stale.

Limits and Probe Cells:
- `resource_limits.py:101`, `:111`: the window number is read before the lock, so a
  late call replaces the present window by its own, after which more than the
  limit are admitted (`OverrunIsBounded` says by how many), and may drop the
  present windows of others from a full table.
- `routes/traces.py:516`: the rescan grows rows without a look at the byte quota.
- `cell_improvement.py:577`: a draft inserts an improvement although the streak of
  rejections was completed during the model call. `:957`, `:1162`: adoption records
  the card pinned at creation as the previous one, and a rollback can be repeated,
  so rollbacks may skip or take back another adoption. `:773`: the ownership of a
  rubric is judged by that old card. `:1310`: a shadow of a suspended improvement
  can be approved. `:1003`: a crash between the rejection and the suspension it
  triggers leaves the others open.
- `cell_tasks.py:555`: with two processes a retry goes beyond its limit
  (`RetriesAreBounded` is about one process). `:532`: tasks may block each other in
  a circle. The write of an escalation (`:779`) is guarded only by the read before
  it, which one process keeps together (`OneProcessIsSerial`).
- `routes/cell_orchestrators.py:201`: the roster is validated before the deferred
  BEGIN, so two processes, which the deployment does not have, could close a circle
  together. `cell_orchestrator.py:289`: a Cell on two rosters below an orchestrator counts
  twice in its digest.
- `cell_tasks.py:614`: with two processes the event of a return may name a status the
  task no longer has. `cell_quality.py:914`: each evaluation of one breach raises another escalation;
  `:735`: an audit explained late is stored after a newer one and counts instead.

Further hazards seen in reading, beyond those `PROJECT.json` lists:
`repository_refresh_service.py:119` (snapshot ids are assigned before HEAD is
read, so the later id may hold the older commit; a crash leaves a row in
`indexing`), `:671` (two threads may store one index twice, with the warnings
doubled), `system_understanding_jobs.py:238` (a restart while a start inserts its
rows leaves a job without some steps, modelled as `StartTorn`),
`interview_refresh.py:221` (a thread that cannot be started leaves a pending job
into which all requests merge until a restart), `routes/interview.py:2472` (a crash
between an answer and its request: `forgotten` in the model),
`sqlite_backup.py:151` (a server without open connections is not noticed by a
restore; the operator stops it first), and the audit rows of `_set_status`, which
are not written in the transaction of the status.

## What is not modelled

In the publish workflow: two server processes, creating a connection and the
installation registry (a new connection is the initial state), the audit rows,
the content of patches and texts, mirror cloning, and the deletion of a job's
branch by somebody else. Somebody who closes a pull request between its creation and a retry makes the
retry open another one: `AtMostOnePullRequest` is about open ones, as the code's
query (`state=open`) is.

In the other components, by the note of each in `PROJECT.json`: the daily LLM
allowance and the management window of the limits, the local execution backend
and container arguments, the payloads and configuration of the SDK and its value
transformations, what build steps compute and the read side of builds, the
upgrade of old symbol indexes, the review of discussion candidates, the workflow
around an interview's refresh, the digests of frozen bundles, Cell goals,
bottlenecks and triage, the selection of audit samples. Three hazards of the modelled
parts have no property: a command that two workers run after its caller gave up
(`execution_backend.py:403`), an invalidation of the policy that a late store
overwrites (`policy.py:41`), and a live thread of a build that is silent for the
stuck limit (`Silence`).

Not modelled at all: the experiment, replay and validation runners (sequential
use of the execution backend); Cell bindings, activations and root Cells
(versions written in one transaction); evolution nodes and stabilization,
execution modes and flow orchestration, change sets and refresh proposals
(transitions of one row under one connection, planned as far as they are worth
it); retention (one statement per batch); authentication; trace ingestion beyond
its limits; the dashboard; vendored and static files. Most of the 180,000 lines
of the implementation are of a kind a model says nothing about: request and row
types (`models.py`), schema and migrations (`db.py`), prompts and parsing around
language models, projections and CRUD over versioned rows. That is why the models
stand for a small share of the lines, although they cover the concurrent and
crash-prone parts named in the first table.

## Plan

Done: the publish workflow with its lifecycle, the SDK, the spool, the limits,
backup and restore, the three kinds of background jobs, the interview refresh, the
canonical understanding and the Probe Cells, as described above. Left, in this
order:

1. Liveness of the publish lifecycle (an approved job is published, waits or is
   closed) as a property of the workflow.
2. The publish lease with two server processes and a phase longer than its TTL.
3. Evolution nodes, execution modes and change sets, as far as a reading of them
   shows behaviour worth a model.
