# TLA+ models of librislog-telemetry

librislog-telemetry receives one anonymous heartbeat a day from every LibrisLog
installation, keeps one row per installation in SQLite, archives the ones that
stopped reporting, and shows aggregate numbers on a public dashboard. The
program is small. What is hard about it is that three kinds of process work on
one database file with short transactions: the event loop, the retention job in
an executor thread, and scripts started by hand. Everything the dashboard says
depends on what they leave behind together. Around that core are a start and
shutdown that cancel a thread's task, a connection pool shared with a blocking
event loop, migrations without transactions, and a developer CLI that chains git
and gh commands.

Paths below are relative to the repository (`src/` of this checkout).

## 1. Inventory

| Component | Code | State | Operations |
|---|---|---|---|
| database | `backend/app/models.py`, `database.py` | tables `installation`, `pruned_installation`, `daily_activity`; SQLite's write lock | sessions with autocommitted SELECTs, a first write that takes the lock, COMMIT, rollback |
| ingestion | `backend/app/routers/telemetry.py` | the request's objects | lookup, lookup of the tombstone, upsert, day snapshot, commit |
| retention | `backend/app/services/retention.py`, `main.py:23-60`, `scripts/prune.py` | the batch selected; the job's loop | prune (move to `pruned_installation`), purge of `daily_activity` |
| statistics | `backend/app/routers/stats.py` | the response under construction | 16 SELECTs |
| development data | `backend/scripts/seed.py`, `clean.py`, `cli/src/ltel/backend.py` | a script between its read and its commit; a question to the user | seed, clean --seed, clean --all |
| start and shutdown | `main.py:23-74` | the job's task, its thread and the session both use | start, cancel, close under the thread, exit, kill |
| migrations | `backend/alembic/versions/*` | schema, stamped revision | six revisions of DDL |
| validation | `backend/app/schemas.py` | none | length and shape checks, strip, alias |
| rate limit, proxy | `main.py:103-126`, slowapi | hits per window and address | choose the address, admit, reject |
| connection pool | `database.py:23`, sessions of the routers | who holds a connection | take, give back, time out |
| health | `backend/app/routers/health.py` | none | connectivity, table names |
| developer CLI | `branch.py`, `sync.py`, `pr.py`, `_git.py`, `_gh.py` in `cli/src/ltel` | the clone, GitHub, the command in progress | branch create/delete, sync, PR create/merge |
| configuration, logging, dashboard page | `config.py`, `logging_config.py`, `dashboard.html` | none | formatting, I/O |

How they interact:

- *Event loop.* `POST /api/telemetry` and `GET /api/stats` are `async def`
  without an `await`. The event loop therefore runs one handler at a time, to
  its end: two requests never interleave. A handler that waits for the database
  lock blocks the whole server.
- *Retention job.* `_periodic_prune` runs `prune_stale_installations`, then
  `prune_stale_daily_activity`, in an executor thread. Their statements
  interleave with the statements of a handler.
- *Shutdown.* The lifespan cancels the job's task. That ends the task's `await`
  and closes its session, but not the thread that works in the session.
- *Pool.* A handler that waits for a connection blocks the loop, and with it the
  requests whose sessions could give one back.
- *CLI.* Each command is a chain of subprocesses that ends at the first failure,
  with questions in between; others change GitHub meanwhile.
- *Scripts.* `ltel prune`, `ltel seed` and `ltel clean` are other processes on
  the same file; any statement of theirs interleaves with everything.
- *Transactions.* pysqlite's default transaction control on a WAL database: a
  SELECT outside a transaction is autocommitted and pins no snapshot; the first
  INSERT/UPDATE/DELETE of a session takes the only write lock (five seconds of
  polling, then "database is locked"); a COMMIT publishes everything at once.
  So what a session *read* before its first write may be out of date when it
  commits. Every hazard of the core comes from this, from crashes, or from
  sequences of operations nobody tried.

What makes each component correct:

- ingestion and retention: an installation that was ever answered 200 is counted
  exactly once, for ever; only stale installations are archived, and all of
  them eventually are; the day snapshot agrees with the row.
- purge: nothing the dashboard can still show is deleted.
- statistics: one response is consistent in itself.
- development data: fakes never damage real data, and can be created and removed
  again and again; no activity is left without an owner.
- start and shutdown: a shutdown at any point of a round leaves the tables as
  a whole round or none would, the process ends, and retention goes on later.
- requests: the limit bounds every address in every minute and rejects only where
  it is used up; every request ends, whatever the pool has left; what is stored
  is in normal form.
- migrations: the file always is a prefix of the history, and the container comes
  to serve again.
- CLI: a branch never loses commits; a command that says it did something did it.

`PROJECT.json` lists every component with its status, and every hazard with its
line and the properties that cover it.

## 2. Modules

```
TelemetryDb          tables, lock, clock, days
 |- Ingest           POST /api/telemetry
 |- Retention        prune and purge; job and `ltel prune`
 |- Stats            GET /api/stats
 |   `- Backend      Ingest + Retention + Stats + crashes, timeouts, time
 |        `- BackendProofs    theorems: who is counted
 |             `- ActivityProofs   theorems: the activity of a day
 |                  `- StatsProofs      theorems: one response
 `- DevTools         ltel seed, ltel clean
     `- DevBackend   Ingest + Retention + DevTools
          |- DevBackendProofs theorems
          `- MCDevBackend     the sequence of seeded ids for TLC
Registry             abstract specification of the all-time count
Lifespan             the job's task and thread, start, shutdown, kill
 `- LifespanProofs   theorems
Payload              validation of a heartbeat
 `- Requests         proxies, rate limit, event loop, connection pool
     `- RequestsProofs     theorems
Migrations           alembic revisions, the processes that run them, health
 `- MigrationsProofs theorems
Workflow             ltel branch, sync and pr, beside work by hand and by others
 `- WorkflowProofs   theorems
```

Backend, Lifespan, Requests and Workflow take their small instances from the
`.cfg` alone; only the sequence of seeded ids needs an MC module.

**TelemetryDb.** `installation` maps an id to its row (`first`, `last`,
`version`) or `NoRow`; `pruned_installation` is the set of tombstone ids;
`daily_activity` the set of its rows. All three are the *committed* state.
`writer` names the connection between its first write and its COMMIT. `version`
stands for the four columns that are copied from the payload the same way.
Instants are natural numbers, `TicksPerDay` of them per UTC day. The clock is
assumed not to run backwards.

**Ingest.** `request` is what the handler holds: payload, `now`, and what its
two lookups found. `IngestLookup` and `IngestLookupPruned` are lines 76-83.
`IngestFlush` is the autoflush that the SELECT on line 109 triggers: it takes
the lock and makes the ORM's UPDATE or INSERT hit what it expects, or else
`IngestConflict` (StaleDataError, IntegrityError) or `IngestLocked` answers 500.
`IngestCommit` applies everything: row, tombstone, day snapshot. `registered` is
a history variable: the ids answered 200 so far.

**Retention.** `prune[p]` is the state of pruner `p`. `PruneSelect` is the
SELECT; `PruneFlush` the flush inside `session.commit()` (fails as
`PruneConflict` if a tombstone exists, or `PruneLocked`); `PruneCommit` moves
the batch. The job then goes on to `PurgeStart` (the cutoff) and `PurgeDelete`.

**Stats.** `Plan` is the list of SELECTs in code order; `StatsQuery` runs the
next one on the committed state of that moment and keeps the rows it counts;
the response has their numbers. The breakdowns by os, architecture and runtime
are the version breakdown on columns that are not modelled, so `Plan` has 13
SELECTs instead of 16.

**Backend** composes them: no handler starts while another runs; a crash of the
server drops its handlers' and the job's local state and its lock; a crash of a
script drops that script's. `faults` bounds crashes and lock timeouts.

**Registry** is the abstract specification: `active` and `archived` sets,
`CheckIn(x)` and `Retire(S)`. `ImplementsRegistry` maps `active` to the rows of
`installation` and `archived` to the tombstones.

**DevTools, DevBackend.** A development database: `SeedSelect`, `SeedCommit`
(or `SeedCrash` when an INSERT meets a taken key), `CleanStatus`,
`CleanConfirmed`, `CleanDelete`. Seeded ids are the sequence `SeedOrder`; the
random rows are every combination the script's `random` calls allow that is not
before the model's time 0. Heartbeats come from other ids only.

**Lifespan.** The retention round once more, from the other side: Backend has the
statements and their conflicts with other writers, Lifespan the task and the
thread that share one SQLAlchemy session. `task` is where `_periodic_prune`
awaits; `worker` is the thread, with the pending writes of the session: `new`
tombstones, `deleted` rows, `dropped` activity. `TakeNext` and `FinishTaken` are
the two halves of one pass of the loop (`session.add`, `session.delete`), so
that a shutdown can come between them. `Stop` sends the cancellation; `Unwind`
is `CancelledError` leaving the `with` block, which closes the session and makes
it forget what is pending. `UnwindRefused` is the same while the session is busy
(`SessionBusy`): in `commit()`, or waiting for its connection (`Connect`: the first
statement of the prune, and of the purge, as the prune's commit has given the
connection back). There SQLAlchemy raises `IllegalStateChangeError` instead, which
the loop's `except Exception` catches. `Kill` may happen at any time, `WorkerFails`
is the timeout of the lock or of the pool. Tables are sets of ids, and `stale` is a set because only
being stale or not matters here.

**Payload.** Validation as operators: `Accepted` (length and shape), `Strip`,
`BuildAliases`, `Normalize`, `Validated`. A text is a word with or without blanks;
words stand for the classes of texts the code tells apart.

**Requests.** `request[s]` is where one request is and whether its session holds a
connection; `loop` names the handler that runs. `Arrive` is proxy middleware
(`Address`) and validation: a client may come with an `X-Forwarded-For` of its own
(`Written`: an address of anybody's, or a text from `Strangers`), and each proxy
adds whom it got the request from behind it (`ForwardedFor`); `Call` and `Reject` the limiter, `Connect`,
`ConnectHealth`, `Inspect` and `GiveUp` the handlers' use of the pool, `Reply` and
`Close` the end: the response is sent by the loop, the session closed in a
thread. `hits` and `left` are the fixed window of an address. `from` and `since` are
history: whom a request comes from, which is the client, or who it claims to be if
it wrote the header itself; and how many heartbeats from whom were admitted now or
up to so many ticks ago. Time is
relative to now, so no counter grows.

**Migrations.** A schema is a set of objects: tables, columns and indexes. Each
revision is the sequence of its DDL statements, for `upgrade` and `downgrade`.
`Executable` and `Apply` are one statement on a schema; `Applied` is what the
first `k` of a sequence make of it, in closed form, and the lemma
`AppliedOneMore` proves that it is `Apply` statement after statement.
`schema` and `stamped` are what the file holds; every process reads the stamp
once (`StartUpgrade`), then runs statement after statement (`Execute`, each
committed at once), stamps the revision (`Stamp`) and goes on to the head
(`Finish`). A statement that cannot be executed, or a stamp that changed, ends
the process (`Fails`). The container serves when its upgrade succeeded and is
started again when it ends; `ltel run` serves without migrating. That DDL is
not transactional is alembic's `transactional_ddl = False` for SQLite together
with pysqlite's transaction control. Downgrades are assumed to be run alone, to
their end and on a file no crash has torn (`Torn`), and processes share a file
only where `DATABASE_URL` says so.

**Workflow.** A branch is the set of commits it contains, in the clone (`local`), on
GitHub (`origin`) and as the clone last saw it there (`tracking`). `cmd` is the
command in progress: the process it runs next, the branches and the pull request
it is about, and (history, `had`) the commits that request had when it was listed. One action per git or gh process; `Ends` is any failure or
"Cancelled." at any point, and `PushUnanswered` a push that GitHub took although
git failed. Between commands the developer commits, switches and concludes or
aborts a merge by hand; others push to branches, make and delete them, and open
and merge pull requests at any time. GitHub closes a request once its base has all
of its commits, whichever push or merge brought them (`StillOpen`).

Operators named `Mutant...` stand before the definition they replace: plausible
wrong versions of the code, each of which breaks the property `PROJECT.json`
pairs it with. No specification uses them.

## 3. Runs

| Run | Instance | Question |
|---|---|---|
| `counting` | 2 ids, job + 1 script (`--days 0`), 2 instants, 1 fault | Is everyone counted exactly once, do reads hold until the commit, is every heartbeat answered and every abandoned installation archived? |
| `history` | 1 id, 2 versions, 3.5 days of 2 instants, job + 1 script, 1 fault | Do the daily charts agree with the rows, does the purge spare the window, and is a response consistent when a prune commits in the middle? |
| `prune_race` | 1 id, job | *Violation:* a fresh installation is archived. |
| `stats_total` | 1 id, job | *Violation:* the total counts an installation twice. |
| `lifespan` | 3 ids, 1 failed round, shutdowns and kills without bound | What does a shutdown in the middle of a round leave behind, and does it end? |
| `requests` | 2 requests at a time, 2 clients (one at the proxy's own address), 1 proxy, limit 2, minute of 2 ticks, 2 connections | Does the limit bound every address, whatever clients write in the header, has each rejection a reason, does every request end, is what is stored in normal form? |
| `dev_data` | 1 real id, 1 fake, job + 1 script, 3 days, 1 wipe | Do seed, clean and prune spare real data? |
| `seed_crash` | 1 fake, 1 script | *Violation:* the second seeding fails on a UNIQUE constraint. |
| `seed_wedge` | 1 fake, job | *Violation:* after that, retention never archives anything again. |
| `migrate` | container + 1 terminal, 1 crash, 1 downgrade | Do concurrent, crashing and reverted migrations add up, and does the container serve only on the schema of `models.py`, and always again? |
| `migrate_wedge` | container, 1 crash | *Violation:* after a crash in mid-revision it never does. |
| `workflow` | 2 branches, 3 commits, 2 pull requests | Do commands that fail, are run again or work on old fetches ever lose commits or claim too much? |

Properties:

- `CountedOnce`: `Live` and `pruned_installation` are disjoint and together are
  `registered`. It relates three variables and takes several actors to break: a
  tombstone left by a resurrection, two pruners with the same batch, a prune
  around a lookup.
- `ReadsHoldAtCommit`: what a writer read before it had the lock still holds
  when it commits. It says why the optimistic style of the code is enough for
  *membership*; that it is not enough for *age* is `PrunesOnlyUnseen`.
- `ImplementsRegistry`: each step is a step of `Registry` or stutters.
- `SnapshotCurrent`, `PurgeKeepsWindow`: an installation's newest activity row
  is of the day and version its row says, and no row the dashboard can show is
  deleted without a replacement.
- `NeverUndercounts`, `BreakdownsWithinActive`: what a torn response can still
  promise. They depend on the order of the SELECTs.
- `RequestAnswered`, `StaleEventuallyPruned`: liveness.
- `RealCountedOnce`, `RealSnapshotCurrent`: the same promises for real
  installations on a database that is seeded and cleaned. `RealCountedOnce` holds
  until somebody confirms `clean --all`. After a wipe it does not even hold for
  what comes later: a prune that had selected an installation before the wipe
  commits its tombstone, and its DELETE of the row that is gone only warns; a
  heartbeat that looked for the row and the tombstone before that commit then
  inserts the row beside the tombstone.
- `ActivityOwned`: `clean.py` empties two of the three tables, but no activity is
  ever left of somebody neither table knows, whatever was in progress.
- `NeverBoth`, `LosesOnlyInHand`: the session that is closed under its thread. The
  order of `session.add` and `session.delete` decides that no id can be in both
  tables (which would stop retention, see `seed_wedge`); the price is that one
  installation can be in neither.
- `ShutdownEnds`, `RetentionGoesOn`: liveness of shutdowns and of the job over
  restarts, with exactly the exceptions the code leaves: a session that is
  committing or waiting for its connection when the cancellation comes, and a
  server that is always restarted before its first sleep is over.
- `RateBound`, `RejectedWhenUsedUp`: the limiter seen from outside, by who sends
  and not by what the limiter counts. A client that leaves the header to the proxies
  gets at most `2 * Limit - 1` heartbeats through in one minute, whatever way they
  take, and so does every address that clients write in the header, all together. A
  429 answers only whom `Limit` heartbeats were admitted for within that minute:
  sharing a proxy is no reason for one, nor are earlier rejections. What they do not
  say is in section 4: one who writes the header has as many limits as addresses to
  write, and can use up another client's.
- `RequestEnds`: liveness of all requests when handlers, sessions about to close
  and the job use up the pool.
- `StoredFormStable`, `OneLabelPerSystem`: for every payload a handler may have.
  The reference definition of the second is the alias table itself, read without
  case and blanks.
- `SchemaIsPrefix`, `ServesModels`: statements of several processes, each with an
  old stamp, add up to the revisions in order; and these add up to exactly the
  tables, columns and indexes of `models.py`.
- `ServesUnlessTorn`: liveness of upgrades, restarts and downgrades together; the
  exception it makes is what `migrate_wedge` shows.
- `AlarmOnlyByDowngrade`: a running server's health check sees no table vanish
  while others upgrade its file.
- `BranchesOnlyGrow`, `SyncedMeansPushed`, `CreatedIsPublished`,
  `MergeBringsListed`: what the CLI's commands may not do to branches, and what
  their success messages mean, though each step may fail and GitHub moves on. A
  branch that was created is published and equal to its base, not what an earlier,
  failed create left behind; a request that was merged has brought its base all it
  showed in the list, although by then its branch may have been deleted and made
  again, or others may have merged it.

Bounds. `MaxNow` bounds the clock, `MaxFaults` crashes and lock timeouts,
`MaxWipes` wipes, `MaxSeedDays` the days of a fake. Days are scaled: what
matters is that the windows have the order of the real ones (7 <= 30 <= 90 <= 365,
purge 30 = charts 30; `history` has 0, 1, 2 and 3 days) and that the clock runs
past them. Two installations are enough for a batch of which only a part
conflicts; with `--days 0` two instants are enough to report, go stale, be
archived and come back. `history` runs the clock past the purge window with two
instants per day, so that a heartbeat can capture `now` before midnight and
commit after it. The number of heartbeats, prunes, resurrections and statistics requests is not bounded. Days of `--days 0`
make every installation stale one tick after it reported, which lets prunes
happen at every point of a run. No run uses symmetry.

Lifespan has three ids so that one can be deleted, one in hand and one still to
come when the session is closed. Requests has as many requests as connections,
so that requests that hold one and one that waits meet; the health check alone
takes two. A limit of 2 in a window of 2 ticks is the smallest for which a minute
straddles two windows and `2 * Limit - 1` differs from `Limit` and `2 * Limit`.
Proxies form chains of up to two. One client sits at the proxy's address, so that a
client's own header, which is trusted only from there, can come directly as well as
through proxies, with either client's address in it; `Strangers` is empty, because
an address nobody has is counted like any other. Workflow has three commits because one that
each side has alone is what makes a push refused and a merge conflict, and two
pull requests so that one can be opened while another one is being merged.

Runs that check deadlock do so with `Tick` bounded: a heartbeat can always
arrive.

The runs of Migrations start at every revision, so the files of all earlier
releases are included. One terminal beside the container is enough for a process
to be overtaken by another between any two of its statements.

Fairness (`FairSpec` of Backend). A handler that started runs on (weak fairness
of `Ingesting`, `Reporting`): it is a coroutine that never awaits. The job's
sleep ends (weak fairness of `StartPrune(Job)`). A prune or purge that started
gets its turn (strong fairness of `Prune(p)`, `Purge`): it polls for a lock that
others hold for a moment, and five seconds of bad luck are a `PruneTimeout`,
which is a fault. Faults are finitely many: a server that crashes for ever, or
a lock that is never free, promises nothing. No fairness is assumed of clients,
of people who start scripts, or of time.

Fairness of Lifespan: the event loop and the thread run on (weak fairness of
`Wake`, `Resume`, `RoundFailed`, `Unwind`, `Work`, `Exit`), and the container is
started again (`restart: unless-stopped`, weak fairness of `Start`). Nobody has
to stop or kill it. A job that is cut off before its first sleep is over, again
and again, prunes nothing: that is the first alternative of `RetentionGoesOn`.

Fairness of Requests: the loop serves what is ready in turn (strong fairness of
`Call`/`Reject` and `Reply`, which wait while another handler has the loop),
handlers and threads run on (weak fairness of the handler's steps, `Close`,
`JobReturn`). Clients need not come.

Fairness of Migrations: a migration that started runs on (weak fairness of
`Migrate(p)`), a container that ended is started again (`restart:
unless-stopped`, weak fairness of `StartUpgrade(Server)`). Nobody has to run a
command or stop a server, and both may happen for ever.

## 4. What the violations show

- `prune_race`: prune selects an installation, a heartbeat refreshes it and is
  answered 200, the prune deletes it by primary key. The next heartbeat brings
  it back with a new `first_seen_at`, so its age is lost; until then it is
  missing from every chart that reads `installation`.
- `stats_total`: one response counts an installation live and pruned.
- `seed_crash`, `seed_wedge`: the scripts know fewer tables than the ids live in.
  `seed.py` looks for existing ids in `installation` only. After the fakes were
  pruned, it either fails on their old activity rows, or puts an id into both
  tables; and one such id, once stale, stops retention for all installations.
  Two smaller ones are modelled and not run: `seed.py` dates activity back from
  today instead of from the last ping, and `clean.py --all` leaves the tombstones although the
  question of the CLI speaks of the "ENTIRE database" (`cli/src/ltel/backend.py:105`).
- `migrate_wedge`: a crash between a statement and the stamp of its revision
  leaves a file on which every `alembic upgrade head` fails.

Other differences between what is said and what is done, met while modelling.
The models contain them where they bear on a property; no run is about them:

- `/api/health` is said to check the schema (`README.md:173`); it does not know
  `daily_activity` or any column, so it calls a schema healthy on which every
  heartbeat fails.
- A shutdown that meets a running commit, or a thread that is still waiting for a
  connection of the pool, loses its cancellation (`main.py:55`): the lifespan waits
  until the container is killed. `ShutdownEnds` names this exception.
- A prune whose session is closed between `session.add` and `session.delete`
  can lose an installation from both tables (`LosesOnlyInHand`), against "the
  all-time total remains exact" (`README.md:66`). It takes a shutdown that finds
  the thread in that one place.
- `FORWARDED_ALLOW_IPS` is said to take networks (`README.md:161`); the middleware
  at `main.py:122` compares strings, so a network trusts nobody and all clients
  behind that proxy share one limit.
- "Max telemetry requests per IP" (`README.md:155`), "the primary spam defence"
  (`config.py:18-20`) and "so rate limiting uses the real client IP"
  (`main.py:120-121`) hold of clients that leave `X-Forwarded-For` alone. The
  middleware takes the first element of the header (`main.py:123-125`), and that is
  what the client itself wrote, when it connects directly (the default `"*"` trusts
  everybody) and when a proxy adds to the header instead of replacing it. It is then
  counted under that address: the limit bounds addresses, not such clients, and can
  be used up in another's name.
- "per minute" (`README.md:155`, `config.py:18`) is per fixed window: a minute sees
  up to `2 * Limit - 1`. The counters are in memory and start over with the server.
- An `installation_id` of blanks passes the length check and is stored as the
  empty text (`schemas.py:84`; the exception in `Stable`).
- `ltel sync` fetches but never merges the upstream of the current branch, so once
  somebody else pushed to it, its push is refused each time. `git push` after
  someone deleted the branch on GitHub creates it again.

The behaviour of libraries is modelled from how the code uses them and from the
versions it pins or allows: sessions of dependencies are closed after the
response (FastAPI), a pool of 5 + 10 connections and 30 seconds (SQLAlchemy's
QueuePool), `Session.close` during a commit or while a connection is being acquired
(SQLAlchemy 2 raises `IllegalStateChangeError` in both), a fixed window that
starts with the first hit (slowapi, limits), DDL outside transactions (alembic
on pysqlite).

## 5. Proofs

Eight modules hold theorems. `BackendProofs`, `ActivityProofs` and `StatsProofs`
prove, for every finite set of ids, every set of versions and scripts, all day
counts and any number of faults:

| Theorem | Statement |
|---|---|
| `TypeCorrect` | `Spec => []TypeOK` |
| `EveryoneCountedOnce` | `Spec => []CountedOnce` |
| `ReadsHold` | `Spec => []ReadsHoldAtCommit` |
| `RefinesRegistry` | `Spec => ImplementsRegistry` |
| `ActivityAgrees` | `Spec => []SnapshotCurrent` |
| `WindowKept` | `Spec => PurgeKeepsWindow` |
| `TotalNeverLow` | `Spec => []NeverUndercounts` |
| `BreakdownsFit` | `Spec => []BreakdownsWithinActive` |

These are all the safety properties of `counting` and `history`. The inductive
invariant of the first four is `Inv == TypeOK /\ CountedOnce /\ RequestInv /\
PruneInv`. `CountedOnce` alone is not inductive: a `PruneCommit` could archive an
id that is not live, an `IngestCommit` could insert a row beside a tombstone it
does not know of. `RequestInv` says what the handler's lookups are worth at each
point: only this handler makes an id live, so "not found" stays true; a row
found can go, but only until the flush rechecks it under the lock. `PruneInv`
says that what a pruner selected is at least *known*, so that at the flush,
where no tombstone of the batch may exist, `CountedOnce` makes the batch live.
`QuietInv` handles all steps that only let go of local state; each other action
has a lemma with one step per conjunct. `CommitEffect` and `PruneCommitEffect`
say what the two COMMITs do to the two tables, and the refinement rests on them.

`ActivityProofs` adds `ActivityInv == ClockInv /\ DateInv /\ SnapshotInv`. What a
handler or the job captured as now is not in the future (`ClockInv`), so a purge
that waited past midnight deletes too little, never too much. No activity is
dated later than the request in progress (`DateInv`): heartbeats write one after
the other, and without this a request that commits after midnight could leave a
newer day beside its own. `SnapshotInv` keeps the snapshot as long as `KeepDays`
reach; the charts reach `MonthDays`, which is no more.

`StatsProofs` is about one response. While it is computed the event loop handles
no heartbeat, so rows only disappear (`Beside`). `TotalInv`: whoever was live at
the first SELECT is a tombstone if not live at the second. `WithinInv`: a later
SELECT finds a part of what the earlier one found. `BucketInv`: nobody is in two
longevity buckets, because `first_seen_at` does not change meanwhile. The sums
follow from the cardinalities of disjoint finite sets.

The assumptions are the named `ASSUME`s of the modules: ids are a finite set,
process names are distinct, `NoRow` is not a row, days are natural numbers, and
the purge keeps at least what the charts show (`KeepDays >= MonthDays`: both are
30 in the code).

`DevBackendProofs` proves, for every sequence of seeded ids and any number of
seeds, cleans, wipes and prunes:

| Theorem | Statement |
|---|---|
| `DevTypeCorrect` | `Spec => []TypeOK` |
| `RealsCounted` | `Spec => []RealCountedOnce` |
| `ActivityHasOwner` | `Spec => []ActivityOwned` |
| `RealActivityKept` | `Spec => []RealSnapshotCurrent` |

Its invariant is that of Backend, restricted to real installations (`KnownInv`)
and, as far as it speaks of membership, to databases that were never wiped;
`LockInv` holds after a wipe too, and is what keeps the tools out while a COMMIT is due.
`ActivityOwned` is inductive with it, wipes or not: no step takes an id out of
both tables and leaves its activity.

`LifespanProofs` proves, for every finite set of ids and any number of failed
rounds:

| Theorem | Statement |
|---|---|
| `LifespanTypeCorrect` | `Spec => []TypeOK` |
| `NeverInBoth` | `Spec => []NeverBoth` |
| `LosesAtMostOne` | `Spec => LosesOnlyInHand` |

The strengthening is `Inv == TypeOK /\ NeverBoth /\ PendingInv /\ TaskInv`.
`PendingInv` says how far the pending tombstones and deletes of a session can
drift apart when a close empties both at any point: every tombstone has its
delete but for the installation in hand, and at most one delete has no
tombstone, which takes a closed session. The first half gives `NeverBoth` at the
commit, the second `LosesOnlyInHand`. `TaskInv` (a running server has its task)
is what the type needs at `Stop`: a cancellation always has a task to reach.

`WorkflowProofs` proves, for any branches, commits and number of pull requests:

| Theorem | Statement |
|---|---|
| `WorkflowTypeCorrect` | `Spec => []TypeOK` |
| `CreatedOnlyIfPublished` | `Spec => []CreatedIsPublished` |
| `OnlyGrow` | `Spec => BranchesOnlyGrow` |
| `SyncedOnlyIfPushed` | `Spec => SyncedMeansPushed` |
| `MergesAllListed` | `Spec => MergeBringsListed` |

Its invariant adds `CmdInv` and `PrInv` to the type. `CmdInv` carries what a
command found or did in one step to the step that relies on it: the base exists
until the branch is made, the new branch stays equal to it, the branch a sync is about stays checked out, what was
merged is still contained at the push. It holds because others change GitHub
only, and the developer waits for the command. `PrInv` says that a number means
one request for ever, and that the branch of an open request still has what it had
when it was listed: a branch that is deleted closes its requests, and one that is
made again under the same name does not open them. Each action or group of actions
has a lemma.

`RequestsProofs` proves, for every finite set of requests, any clients, proxies,
limit and window, and any size of the pool:

| Theorem | Statement |
|---|---|
| `RequestsTypeCorrect` | `Spec => []TypeOK` |
| `LimitHolds` | `ProxiesTrusted => (Spec => []RateBound)` |
| `RejectsUsedUpOnly` | `ProxiesTrusted => (Spec => RejectedWhenUsedUp)` |
| `StoredFormIsStable` | `Spec => []StoredFormStable` |
| `KnownHasOneLabel` | `Spec => []OneLabelPerSystem` |

The type includes two statements that are not about types: the loop is at the one
handler that runs, and the pool never lends more connections than it has.
`PoolKept` and `PoolTaken` are the two ways a step can treat the pool.

`ProxiesTrusted` says that `FORWARDED_ALLOW_IPS` is `"*"`, its default
(`config.py:26`), or names every proxy, as `README.md:161` asks. Without it both
properties of the limiter are false: clients behind a proxy that is not trusted
share its limit, and one that comes on two ways has two. It says nothing of what
clients write in the header, which is not restricted. Under it a request is counted
under the address of whom it comes from (`Own`): a client that wrote no header under
its own, on every route (`AddressIsOwn`). The limiter's
invariant is `LimitInv == Inv /\ Own /\ Counted`: `RateBound` alone is not
inductive, because a window that starts late in a full minute would break it.
`Counted` relates the window of an address to the admissions in its name, by age (`WindowOf`): the window holds exactly what the limiter admitted in it, what
the minute holds from before the window is less than the limit, and the first
tick of the window has an admission, so that the minute has lost one when the
next window can begin. The three lemmas `WindowAdmits`, `WindowRejects` and
`WindowTicks` are the three things that can happen to a window.

The two theorems about validation need no induction over steps: they hold of
every message there is. They rest on what the two alias tables have in common
(`Consistent`): no two canonical names differ by case only, and no table gives the
lower case of one to another. `AliasesOf` and `NormalizeIs` are proved for every
table of that kind.

`MigrationsProofs` proves, for any number of processes, crashes and downgrades:

| Theorem | Statement |
|---|---|
| `MigrationsTypeCorrect` | `Spec => []TypeOK` |
| `StampNeverAhead` | `Spec => []SchemaIsPrefix` |
| `ServerHasItsModels` | `Spec => []ServesModels` |
| `UpgradesRaiseNoAlarm` | `Spec => AlarmOnlyByDowngrade` |

The first half is about the revisions as data. `FirstRelease` to `SixthRelease`
compute what each revision makes of a file, object by object; the last of them is
`Models`. `DowngradeUndoes`: each statement of a downgrade can be executed where
it stands, and together they leave the release before. `BehindIsRefused`: what an
upgrade created stays, but for the two `event_count` columns, and these do not
come back, so a statement that was executed once can never be executed again on
any later stage. The second half is the inductive invariant: while nobody
downgrades, the file holds the stamped release and `k` statements of the next, and
every process that upgrades is at or behind that point (`Upgrading`); one that is
behind is refused by `BehindIsRefused`, so only the statement that is due is
ever executed. Who downgrades is alone and has done what the file lacks
(`AloneDown`), and by `DowngradeUndoes` is never refused. `SchemaIsPrefix` alone
is not inductive: it does not say where a process with an old stamp stands.
`UpgradesRaiseNoAlarm` rests on the same facts about what upgrades drop.

The assumptions are the `ASSUME`s of the modules: `LifespanAssumption`,
`WorkflowAssumption`, `RequestsAssumption`, `MigrationsAssumption`, and for the development data those of TelemetryDb,
Retention and DevTools.

Only model-checked: liveness, which is out of the provers' reach (`RequestAnswered`,
`StaleEventuallyPruned`, `ShutdownEnds`, `RetentionGoesOn`, `RequestEnds`,
`ServesUnlessTorn`). Every invariant and every action property of a passing run
is a theorem.

## 6. Not modelled, and what is left

The plan of the project is carried out: the core (TelemetryDb, Ingest, Retention,
Stats, Backend, Registry), development data, migrations, start and shutdown,
requests with validation, limiter and pool, and the CLI's workflow. What could
be added next is one composition of Lifespan with Backend, to see a lost
cancellation and a second pruner together. Their product is beyond TLC for more
than one id, and the thread's step is the same in both, so they are kept apart.

Left out for good: the dashboard page, logging and configuration (formatting and
I/O without state other parts read), the CLI's argument parsing and prompts, and
its commands that only start one subprocess (`docker`, `test`). WAL durability
across power loss is SQLite's.
