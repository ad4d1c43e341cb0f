# A TLA+ model of the wallmo hub

This directory models the wallpaper catalogue service in `src/`: its Postgres
schema and triggers, the admin API that writes to it, object storage, the read
path with its caches, the middleware, the life of a worker, and the migration
and seed scripts. Line numbers below refer to
files under `src/`, as in `PROJECT.json`, whose `map` gives the source lines of
every definition.

    tlc -workers 2 -config MCIngest.cfg MCIngest.tla
    tlapm CatalogueProofs.tla

## 1. The system

uvicorn runs several worker processes (`Dockerfile`, `--workers 4`). Each has an
event loop, a connection pool, a response cache, an upload semaphore and
rate-limit buckets of its own. They share the database and the bucket, and tell
each other nothing. Operators also use psql and run `scripts/migrate.py`, once
per deploy.

| component | state | operations | talks to |
|---|---|---|---|
| catalogue (`migrations/*.sql`, `queries.py`) | `categories`, `artworks`, counters kept by triggers | the write statements, recount | everything that reads |
| admin API (`routers/admin.py`) | none between requests | create, update, delete a category; upload, delete a medium; recount | catalogue, storage, response cache |
| storage (`storage.py`) | the bucket, a semaphore | put, put_many, delete, start, stop | B2 |
| response cache (`cache.py`) | an OrderedDict with expiry times | get, set, clear | `http.py` |
| read path (`http.py`, `routers/`) | one cache per worker | serve_json, clear_response_cache | cache, catalogue |
| listings (`db.py`, `schemas.py`) | none | fetch_page, build_meta | catalogue |
| bundle (`routers/categories.py`) | none | three reads, one response | catalogue |
| rate limiter (`ratelimit.py`) | a bucket per client | _allow | nothing |
| middleware, error mapping (`middleware.py`, `main.py`) | none between requests | request id, Vary, access log, status codes | every handler |
| pool (`db.py`) | up to DB_POOL_MAX connections | acquire, release | database |
| startup, shutdown (`main.py`, `db.py`, `storage.py`) | pool, storage client | lifespan | database, B2 |
| migrations (`scripts/migrate.py`) | `schema_migrations`, an advisory lock | one run per deploy | catalogue's DDL |
| seed (`scripts/seed.py`) | one long transaction | upserts, inserts, recount, reset | catalogue |
| health, authentication, mappers, config, logging | none | | |

What is hard here is not in any one function:

- **Interleaving at awaits.** A handler runs alone between two awaits, and
  anything may happen at one. An upload awaits its category, each put and the
  insert; a cached read awaits its queries between the cache lookup and the
  cache fill; a bundle awaits three reads.
- **Two stores without a transaction.** Rows are in Postgres, objects in B2, and
  every order of writing to both has a failure in between.
- **Caches that are told late or never.** A write clears one worker's cache.
- **Counters kept by triggers**, on a tree that some statements can reshape, and
  under READ COMMITTED: a trigger waits for row locks in the middle of its
  statement, and a recount compares and computes in a snapshot it may outlive.
- **A pool without a timeout on acquire**, and a shutdown that waits for handlers
  but not for what they have left behind.
- **Concurrent deploys** that read what is applied before they take the lock.

`PROJECT.json` lists these as hazards, with the line where each one bites and
the property that would notice.

### What makes each component correct

- Catalogue: media only on subcategories; each counter equals the active media
  below it, or exceeds it after a cascade; recount repairs.
- Transactions: whatever interleaves, a committed transaction is one whole
  statement; exact counters stay exact; the seed script loads its plan or nothing.
- Uploads: visible at once with all objects or never; a reported rollback or
  purge is one; no permit is lost; every upload is answered; rows and
  bucket match, but for what failures are known to leave.
- Read path: nothing older than TTL plus the build time is served; the clear of
  a worker is defeated only by a build that spans it; all workers converge.
- Cache: least recently used goes first, nothing else is lost before its time.
- Listings: of what was there when it began, a page walk skips no more media than
  were removed on the way, and repeats no more than were added.
- Bundle: nothing is cut without `truncated`, but what arrived in the meantime.
- Rate limiter: at most rate plus burst; nobody within both is refused.
- Middleware: Vary is complete and without repeats; log and response match.
- Worker: nothing is closed under a handler; the pool serves everybody; a stop
  completes.
- Migrations: each file once and in order; "up to date" is true; the lock is
  always given back.

## 2. Modules

    Catalogue --- Ingest ......... implements AtomicUpload
        |   \
        |    |--- Bundle
        |    `--- Transactions ..... commits steps of Catalogue
    BoundedMap --- Serving
        |
    BoundedCache <.............. implemented by TTLCache
    RateLimit --- Pipeline
    Listing    Worker    Migrate

`MC*` modules give TLC values and symmetry sets; `*Proofs` modules hold theorems:
Catalogue-, Transactions-, Ingest-, Serving-, TTLCache- and PipelineProofs about
the module of that name (PipelineProofs also RateLimit), ReadProofs about Bundle
and Listing, DeployProofs about Migrate and Worker.

**Catalogue.** `categories` and `artworks` are functions from ids to rows, with
the columns that a statement or constraint depends on. A statement is one
action. Its triggers are part of it (`SyncCounts`, `AdjustArtworkCount`,
`RequireSubcategory`), and a constraint that fails disables it, since Postgres
then rolls the whole statement back. An admin handler on categories is one
statement, so it is the same action; its check of the input is a conjunct.
`Next` has what the admin API does, and plain INSERT, UPDATE and DELETE on
artworks. `EraseNext` is a DELETE of categories in psql, with its cascades.

**Transactions** takes these statements apart. `tx` holds each session's
transaction: the row versions it has made, which are also its locks, the
counters its trigger has still to adjust, the rows its recount has still to
write. `AdjustRow` and `RecountRow` are one row each, in any order, once nobody
else has it locked; an adjustment goes on from the newest version, a recount
writes the total of its snapshot. `Seed*` and `ResetStart` are the seed script,
one transaction of many statements. `Rollback` is a timeout, a lost connection
or an interrupt, and what Postgres fails by itself: a constraint, a deadlock, a
sequence at its end. `drifted` is history: whether a load or a raced
recount has put the counters off.

**Ingest** extends Catalogue with `create_artwork` and `delete_artwork` on one
worker. `req` is where each upload is (`putting`, `inserting`, `cleaning`, ended);
`put` is the state of each `Storage.put`, a task of its own; `permits` is the
semaphore; `bucket` holds the objects; `del` is where each delete is. `PutsFailed` leaves the other puts
running, as `asyncio.gather` does. `Faults` says what the environment does:
failing puts that may have landed, failing inserts, an insert whose commit is
not acknowledged, deletes that fail or report errors for some keys, a killed
worker, a cascade in psql. The id of the row an upload will
insert stands for the upload and for the uuid in its keys. `RenditionsOf` says
which renditions an image of some width gets.

**AtomicUpload** is the promise: an upload is accepted, then in one step public
and answered with success, or answered with an error and not public from then
on. A commit that is not acknowledged is the exception (`PublishUnheard`).
`Safety` is its initial states and steps, `Spec` adds that each is answered.

**BoundedMap** has the cache's operations as seen by its user: a set may cost one
other entry, and which one is open. **BoundedCache** turns them into a
specification. **TTLCache** is the OrderedDict, with move_to_end and popitem.
Entries keep the time they have left, so time is an action that ages them and
the state space stays finite.

**Serving** puts one BoundedMap in each worker. A body is represented by the
version of the catalogue it was read from. `StartBuild`, `Read` and `Respond` are the
stretches of `serve_json` without an await in them; `Commit` and `ClearResponseCache` the two of a
write handler, with `ClearSkipped` for one that raises in between.

**Listing** is `fetch_page`, `build_meta` and a client that follows `has_next`.
**Bundle** extends Catalogue with the three reads of `category_bundle`.

**RateLimit** counts tokens in sixtieths, so a second adds RATE_LIMIT_PER_MINUTE
of them in whole numbers; the code uses floats. `excess` remembers how far
a client's granted requests exceed the rate, over the worst interval so far.
**Pipeline** extends it with the layers around a handler, each an operator from
request and response to response: authentication and error mapping (`Handled`),
GZip (`Encoded`), CORS (`Shared`), request context (`WithContext`, `Logged`),
and the server's own error handler (`Answered`).

**Worker** is lifespan (`phase`), what its handlers have yet to await (`todo`,
from `Plan`), who holds a connection, and the calls to B2 under way (`puts`),
which may outlive their handler.

**Migrate** has runs that read `schema_migrations`, wait for the lock, go through
their release's files and end. `schema` remembers whose SQL took effect.

Operators commented "Wrong on purpose" are mutants: the same definition with a
plausible mistake. Each property is shown to notice one; they are no part of the
model.

## 3. Runs

Passing runs, with the bounds and why these suffice:

| run | shows | bounds |
|---|---|---|
| MCBundle | media stay on subcategories, counters are exact, nothing is cut silently | 3 categories: a root with both children, or a chain of three; 2 media, so each child holds one or one child both, and with limit 1 either exceeds the cap or not |
| MCTransactions | exactness under concurrency, commits are statements of Catalogue, no refusals, the seed script loads all of its plan or nothing | a root with both subcategories, 3 media (one there before, one of the script, one of an upload), 2 sessions, 3 transactions in all, so a recount, a write that overtakes it and one that follows; at most one counter off at first; two sessions meet on every counter |
| MCIngest | permits, published media, rollbacks, purges, rows against objects, counters after a cascade; refinement of AtomicUpload; every upload is answered | 2 uploads of up to 2 objects and 2 permits, so puts of both are under way while one waits; every fault |
| MCTTLCache | least recently used, refinement of BoundedCache | 4 keys for 3 places, TTL 2 |
| MCServing | staleness bound, spanned builds, convergence | 2 workers, 2 keys for one place, one build at a time, 2 writes, TTL 2, builds up to 1 tick after their read; section 4 has the two safety properties for any number of builds |
| MCListing | what a page walk can miss and repeat | 5 media, pages of 2 (a request for 3, clamped): up to 3 pages, full and partial, and pages past the end; 3 additions and 3 removals per walk, more than a page |
| MCPipeline | rate and burst; Vary; log against response | 3 clients for 2 buckets; burst 2, 24 per minute, so tokens come in fractions of 24/60; every outcome of a handler, with and without each layer that adds to Vary, each kind of id |
| MCWorker | pool, storage client and handlers over starts and stops | 3 requests for 2 connections, up to 2 puts each, with and without a storage backend; failures of every await |
| MCMigrate | once, in order, up to date, every run ends | 3 deploys: a release, one file more, and one edited file; failing SQL and kills |

MCBundle is also the run of Catalogue itself: its `Write` is any statement of `Next`.

Deadlock is checked where the system always has something to do. The catalogue
may stop once its ids are used up, and MCTransactions after its last
transaction, so neither checks it.

The other runs show where the code and its documents disagree. Each checks one
property, taken from the text it quotes:

| run | the text | what the code does |
|---|---|---|
| MCIngestOrphans | admin.py:235: "Never leave objects in the bucket" | a failing put leaves the others' objects |
| MCServingRefill | http.py:33: "the next read reflects it immediately" | a build that spans the clear stores the old body |
| MCMigrateTwins | migrate.py:7-8: the second deploy "finds nothing to do" | it applies the files again and fails |

The models also have these in them, without a run of their own:

- Deleting a subcategory leaves its media in the root's counter: the cascade has
  removed the category when the trigger of its media looks for the parent
  (002_triggers.sql:37, against :3-7, "a psql session cannot break them").
  `NeverUndercounted` is what holds: counters err on the high side only, so a
  later delete is not refused.
- A recount that finds drift computes totals in its snapshot, then waits for rows
  that others have locked, and overwrites their increments (002_triggers.sql
  :74-100). It touches only rows that differ in its snapshot, so over exact
  counters it is harmless; `ExactUnlessDrifted` says so.
- A 500 of the exception handler is sent from outside the middleware: no
  x-request-id, no Vary, no CORS headers (main.py:154-162), though main.py:88-89
  says the request id "wraps everything". An x-request-id or X-API-Key that is
  not ASCII raises (middleware.py:45, admin.py:45) and ends as such a 500; with
  the former the access log has the status the handler gave.
- A start that fails after the pool was opened leaves it open, as a failing
  storage.stop does (main.py:50-57); the process ends with either.
- A put that outlived its upload may still be under way when the storage client
  is closed (storage.py:131, main.py:56).
- A subcategory may have subcategories (admin.py:92, 001_init.sql:28-31 against
  README.md:32). On such a tree trigger and recount count a middle category
  differently. Hence the condition of `CountsExact`: roots, and subcategories without subcategories.
- Making a subcategory with media a root leaves media on a root: no trigger
  watches `categories.parent_id` (002_triggers.sql:25-27). So `MediaOnSubcategories`
  is stated of `Next`, which has no such move.
- `meta.truncated` compares the root's counter, a sum, with the cap of one
  subcategory (categories.py:148), so it may be set when nothing was cut.
  `NothingCutSilently` is the direction that holds.
- A purge that raises skips `clear_response_cache` (admin.py:256, 259). That is
  `ClearSkipped`, and `StalenessBound` and `Converges` hold with it.
- A purge that B2 reports errors for is answered as complete (storage.py:137);
  the model calls it `purge_incomplete`.
- After a lost commit the cleanup deletes the objects of a row that is there
  (admin.py:234-236); `PublishedHasMedia` is stated of uploads answered with 201.

### What holds nevertheless

Counters are exact on the categories of a one-level tree whatever else the tree
holds (`CountsExact`), and stay so under concurrent transactions
(`ExactUnlessDrifted`). All three connections of a bundle are taken one after
the other, so the pool cannot be exhausted for good (`EveryRequestAnswered`). A
row, soft-deleted or not, has its objects whatever crashed or failed, unless
its purge was asked for or its own request failed and deleted them; objects of
a medium answered with 201 lose their row only to a cascade that took its
category (`RowsMatchBucket`). The seed script takes effect as a whole
(`SeedTakesEffect`). A stale body is one whose build spanned a clear
(`StaleOnlyIfSpanned`), and never older than TTL plus build time
(`StalenessBound`). The second deploy fails, but applies nothing twice, and no
deploy reports a release that is not applied (`AppliedOnceInOrder`,
`UpToDateMeansApplied`).

### Fairness

- Ingest: weak fairness of each put and handler. The event loop resumes what is
  ready, and a call to B2 or Postgres ends, if need be by its timeout. A put
  waiting for the semaphore needs no more than weak fairness: while it waits
  with a permit free nobody else is bound to take it, and with finitely many
  uploads permits come free for good. Clients and faults have none.
- Serving: weak fairness of the clock and of builds. Nobody must read or write;
  `Converges` then follows from writes being finitely many (`MaxVersion`).
- Transactions: none. Nothing in this code orders the locks of script, triggers
  and recount; that waits for rows end is up to Postgres, which looks for
  deadlocks after `deadlock_timeout`. `SomebodyGoesOn` proves that such
  deadlocks are the only waits it has to end.
- Worker: strong fairness of `Acquire`, because asyncpg serves waiters in turn;
  weak fairness of lifespan, of statements and calls (timeouts end them) and of
  ready handlers. Nobody must send a request or a signal. A client that has begun
  must go on, though: Worker leaves out awaits on it, the body of a request that
  stalls and a response it does not read. uvicorn has no timeout for these and the
  Dockerfile sets none for a graceful shutdown, so `EveryRequestAnswered` and
  `StopCompletes` are about a worker whose clients finish what they began.
- Migrate: weak fairness of a run's steps, strong fairness of its lock request,
  because Postgres queues waiters. That a killed deploy is retried is not assumed.

## 4. Theorems

Eight modules, all proved by tlapm for every value of the constants. Every
safety property that a passing run checks is a theorem; the rest is liveness.
`RecountRepairsDrift`, `UploadsNeverStandStill` and `SomebodyGoesOn` are theorems
about what no run states.

**CatalogueProofs** (`Spec`): `TypeCorrect`, `MediaStayOnSubcategories`,
`CountersStayExact`. `CountsExact` is not inductive: a delete must not find a
counter below the truth, media of a nested category must not be counted, a
recount of a root reads its children only. `IInv` adds well-formed rows, existing parents,
media on subcategories and finiteness of the media. The argument: the media of
a category and its children are its *group*; one changed row adds to or takes
from each group what the trigger adds to or takes from the counter
(`MediaEffect`, `AdjustEffect`, `SyncEffect`, joined in `RowStep`). Three more lemmas
treat statements that touch no media, new categories (no row can refer to them) and
recount (a root's own media are none).

**TransactionsProofs** (`TxSpec`): `CountersExactUnderConcurrency`,
`TransactionsTypeCorrect`, `NoStatementRefused`, `EveryCommitIsAStatement`,
`SeedCommitsItsPlan`, `SomebodyGoesOn`.
Exact committed counters say nothing of what open transactions will commit, so
`XInv` keeps a ledger of each of them: what its rows change of the media a
counter counts is what it has put into its version of the counter plus what its
triggers still have to do; of a counter it has not locked it owes just the
latter. A recount nobody has raced holds the number that is right once it
commits, in its totals, in its version, or, where it found nothing to correct,
in the committed table. A commit moves one session's ledger into the tables,
and locks (`Apart`) are why that leaves the others' true. `SInv` says of
transactions of one statement which statement they are half way through, so
that what they commit is a step of Catalogue. Hence proofs and runs that take
statements as atomic speak of concurrent ones too, `raced` recounts excepted.
`SeedCommitsItsPlan` (all or nothing) is for transactions of many statements: `PlanInv` counts the
media the script has inserted into each category against the statements of
the plan behind it, and says that their ids are in nobody's table, which holds
after others' commits because no two transactions have a row in common.
`SomebodyGoesOn`: nobody waits but in a deadlock. Whoever can neither go on nor is failed by Postgres waits for rows, all of them locked by other
open transactions (`StuckSessionsWait`). If that were everybody, they would be
a deadlock, which Postgres looks for.

**IngestProofs** (`IngestSpec`):
- `UploadsKeepCountsExact`, since a step of a handler is a statement of Catalogue
  or leaves the tables alone, provided no category is erased (assumed as "erase"
  not in `Faults`).
- `CountersNeverFallShort`, with erased categories, for a seeded tree of one
  level (assumed). `UInv` adds that only roots have subcategories: the trigger
  of a cascaded medium skips a parent it cannot find, which leaves the parent's
  counter too high, and a recount sets the true number.
- `RecountRepairsDrift`, on the same tree: nothing but such a cascade takes counters
  off the exact numbers, and a recount restores all of them, from however far.
  It shares the lemmas of `UInv`: each step keeps the tree (`TreeKept`) and what
  a counter is above its media (`TallyKept`), or sets the true number (`TallyRight`).
- `NoPermitLeaks` and `IngestTypeCorrect`, under all faults: `PInv` adds that a
  request that has not started has no put under way, without which starting
  one could change the number of puts being sent.
- `PublishedAlwaysHasMedia`, `GoneStaysGone`, `RowsAlwaysMatchBucket`, under all
  faults: `MInv` tells the story of each upload. Where its request is decides
  which puts may still be under way (`PutsOf`), which objects must be in the
  bucket (`KeptOf`), whether there can be a row or a delete (`RowOf`), and when
  nothing may be left (`GoneOf`). For the last of the three `FInv` adds that a row
  has the category of its request, so that it goes only with that category.
- `UploadsNeverStandStill`, the safety part of `EveryUploadAnswered`: an upload in
  flight has a step to take (`CanGoOn`), or it waits for a permit, none is free,
  and puts that will give theirs back are being sent. From `PInv`, `MInv` and,
  for the constraints an INSERT must meet, `UInv`.
- `UploadsAreAtomic`: each step is one of AtomicUpload or a stutter, from `MInv`.

**ServingProofs** (`ServingSpec`): `NeverStalerThanTTL`,
`OnlySpannedBuildsAreStale`, `ServingTypeCorrect`. `SInv` bounds, beside stored entries, builds that
have read (by their age) and says that the current version is not outdated;
`CInv` says that a build not spanned has read all its worker has cleared for;
`CachesHold` that caches are finite and within their size.

**TTLCacheProofs** (`Spec`): `OldestGoesFirst` and `CacheIsABoundedMap`, the
refinement of BoundedCache. `CacheInv` is about order: a key is there once, all
keys behind an entry have been used since it was, and of a key that is not there
at least MaxSize others have. So when a set makes the sequence one too long, all
others are behind its head. `AtTheEnd` describes what a hit and a set have in
common; `EntriesThinned` what a removal does to the map.

**ReadProofs**:
- `NothingIsCutSilently` (`BundleSpec`). `BInv` carries what one read knew to the
  next: of each category of the bundle, media that were active when its counter was
  read are no more than the counter said, by `CountsExact`, and all others are in `arrived`.
- `SkipsAreBounded`, `RepeatsAreBounded`, `PagesMakeTheFeed`, `ListingTypeCorrect`
  (`ListingSpec`). A walk asks for places, and media change places. `LInv` is a
  ledger: of the media on the next page or after it, those seen before are paid
  for, with what was given twice already, by additions (`AgainIsPaidFor`); of
  those from the start, the ones neither seen nor ahead are paid for by removals
  (`MissedIsPaidFor`). An insertion before the next page pushes one medium over
  its edge, a removal pulls one, so either costs one and no more
  (`OneMoreAtMost`). Without changes what has been seen is the feed up to there
  (`SeenIsTheStart`).

**PipelineProofs** (`PipelineSpec`): `NeverOverRate`, `RefusedOnlyForCause`,
`PipelineTypeCorrect`, `LogAlwaysMatches`, `VaryAlwaysExact`. `RInv` is an equation: a client's tokens, refilled, and the
excess of its granted requests over the rate add up to the burst, so both
directions of the limit are one fact. It needs that a client has one bucket.
`LogMatchesResponse` is inductive; the proof is that layers within the request
context keep the status (`Inner`). `_merge_vary` is a recursive function; as
the layers add two tokens at most to a handler's one, it is unrolled
(`MergedThree`) rather than reasoned about by induction.

**DeployProofs** (`MigrateSpec`): `OneRunAtATime`, `FilesApplyOnceInOrder`,
`UpToDateIsTrue`. A run's own list may be old, but `MInv` keeps it within the
table, and every file the run has passed is recorded with its contents. So the
next file it applies, if not recorded, follows directly on those recorded.

**DeployProofs** (`WorkerSpec`): `WorkerTypeCorrect`, `NothingClosedUnderHandlers`.
`WInv` adds which of pool and client each phase leaves open, that handlers are
there only while lifespan serves, and that an upload under way has the storage
client, since its cleanup asks for it even when no put is left to await.

Assumptions on constants are the named ASSUMEs of the modules: NULL is no id and
no row, the cache holds at least one entry and not more than there are keys,
limits, the pool's and page sizes are positive, the seeded categories satisfy
the schema's constraints, the tree of Transactions and the seed script's plan
are one level deep, only writes meet constraints, and there are finitely many
keys (paths and queries, whose length the server limits) and media in a feed.

Only model-checked:
- Liveness: `EveryUploadAnswered`, the liveness part of `UploadIsAtomic`,
  `Converges`, `EveryRunEnds`, `EveryRequestAnswered`, `StopCompletes`. They need fairness and ENABLED, which are out of TLAPS's reach.
  Proved of the first is that nobody is ever stuck for good
  (`UploadsNeverStandStill`, with a guard for ENABLED); that who can go on does
  so, and that this comes to an end, is left to TLC.
- The three disagreements of section 3: a violation needs one instance.

## 5. Abstractions

- A statement is atomic, except in Transactions. There the tree does not change:
  a statement that reshapes it waits for nothing but its own rows, and is in
  Catalogue. A statement that finds its first row locked starts when it is free;
  foreign keys' share locks do not conflict with updates of counters.
- The seed script finds its categories already there, or puts all of them back
  in one step after the TRUNCATE, which keeps everybody else out. Ids of rolled
  back inserts are used again. A PATCH of a category writes columns no counter
  depends on (`Touch`).
- Preflight requests, 304s and the cut of a request id to 64 characters are left
  out of Pipeline; so is CORS_ORIGINS=*, which adds nothing to Vary.
- A connection that cannot be had fails like the statement on it (Worker). Clients
  never stall (section 3, Fairness).
- Names, texts, positions and timestamps are left out; so is the order by
  `created_at`, except that Listing lets new media come anywhere.
- A failed request that changed nothing is no step. Status codes, headers and
  the log are in Pipeline only; ETags and formatting are left out.
- Every response body is taken to depend on every write (Serving); a body that
  does not is equal to its successor and cannot be staler.
- Time is discrete: one tick per second in TTLCache, Serving and RateLimit.
  Requests come at ticks. Floats are exact numbers.
- Listing is without the response cache; with it, each page is as old as Serving allows.
- `CREATE TABLE IF NOT EXISTS` racing with itself in two first deploys is not
  modelled; a run then fails before it has read anything.
- Images come in a few widths, on either side of the renditions'; an image that
  Pillow cannot read fails the upload before anything is stored.

Not modelled at all, with reasons, are the `not_modelled` components of
`PROJECT.json`.

## 6. Plan

Done: the modules of section 2, in the order catalogue, uploads, cache, serving,
bundle, listings, limiter, migrations, then transactions with the seed script,
the layers around a handler, the worker's life and pool; the theorems of
section 4.

Next, most important first:

1. The seed script in `CommitsAreStatements`: `SeedTakesEffect` says what its
   commit leaves, not yet that this is a sequence of statements of Catalogue.
2. Serving over TTLCache: `BoundedMap` stands for the cache there, and the
   refinement proved for one cache should carry `StalenessBound` over to the
   OrderedDict by a theorem rather than by the reader.
3. What the clear guarantees, as an action property of Serving: after it, and
   with no build that spans it, no entry of its worker is older than the write.
