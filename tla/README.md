# Verification of devsec-brief in TLA+

The service collects security news from RSS feeds, indexes them in Postgres with
pgvector, and answers questions about them over HTTP with a language model at Groq.
This directory holds TLA+ models of its concurrent core, translated from the Python
source, with the TLC configurations that check them and TLAPS proofs of the
results that hold for every size of the system.

## The system

| Part | Code | State it keeps | Operations | Hard behaviour |
|---|---|---|---|---|
| Circuit breaker | `src/resilience.py` | state, failure count, opening time, under one lock | `allow`, `record_success`, `record_failure` | outcomes of older calls arrive in any state; a stream reports twice |
| Key pool | `src/groq_pool.py` | rotation cursor, per key usage, daily counters and cooldown | `_get_next_key` (locked), `record_usage`, `trigger_cooldown` (not locked) | check and use are separate steps; cursor and candidates have different lengths |
| Model calls | `src/groq_pool.py` | locals of a call: model, attempt, key, deadline | `execute_with_fallback`, `stream_groq_call` | retries, fallback and sleeps under one deadline; broken streams |
| Answer stream | `src/api.py`, `ask_stream` | queue, stop flag, answer so far, gauges | producer thread, response generator | disconnect, cancellation, ceiling and upstream error race with completion |
| Ingestion worker | `src/refresh.py`, `src/db.py` | advisory lock, `ingestion_runs` | `run_once`, `main_loop`, signals | crash, restart, lost lock session, recording without the lock |
| Feeds and articles | `src/fetch_feeds.py`, `src/db.py` | `articles` | `upsert_article` from concurrent feed tasks | the same URL in two feeds, each with a text of its own, old and new versions |
| Chunk index | `src/embed_index.py` | `article_chunks`, `parent_docs` | `sync_index` | two queries, a long computation, one transaction per article, crashes |
| Semantic cache | `src/db.py`, `src/rag.py` | `semantic_cache` | lookup, save, trim | expiry, eviction, concurrent saves |
| Retrieval and `/ask` | `src/rag.py`, `src/api.py` | none of its own | search, fusion, rerank, parents, generate, persist | each step may fail; chunks change between statements |
| Rate limiter | `src/resilience.py`, `src/api.py` | tokens and time stamp per client | `allow`, `retry_after_seconds` | the clock is read before the lock is taken; a refusal and its advice are two locked sections |
| Database pool, readiness | `src/db.py`, `src/api.py` | the pool, the cached verdict | open, close, borrow, probe | a database down at boot, connections that a restart has broken, a verdict many probes share |
| Migrations | `src/migrate.py`, `docker-compose.yml` | `schema_migrations` | apply, record | crash between the two, two starters |
| Chat client | `devsec-brief-frontend/hooks/useChat.ts` | sessions, current request | send, stop, switch, clear | overlapping requests, late cleanup |

The parts meet in three places. A request of the API takes a key from the pool and is
admitted by the breaker, whose state all threads of the process share. The answer
stream pulls from the token generator that `stream_groq_call` returned, in a thread of
its own, and its closing or breaking is what the breaker hears last of the call. The
ingestion worker and the API meet only in the tables: chunks are replaced while they
are searched. The migration runner and the API meet twice: in the schema, and in the
condition on which Compose creates the API container.

## Modules

### Clock, CircuitContract, CircuitBreaker

`CircuitBreaker` has the three fields of the class (`circuit`, `failures`,
`openedAt`), a clock, and the set `admitted` of calls that `allow()` let through.
The three methods run under one lock and are one relation each (`AllowCall` and
`RefuseCall` are the two results of `allow`). The actions `Start`, `FailFast`,
`Succeed`, `Fail` and `Close` are the calls that use them: after reporting, a call may
go on, because a stream that opened reports again when it ends.

`CircuitContract` states what a caller relies on with two variables: a streak of
failures and a time before which no call starts. `ImplementsContract` maps the failure
count to the streak and the opening time to the deadline.

### TokenBucket, MCResilience

A request is a handler in `step`: `Arrive` is the reading of the clock before the lock,
`Grant` and `Refuse` are the locked part of `allow`, `Advise` is `retry_after_seconds`, the
second locked section. The computation under the lock is `Refilled` and `Store`; the code
stores the reading even when it is older than what is there, and so does the model. Tokens
are whole numbers of sixtieths (`Minute`), which makes the refill of a second an integer; what a
float rounds below that is left out. `granted`, `since` and `rewound` are a
meter that may be reset at any time, so that its bound holds of every period; `retryAt` is the
earliest time a client was told to come back.

`MCResilience` puts the limiter and the breaker in one process with one `Clock`.

### KeyPool, GroqPool

`KeyPool` holds the keys: usage stamps of the last minute, daily counters, cooldowns,
and the cursor of the rotation. The choice of `_get_next_key` is a function of the
state (`ChosenKey`, `ScanLength`), so it can be compared with what it should return. Candidates
are a set, whose n-th element `Nth` picks in the order of the keys, the order of the list in the code.
The code drops usage stamps that are too old when it looks at them; the model keeps them and counts
those within the window (`Recent`, `Rpm`), as a stamp that has left the window never comes back.
Token counts are multiples of one estimate, so they need no stamps of their own. The container runs CPython 3.12, where the list comprehension of `is_available` and its
assignment cannot be split by another thread's `append`; the model relies on that.

`GroqPool` adds the threads. A thread's `pc` follows `execute_with_fallback`: `attempt`
(deadline test and key choice, one step because the choice is under the pool's lock),
`use` (usage is recorded outside the lock), `calling`, then one action per class of
outcome that `_classify_error` distinguishes, `giveUp` for the final
`record_failure`, and `streaming` for `token_generator`. The breaker's fields are
variables of this module and its methods are those of `CircuitBreaker`, taken by
instance; `UsesBreaker` checks that the pool is one of the callers `CircuitBreaker` describes.
`late`, `forced` and `streamFailures` are history variables.

### SseContract, SseStream

`SseStream` is one response. The event loop can interleave or cancel the generator only
at its awaits and yields, and each value of `pc` is one such point. The producer thread
is interleaved at the upstream read (`PullToken`, `PullEnd`), the test of the stop flag
(`TestStop`) and the bounded put (`Put`, `PutTimesOut`). The client may leave and the
ceiling may pass at any moment. `Cancel` is Starlette dropping the response; a database
write or a queue read that was handed to a worker thread is not taken back by it
(`Cancel` with `WriteRow`, `OrphanedGet`). `NeverStarted` is a response dropped before its
first iteration. A cached answer takes the `cachedStream` path.

`SseContract` is the order of events that the repository's README promises, with what is
kept of the exchange. The refinement mapping reads the phase off `pc`.

### Ingestion

Workers run `run_once` in the loop of `main_loop`. `rows` is `ingestion_runs`; the age of
a row is one bit, older than thirty minutes or not. The three outcomes that the feed
results decide are a choice. A crash ends the sessions of a worker and with them the
lock. `SessionLost` ends only the session that holds the lock: the sweep, the fetch and
the index of that worker use other sessions and go on, and only the unlock raises.
A statement that fails may have taken effect: a run may be registered whose number never arrives
(`RegisterUnseen`), and a run may be closed although the worker takes its record for failed and goes on
to its handler (`RecordError`, then `RecordFailure`).

### ArticleIndex

An article is its URL; a text of it is a version number, and `hash` is the version that
`content_hash` was computed from. Each feed that carries the URL has a version of its own, which it may
change, take up or drop at any time (`published`, `Publish`). Feed tasks are the concurrent tasks of
`fetch_all_feeds_async`; `Look` and `Write` are the statements of `upsert_article`, and a statement that fails
ends the entry (`SaveFails`).
A sync reads its two queries in two steps (`Count`, `Load`: the connection is in read
committed mode), and replaces one article per transaction. The `DELETE` fixes which rows
it removes when it runs (`dropped`), so that two overlapping syncs, where they exist,
behave as Postgres lets them. `Blank` is the set of versions whose text is white space and yields no
chunks: a sync with no other target returns early (`LoadNothingToEmbed`), and in a sync with others the
transaction of the blank one deletes and inserts nothing (`NewRows`). A transaction that fails may have
been committed (`RollBack`). `Exclusive` says that callers hold the advisory lock, as
the ingestion worker does. Left out is `parent_docs`, which the same transactions delete and insert; also a
blank text has a row there.

### ChatClient

The page runs one task at a time, so a user event, a timer or a piece of a response is
one action. `order` and `messages` are the chats, `req` is where the asynchronous body of
each `send` waits: the stream's head, the body of a refused response, tokens, or the JSON
answer; `sent` counts the requests, so that the next one is new. An abort rejects whatever the request waits for within the same task, so `StopRequest`
contains the whole way out of `send`; this rests on fetch and stream readers
rejecting synchronously, as their specifications have it. Handlers are closures of the last rendering
(renderings are taken to follow each task at once), except the send that `regenerate`
defers by 50 ms: `Resend` takes the chat and the idle status of the moment of the click. That is the one
way to two requests at a time, and `overtaken` remembers it. `Reload` restores what
`saveSessions` kept. Left out: the health indicator, settings, theme, titles, sources and metrics of a message,
and the previous question that is put before a short one.

### AskPipeline, MCAskPipeline

`/ask` statement by statement. Connections are in autocommit mode, so the lookup and the
count of a hit, the insert and the trim, and the two chat rows are separate actions, and each may
fail as its handler provides, before it took effect or after: an exact lookup that fails is dropped, a
semantic one ends in 503, writes after the answer are only logged. `table` is a set of rows, each with the request that
inserted it and its `updated_at` (`at`, from a `NOW()` that is later than every row's); which row is nearest is a
relation `Near`, in which a question is nearest to itself.
An answer is what it was made from: question, topic, and the chat whose history the model saw, which is the
last four of the last six turns of that chat (`Said`, `Given`). The answer that is cached keeps that chat as its
`context`: a cached answer may continue the conversation of another asker, and nothing promises that it does not.
`EarlierRows` and `EarlierTurns` are what previous traffic has left. What retrieval finds is a
choice between failure, nothing and something; the cache is on.

### Database, Migrations, Readiness, Service

`Migrations` is `migrate()` statement by statement: the connection is in autocommit mode,
so a statement of `init_db`, the version table, each record and each file are
transactions of their own. `phase`, `at` and `seen` are the locals of a runner; version 0
is the baseline. Any number of runners overlap; a file may fail (`FileFails`), and any other
statement may fail or the process die (`Die`).

`Readiness` is `GET /health/ready`. A handler's `probe` is where it is: asking the cache, waiting for
`_ready_lock`, borrowing a connection, querying, and back on the event loop with a result.
The pool is `psycopg_pool`'s as `db.py` relies on it (external in the map):
connections are opened when a borrower finds none, handed out untested, and replaced when they
come back broken (`stale`). `min_size=0` is why `OpenPool` waits for nothing. The models
are loaded when the process starts, so `models_ok` is constant and left out.

`Service` composes the two over one `Database`: the conditions of `depends_on` create the API
container (`CreateApi`), its process may stop and start without them (`restart:
unless-stopped`), the database may stop and start. Runners are followed until the container is created.

## Runs

| Run | Instance | What it shows |
|---|---|---|
| Resilience | 2 calls, threshold 2, recovery 2, 3 failures; 1 client, 2 handlers, minute 3, rate 2, burst 1; clock to 4 | the breaker's contract, the bound on grants, the honesty of Retry-After |
| GroqPool | 2 threads, 2 keys, 3 models, 2 attempts, limit 1 | deadline, overshoot, broken streams, protocol with the breaker |
| KeyRotation (violation) | 1 thread, 3 keys, role with 2 of them | the choice misses an available key and takes one over its limit |
| SseStream | 4 tokens, queue of 2, cache on | whole answers only, order, ceiling, gauges, contract, both sides end |
| Ingestion | 2 workers, 2 runs, 2 faults | exclusion, sweeps, outcomes, closing |
| IngestionOverlap (violation) | the same | runs overlap after a lost session |
| ArticleIndex | 1 article, 2 versions, 2 feeds, 2 syncs, 1 fault | atomic replacement, convergence of feeds that agree |
| ArticleBlank | 2 articles, 2 versions, one of them blank, 1 feed, 1 sync, 2 faults | chunks are lost only to a blank text, every article with a text is indexed |
| ArticleReembed (violation) | 1 article, 1 feed, 1 sync | changed articles keep old chunks |
| ChatClient | 3 requests, 2 chats, 1 stored, 1 reload | every pending message has a request, busy flag and Stop belong to it, the page becomes idle |
| AskPipeline | 2 requests, 1 earlier row and exchange, 2 near questions, 1 topic, 1 chat, cap 1 | size of the cache, answers served fit, turns kept are of answered requests |
| Service | 2 runners, 2 statements, 2 files; 2 probes, 3 connections, cache 2, lag 1 | records true, API on a complete schema, recent verdicts, recovery |

Each bound is the smallest at which the case in question happens twice: two threads
may pass one limit together, a threshold of two needs two failures and a third after the
opening, a queue of two fills while the producer holds another event and one is with the client,
two faults are a crash during the recovery from the first one. Syncs are identical, and articles meet
only in the targets of a sync: one article with two versions shows the races of two feeds and two syncs (there a
fault is a lost insert, a rollback or a crash, and the feeds' races need none), while a blank text, whose effect
depends on what else the sync has to replace, needs a second article, and a crash and a lost reply of the commit.
In the page, three requests are an answered one, the one that overtakes a Retry, and the Retry; one
stored chat of two makes a reload drop one. A cap of one row with an earlier row is exceeded by two.
One client is enough for the limiter, whose buckets are independent: two handlers overtake
each other, and a rate that does not divide the minute tells a rounded advice from an
honest one. Three connections are one for each probe that may hold one (the lock admits one at a time) and two for
requests. Two files are one applied without its record and the next one.
`MaxUses` bounds uses of a key per window when a call begins; a call that has begun is not
bounded.

### Fairness

Breaker, limiter and key pool have no fairness: they state safety. In `SseStream` the
producer, the response and the passing of the ceiling are weakly fair: the event loop and the thread are scheduled, and
upstream reads end because the client library has a timeout. The client may leave at any moment; as long as it is there,
what the response yields is assumed to be sent. In `Ingestion` each worker's `run_once` and its restart
(`restart: unless-stopped` in `docker-compose.yml`) and the passing of time are weakly fair; signals,
crashes, errors and lost sessions are not, and are bounded. In `ChatClient` the timer and each response are
weakly fair (`ResponseCloses` of `SseStream` is the server's side of it); the user is not, and `AskPipeline`
states safety only. In `ArticleIndex` each
feed fetches each article again and again (strong fairness, as other entries of the document come between)
and each sync, which other syncs may exclude, is strongly fair: the refresh loop calls both for ever. What publishers do
is not fair. `FeedsConverge` is therefore a conditional: once some feed keeps an article in one version and no other
feed has a different one, the table gets that version. Feeds that go on disagreeing about a URL overwrite each other for
ever, and an entry that rolls off its document before it is read is never stored. `EveryArticleIndexed` is of articles whose stored text in the
end always has chunks. In `Service` the workers of the pool
(`Grow`, `Connect`), the handlers of probes and time are weakly fair; requests, runners, the
process and the database are not. `Recovers` is therefore a conditional: if in the end the
database stays up, the process lives and requests have returned their connections, the verdict becomes
ready and stays.

## Disagreements with the code's own claims

* **Rotation with role groups** (`groq_pool.py:216`, run KeyRotation). The cursor wraps at
  the number of all keys and is then reduced to the candidates of the role. With three
  keys and two candidates, positions 2 and 0 are the same candidate, so the scan may
  inspect it twice and miss the other. It then returns the key whose cooldown ended first: one that is
  over its request limit, although the other is available. (It is not one that is still cooling down.)
* **Overlapping runs** (`refresh.py:69`, run IngestionOverlap). The advisory lock belongs
  to one session and the work to others.
* **Changed articles** (`embed_index.py:113`, run ArticleReembed). The stored hash is
  compared with the hash of the stored text. `upsert_article` writes both, so they differ only for an
  article that is updated between the two queries of a sync.

More was seen while modelling and has no run of its own. `/ask` caches an
answer that was made with the history of one chat under its question alone (`Generate`, `Insert`), and serves it to others. An
article whose stored text is blank is a target of every sync for ever, and one that becomes blank between the two queries of a sync loses its chunks
in the normal course (`Commit`). A stream that ends in order without a
token leaves an empty answer, although the comment at `useChat.ts:347` announces a fallback
"if stream produced nothing" (`SilentStreamCloses`). A request that the server refuses, for
example with 429, ends with "The backend is unreachable" (`JsonFails`). Two clicks or a click and a send
within the 50 ms of `regenerate` start two requests, of which Stop reaches one (`Resend`, and why
`BusyMatchesRequest` has its premise). `migrate.py:5` says that files are "applied exactly once":
a runner that dies between the file and its record, or a second runner, applies one again (`Apply`),
which only `IF NOT EXISTS` makes harmless. A limiter whose handlers overtake each other sets `updated_at`
back and refills an interval twice; `GrantsBounded` counts by how much (`rewound`).
`lifespan` swallows a failed opening and says requests recover (`api.py:55`); this is true because
`min_size` is 0: with one connection to wait for, the failed opening would close the
pool for good (the mutated form `OpenPoolWithConnection`).

## Proofs

Each proof module extends the module it is about. The only assumptions are those the
modules state on their constants.

`ResilienceProofs`, the breaker: `BreakerInv` is the conjunction of the three invariants, which is
inductive as it stands; the half-open case of `record_failure` needs the agreement of
state and counter, and the `Start` step of the refinement needs `HalfOpenOnlyAfterRecovery`.
`BreakerImplementsContract` shows each action to be an action of the contract, `FailFast` to be a stutter.

The token bucket, in the same module: what was granted and what is left of the bucket together are bounded by
the burst and the refill of the time up to `updated_at`, counted again where it was set back; this
account is inductive and gives `GrantsStayBounded`. `AdviceIsHonest` needs that tokens and the time they are counted from
never fall behind what was promised at `retryAt`: an update with an older reading refills nothing and moves
the time back, so a later one refills more, never less.

`IngestionProofs`: the checked properties are not inductive. `IInv` adds that a worker in its
cycle with a live session holds the lock (`LockProtects`), that a worker has a
run number exactly after `start_ingestion_run`, and that the row it will close is its own and
is running or interrupted, unless the worker is in its exception handler, where its own record may already have closed it
(`OwnRunIsOpen`). The last one is what `ClosedRunsStayClosed` rests on; the first two give `LockExcludes` and
`SweepSparesLiveRuns`. The theorems hold for any number of workers, runs and faults.

`AskPipelineProofs`: what is served and what is kept is decided a step before the properties
speak of it. `FoundFits` says it of a row that was found and not yet counted, `QuestionSaved` of a
request about to save its answer; with them `ServedFits` and `TurnsAreOfAnswered` are inductive.
Of `AskAssumption` these use that a question is near itself and that earlier requests are others.
`TableStaysBounded` is an account of rows: an insert adds at most one and puts its request on the way to the trim, a hit
replaces a row, a trim that fails or, after an insert whose reply is lost, never runs is counted. A trim that runs keeps the rows with fewer than `Cap` hotter ones, and
they are at most `Cap` because among any set of rows one is colder than all others (`Coldest`): no two rows have the
same time. For this the invariant `Cached` keeps the table finite, its rows distinct by request and by time, and says that a request has a
row of its own only after its insert (`Inserted`), so that an insert never finds its row there.

`ServiceProofs`: `RecordsAreTrue` needs where each runner is: one past the baseline has built all of it, one
at a file has every earlier file applied, and what it has `seen` is recorded. With the recorded versions of a successful runner this
gives `ApiHasItsSchema`. `ReadyAnswersAreRecent` needs that a stored verdict is as old as its answer up to the
lag, and that a result which waits for the event loop is not older than the lag.
`ServiceTyped` adds that the connections which are broken or idle are always among those there are. All
hold for any number of runners, statements, files, probes and connections.

`SseStreamProofs`: `Flow` is what makes a kept answer whole. While the response loops, the client has the first
tokens, the queue the next ones and the producer possibly one more; a done event comes only from
a producer that has pulled them all, behind them in the queue, and only from an answer that is complete. The loop takes
that event last and from an empty queue, so `Flow` holds until the clean-up and `NoTokenLost` follows from it;
`Whole` carries its result into the rows that are written. `Late` says that a wait
begins before the ceiling, `Paths` which flags and rows each place allows. The refinement maps producer, waits, heartbeats
and cleanup to stutters and needs `Flow` twice: a token never exceeds the length, and done means that all were told.

`ArticleIndexProofs`: both properties are about the commit of one article's transaction, which removes the rows its
DELETE fixed earlier. `OwnRows` says that those are rows of that article whoever else is at work. A commit puts a row in their place unless
the text that the sync loaded is blank, so only such a transaction of its own takes an article's last chunks: this is
`IndexedForGood`. With the lock (`Alone`) the deleted rows are all of the article's (`AllRows`), which `OneGenerationAlways` needs.

`GroqPoolProofs`: the deadline follows from `Lateness` (a late call has passed its deadline and cannot get another key, as
the clock does not go back). The bound on broken streams counts, together with the failures, the
streams that can still break (`Accounts`). `PoolUsesBreaker` maps every step of a thread to an admission, an outcome,
a return or a stutter of `CircuitBreaker`; the bound on the failure counter that the model puts on both is kept by the same
accounts. Threads are finitely many.
`OvershootStaysBounded` needs the uses that are still to be recorded: `Overshoot` counts them with the recorded ones. A
thread that is given an available key finds fewer than the limit recorded, and at most all threads are about to record one;
recording moves a use from one count to the other; time only takes stamps out of the window. That every choice is
a key of the pool (`ChoiceIs`, for `TypeCorrect`) needs that a set of keys has an n-th element for each n below its size
(`NthIs`). Over all keys the scan meets each key (`ScanCoversKeys`), so `RotationFindsAvailable` proves for any
number of keys what the run KeyRotation refutes for a role with two keys of three: role groups are what breaks the rotation. Under its assumptions on threshold and recovery time, the theorems of `ResilienceProofs` about the breaker thereby hold of the breaker inside the pool.

`ChatClientProofs`: `Backed` is the induction behind `PendingHasRequest`. An answer that waits stands in the chat of its request, and
that request is in flight or was cut off by a reload, so the one patch by which every end of `send` settles the
answers of its request in that chat leaves none behind; `Counted` keeps a new request apart from all that messages speak of.
`BusyMatchesRequest` is inductive as it stands. `TypeCorrect` includes that no chat is listed twice, which rests on
the list being sorted by age (`Sorted`).

Every invariant and every safety property of the passing runs is thus a theorem. Model-checked only are the liveness properties
(`ProducerStops`, `ResponseCloses`, `EveryRunIsClosed`, `FeedsConverge`, `EveryArticleIndexed`, `BecomesIdle`, `Recovers`): they
rest on fairness and so on ENABLED, which is out of the provers' reach. The three violations are counterexamples of TLC.

## Not modelled

Configuration, logging, metrics formatting, text sanitizing and the evaluation scripts keep
no state that the properties are about. Backup, replication, monitoring and deployment
are external programs. Frontend components render. `retry_call` is used by tests only.

Of modelled parts: the ranking of retrieval (`rrf_merge`, temporal decay, the reranker) is
arithmetic on floats and the output of a model, which no property of ours can tell right from wrong, so
`AskPipeline` takes what retrieval finds as a choice. A database that hangs without
ending its sessions can hold `_ready_lock` for as long as the operating system takes to
notice, and the pool's closing of idle connections changes nothing a probe can see. `close_pool` at shutdown
may meet a thread that outlived its request. Runners started by hand beside a
running API repeat what is there.

## Plan

1. Proofs: what the service promises across modules, beginning with the breaker's contract for the threads of the pool.
2. The refresh worker and the API in one model: chunks that are replaced while they are searched.
