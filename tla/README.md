# A verification project for loghub

loghub collects security events, stores them per tenant in PostgreSQL, searches
them, and raises alerts. This directory holds TLA+ models of its own logic,
translated from the source, with the TLC runs that check them and the TLAPS
proofs of what matters most. Paths below are relative to `src/` unless they
name a module; `be/` stands for `backend/internal/`.

## 1. The system

| Component | State it keeps | Operations | Talks to |
| --- | --- | --- | --- |
| Collector (Vector, external; `ingest/vector.yaml`) | disk buffer of batches | send, time out, retry 5xx for ever, drop on 4xx | ingest API |
| Ingest (`be/api/ingest.go`, `be/store/events.go`) | requests in progress; `events` | read and normalize records, look tenants up, insert chunks in savepoints, answer | normalizer, database |
| Normalizer (`be/ingest`) | none | one record to one event: tenant, source, time, fields, tags; the defaults of an upload | ingest API |
| Search (`be/store/search.go`, `be/api/search.go`) | none; the cursor is the client's | one page of a filter | database, authorization |
| Counts (`be/store/counts.go`) | none | top values, timeline | database |
| Partitions and retention (`be/store/migrations/0001_init.sql`, `be/store/events.go`) | daily partitions, DEFAULT | create, move rows, drop, purge | jobs, database |
| Alert rules and firings (`be/store/alerts.go`) | `alert_rules`, `alerts` | create a rule, evaluate one rule over one window, list | database |
| Evaluator (`be/alerting`) | none between runs | a run over tenants and rules, webhook deliveries | jobs, alert rules |
| Jobs (`be/jobs`) | a goroutine and a ticker per job | start, run, stop | evaluator, partitions |
| Sign-in limiter (`be/limiter`, `be/api/auth.go`) | a map of buckets | take a token, sweep | sign-in handler |
| Sign-in, tokens, authorization (`be/auth`, `be/authz`, `be/api/policies.go`) | users; tokens are the clients' | sign in, authenticate, decide | every handler |
| Transactions (`be/platform/pg`, `be/store/postgres.go`) | open transactions and savepoints | begin, commit, roll back | every repository |
| serve (`backend/cmd/loghub/serve.go`) | servers and jobs | start, stop in order | all |
| Browser UI (`frontend/src`) | session and "alerts seen" in local storage, cached answers | sign in, page, mark seen | API |
| Caddy, Prometheus, Grafana | | configuration only | |

What is hard about it:

* **Ingest** - a request outlives its client, so a retry races it; a COMMIT may
  succeed and its acknowledgement be lost; a tenant may come or go between the
  lookup and the insert; one refused event must fail neither its chunk nor its
  batch, and must not be retried for ever. Correct means: a 200 accounts for
  every record, a batch is stored as a whole or not at all, and copies appear
  only where nobody could have known.
* **Alerts** - replicas, restarts and the transaction a dead process left open
  evaluate the same window at once; statements that insert several rows can
  wait for each other; runs are late, cut short or skipped. Correct means: a
  firing once per rule, group and window, delivered at most once, a cooldown
  apart, resting on enough events, and there in time.
* **Normalizer** - a field may be named by several keys, a header and the sender's
  address, each with a value of any kind, and rules of the table, its indexes,
  its partitions and its filters must all hold of what comes out. Correct means:
  the first usable value wins, what was dropped is tagged, what is accepted can
  be stored, and a filter finds it.
* **Search** - pages are separate queries while rows commit out of the order of
  their ids and old ones are dropped, and the client may change what it asks
  with a cursor. Correct means: the pages are one ordered result of the first
  page's question.
* **Partitions** - every backend runs the maintenance, each run checks before
  it locks, takes its date at its start, and races inserts, other runs and
  midnight. Correct means: events are where queries look for them and stay for
  as long as promised and no longer.
* **Authorization** - a token outlives what it says of its user; what a policy
  grants, what row-level security lets through, what a handler refuses and what
  it accepts for the table are decided in four places. Correct means: they
  agree, no answer depends on another tenant, and access ends in time.
* **serve** - a signal, a failing server, the deadline of the shutdown, requests
  and jobs that hold connections, and a pool that waits for all of them. Correct
  means: success is reported only if every request got to finish, no job finds the
  pool closed, and the process does exit.
* **Limiter** - readings of the clock reach the map out of order, and the sweep
  forgets entries. Correct means: it still is a token bucket per address, and
  the headers a client paces itself by are true.

`PROJECT.json` lists each hazard at its line with the properties that catch it.

## 2. Modules, and how they correspond to the code

| Module | Models | Composed of |
| --- | --- | --- |
| `TokenBucket` | what package limiter promises: the abstract specification | |
| `Limiter` | `Memory.Take`, `sweep`, `Limiter.Allow`, the headers | refines `TokenBucket` |
| `AlertEvaluation` | `AlertRepo.Evaluate`, `CreateRule`, deliveries | |
| `Alerting` | `jobs.loop`, `Evaluator.Run`, `WindowEnd` | `AlertEvaluation` with one evaluator |
| `Delivery` | what the events table and Vector promise each other: the abstract specification | |
| `Ingest` | Vector's sink, the ingest handler, `EventRepo.Insert`, `InTx` | refines `Delivery` |
| `EventSearch` | `EventRepo.Search`, `resolveSearch`, cursors, `eventFilter` | |
| `Partitions` | `loghub_maintain_partitions`, its job, inserts | |
| `EventCounts` | `EventRepo.Top`, `EventRepo.Timeline`, intervals and buckets | `EventSearch` |
| `Normalizer` | `ingest.Normalize`, `Defaults.Validate`, syslog and key-value lines | |
| `Authz` | package `authz`, the policies of `be/api/policies.go` | |
| `AlertRules` | the body of a new rule, its defaults, the CHECKs of its table | |
| `Access` | `Login`, tokens, the middleware, every handler's refusal or answer, row-level security, `seed` | `Authz`, `AlertRules` |
| `Serve` | `serve`: servers, requests, jobs, the pool | |
| `MC...` | constants, symmetry and views for TLC | the module named |
| `...Proofs` | theorems and proofs | the module named; `BackendProofs`, `Serve` and `Normalizer` |

Definitions called "Mutant" in a module are not part of the model. Each is a
plausible mistake in the definition next to it, and shows that a property
notices it (`PROJECT.json`, "mutants").

**Limiter.** `full` and `swept` are the fields of `Memory`. An attempt is two
steps, `ReadClock` (memory.go:27) and `Take` (under the mutex), since another
goroutine may come in between. Time is counted in units, so the code's float
`remaining` is `Spare / Interval`. `admitted` and `answer` are histories, of the
tokens taken and of the last answer. `MaxWait` bounds how old a reading may be
when it reaches the map; `WaitAssumption` keeps it under one token.

**AlertEvaluation.** An evaluator's `tx` is one transaction: `Count` is its
statement's snapshot (window, filter, threshold and the NOT EXISTS of the
cooldown), `InsertRow` inserts the groups in the order of `ORDER BY` and waits
for an open transaction that has inserted the same firing (ON CONFLICT),
`Commit` makes the rows visible, and `Deliver` POSTs each once. A transaction
may end otherwise: `Abort`, or `CommitUnacknowledged`, after which the evaluator
sends nothing. Windows are arbitrary, since replicas, restarts and clock steps
produce any order.

**Alerting.** Adds the clock, the ticker (which holds one tick and drops the
rest), runs over tenants and rules with a failure at each call, and stops. Time
is in half minutes in the runs. `missed` is a history: the last window a rule
was not evaluated over for a reason of its own. `MaxRun` bounds a run; one that
takes over a minute skips windows, which `Detected` excludes by assumption.

**Ingest.** `Content` fixes the records of a batch as "bad" (refused before the
insert), "unstorable" (refused by the database) or "good". A request in `req`
goes from `Send` through `Lookup`, `InsertChunk` and `InsertOne` to `Commit` and
`Answer`; `Fail` covers every error of the database that is not about an event,
`GiveUp` the client that stops waiting, `Crash` the process. Tenants and chunks
may be taken in any order. `unsure` counts the times Vector could not know what
became of a batch. `Delivery` is the same without requests: a batch is stored
whole at once or not at all, a copy more is paid for by a doubt, and a batch is
done with only when it is stored. Vector, and the deletion of a tenant by hand, are external.

**EventSearch.** `Insert` hands out ids in order, `Commit` makes any rows of
those open visible in any order. `FirstPage` and `NextPage` are one query each,
by any caller with any parameters `Queries` has; `Permitted`, `Tenant`, `Hash`,
`Accepts` and `Window` are the checks before the query, `Before` and `IsPage`
its ORDER BY and LIMIT, `CursorAfter` the next cursor. `stable` is a history of
the rows that were there from the first page on. A filter's other conditions are
the kinds of event it lets through, and its hash is taken to be injective.

**Partitions.** A run's record holds its date, the day it looks at, the rows it
is moving and the partitions it is to drop. `draft` is what the run with the
lock has changed and not committed; `NextDay` is `to_regclass` on what is
committed plus that. `Lock` is ACCESS EXCLUSIVE: it waits for the open inserts,
and new ones wait behind it, as PostgreSQL queues them. `Overtaken` is the
second of two runs that found the same thing to do. Row `parked` means it is in
DEFAULT. The first state is any database migrated some days ago.

**EventCounts.** Counts change nothing, so they are operators on the rows of
`EventSearch`, and what is said of them is an invariant of its run. `Width` is
`pickInterval`, `Truncate` is `Time.Truncate`; a field's values are numbers
that keep the byte order that breaks ties.

**Normalizer.** A text is a sequence of words, and what the code does with
characters is a table over the few words of an instance (`Blank`, `Long`,
`LowerOf`, `AddressOf`, `TimeOf` ...). The state is one input and its outcome:
the run's initial states are the inputs, and the one step is `Refuse` (the
defaults of an upload are not valid) or `Read`. The two readers make a list of
what the keys offer (`JsonOffers`, `CloudOffers`, `PairOffers`), in the order the
code consults them, and `Fill` takes each in its turn, as the loops do; `Set` is
the setter of a field. The properties do not speak of lists or loops: they are
stated over `Offers(f)`, the set of all that a record says of a field with the
rank the source documents for it. `TableAssumption` says what the tables share
with the functions they stand for: lower case is lower case, a cleaned word is
clean, and the words the code stores itself are both. It says nothing of
lengths: lower case may be longer than what it is made from (U+023A takes two
bytes, its lower case three), and the run has such a word. `FilterOf`,
`SearchRefuses` and `RuleRefuses` are what a search and a rule make of a filter.

**Access** (with `Authz` and `AlertRules`). A client signs in (`FindUser`,
`Issue`), holds one token, and makes one request at a time, whose answer is
`Answer(db, caller, op, asked)`; users, tenants and rows change under it.
`Isolation` is the policies of row-level security, which `Select` applies; `Can`,
`Scopes` and `Deny` (in `Authz`) decide for the handlers. `held` is a history:
when the user was last what the token, and the request, say of it. A rule's body is a function from keys to values,
`Problems` are the fields the validation refuses, and `Checked` the CHECKs of the
table.

**Serve.** `main` is the next thing `serve` does, with its deferred calls in
reverse. A request or a job queries several times, with a connection of its own
each time. `Deadline` may come at any moment of the drain; `late` remembers that
it did. A signal cancels the jobs' context with the process's own, so a job's
query may end aborted (`JobQueried`) before `StopJobs`; requests have contexts
of their own. A process killed at once is in `Ingest`, `Alerting` and `Partitions`.

## 3. What TLC checks

| Run | Bounds | Shows |
| --- | --- | --- |
| `limiter` | 2 keys, 2 callers, 2 attempts a minute, a minute of 4 units, clock to 4, readings 1 late | `Limiter` implements `TokenBucket`; attempts stay within the bucket, headers are true, quiet keys are forgotten (`AttemptsBounded`, `HeadersHonest`, `MapHoldsRecentKeys`) |
| `alert_replicas` | 3 evaluators, 2 groups, 2 windows | `FiringUnique`, `DeliveredOnce`, `WaitsUpwards`; every evaluation ends |
| `alert_edges` | 1 evaluator, 4 windows, 7 events at edges, of another tenant, kind and no group | `CooldownRespected`, `Justified` |
| `alerting` | 2 tenants, 2 rules, 4 events, 5 minutes in half minutes | `Detected`, `Timely` under failures and restarts |
| `ingest` | 1 batch of 5 mixed records, 3 requests, chunks of 2, 2 failures | `Ingest` implements `Delivery`; `AnswerHonest`, `DoneIsStored`, `CopiesBounded`, `ReportedFirst`; every batch is done with in the end (`EveryBatchDone`) |
| `event_search` | 5 events in 2 tenants, 3 rows, 7 sets of parameters, clock to 3 | `OneResult`, `NothingElse`, `NoneSkipped`; the dashboard counts what a search finds (`CountsAgree`) |
| `partitions` | 2 backends, 1 request, 2 events, 2 days of 2 instants, 1 failure | `Placed`, `NothingInBetween`, `Covered`, `KeptForRetention`, `Maintained` |
| `normalizer` | some 8,000 records of all sources: no, one or two keys for a field, values of every kind, lines, headers, wrong clocks, an action whose lower case is too long | `FirstUsable`, `Storable`, `Findable` |
| `access` | 1 account, 2 tenants and an id without one, tokens of 1, clock to 3, 6 rows, bodies one field away from a good one | `ReachExpires`, `LayersAgree`, `Isolated` |
| `serve` | 2 jobs, 2 requests, 2 connections | `OrderlyShutdown`: a request is cut only if `serve` returns an error, the pool closes after the jobs; `Stops` |
| `ingest_error`, `alerting_burst` | as `ingest`, `alerting` | two statements of the documentation that do not hold (section 5) |

The bounds are the smallest at which every hazard happens: two evaluators to
race and a third to be waited for behind them; a chunk boundary inside a
tenant's records, with a refused record before it; three requests for one batch
so that two are abandoned while a third answers; two events of one instant
across a page boundary; two backends either side of a midnight; a window that
starts within an interval; a token that outlives a change of its user; a
viewer's tenant, another one, and one that does not exist; a job and a request
that leave the other two no connection. Time is counted
in the coarsest units that tell apart what the code compares: a token and a
reading that is late by less than one; a whole minute and the lag of half of
one; a midnight and an instant before it. The clock in every model stops at a
bound, which only shortens behaviours; the properties of liveness are stated so
that a clock that has stopped is no excuse.

### Fairness

* `AlertEvaluation!FairSpec`: the database and a webhook answer in the end (an
  evaluation's statement has a timeout of 30 s, deliveries one of their own), so
  commits and deliveries are weakly fair. Inserts are strongly fair: a row that waits
  for another transaction is woken when that ends, and evaluators come back
  once a minute only.
* `Ingest!FairSpec`: Vector sends what it has buffered and retries without limit
  (vector.yaml:123), and the backend serves what it has open. Failures are
  bounded by `MaxTrouble` and never fair: outages end.
* `Partitions!FairSpec`: the job runs again every hour, a run's steps are those
  of one statement, and a request's transaction ends. A run that waits for the
  lock is in PostgreSQL's queue; weak fairness is enough because runs that find
  nothing to do never take the lock.

* `Serve!FairSpec`: goroutines run, the deadline's timer fires, and the database
  answers or fails a query, so `main`'s steps, the
  end of a query and the end of a run whose context is cancelled are weakly
  fair. `JobReturns` is strongly fair: `select` picks among a tick and a context
  that is done at random, and does not pick the tick for ever. That a query ends
  is an assumption about the database: searches and evaluations have a statement
  timeout and a job's queries a context that is cancelled, but nothing bounds an
  insert of ingest that waits for a lock except the database itself. Nothing is
  assumed of a client, nor of a run that is not cancelled.

Deadlock is checked in every run but three, where the code really stops:
`ingest` (all batches are done), `normalizer` (the record is normalized) and
`serve` (the process has exited).

The other runs check safety only, without fairness.

## 4. What is proved

TLAPS checks these for every value of the constants that meets the named
assumptions in the modules, not only for the instances above.

* **`LimiterProofs`** (from `LimiterAssumption`, `WaitAssumption`).
  `TypeCorrect`, `AttemptsAlwaysBounded`, `MapAlwaysRecent`,
  `HeadersAlwaysHonest` and `LimiterIsTokenBucket`. `AttemptsBounded` is not
  inductive: the invariant adds that each key's bucket has been paid for by the
  attempts in `admitted` (what is charged to an entry of `full` bounds any
  suffix of them) and that a key the sweep forgot has a full bucket. The
  refinement maps a level to how far `full` is ahead of the clock, an attempt
  that is refused and a sweep to stuttering, and `Restart` to `Reset`. A reading
  that is late costs at most that much, less than a token. The headers follow
  from lemmas on the two roundings (`RoundsUp`, `DivMonotone`) and from one
  invariant: the last answer of a key is a decision on some level at its time,
  and what the map holds of the key is no further ahead than that level says
  (`Told`); an entry that was swept is no further ahead than the clock.
* **`AlertEvaluationProofs`** (from `EvaluationAssumption`). `TypeCorrect`,
  `FiringAlwaysUnique`, `DeliveredAtMostOnce`, `WaitsAlwaysUpwards` for any
  number of evaluators, and `CooldownAlwaysRespected` for one (with two, two
  different windows within a cooldown can be counted before either is recorded).
  The invariant: a firing that an open transaction has inserted is recorded
  nowhere and in no other open transaction, what is being sent is recorded, was
  not sent and is sent by one evaluator only, and what was inserted is less than
  what is left. `FiringsAlwaysJustified`: events are finitely many and never
  removed, so a group that was selected keeps enough.
* **`AlertingProofs`** (from `ScheduleAssumption`). `TypeCorrect`;
  `IsAnEvaluator`, that the schedule implements `AlertEvaluation` with one
  evaluator, so that what is proved of any schedule holds of this one;
  `AlertsAlwaysTimely`; and `CrossingsAlwaysDetected`, for any tenants, rules
  and events. The invariant says that a transaction is of its run's window, that
  runs start a minute apart and at the latest on the tick they are due, that no
  alert is of a window not come to yet, that each window done with has its
  alerts, and that a crossed group of the rule at work is to insert, inserted or
  alerted on. The last four need `MaxDelay <= Lag` and `MaxRun < Minute`, which
  `Detected` itself assumes.
* **`IngestProofs`** (from `IngestAssumption`). `TypeCorrect`,
  `AnswersAlwaysHonest`, `DoneAlwaysStored`, `CopiesAlwaysBounded`,
  `AlwaysReportedFirst` and `IngestIsDelivery`. The invariant says, per request,
  that its records are exactly those to insert, inserted, rejected or bad, that
  what it inserted is good and what it rejected had a reason, and that an answer
  of 200 has its rows stored; it needs that stored counts only grow.
  `CopiesAlwaysBounded` counts what is stored, what the requests still open may
  store, and the failure Vector is about to learn of, against `unsure` and one:
  Vector waits for one request of a batch at a time. The refinement maps a
  commit, acknowledged or not, to `Store`, an answer of 200 that Vector gets to
  `Confirm`, a request given up and a crash to `Doubt`, and all else to
  stuttering. For `AlwaysReportedFirst`,
  a report is the two lists of what was found bad while reading and what the
  insert refused, each cut, then merged and cut again (`Listed`): nothing a list
  lost could have been kept (`CutMerged`). There is a lemma for each action and
  one, `Recorded`, for what a commit adds.
* **`EventSearchProofs`** (from `SearchAssumption`, `CountAssumption`).
  `TypeCorrect`, `AlwaysOneResult`, `NeverAnythingElse`, `NeverSkips`,
  `CountsAlwaysAgree`, for every page size, set of tenants and filters. The
  invariant: the cursor is of the search the pages are of (`CursorOfSearch`),
  and every stable row that is on no page is ahead of it (`RestAhead`).
  `CountsAlwaysAgree` holds of any finite set of rows: the buckets of a timeline
  are apart and cover its window, so each row that is found is in exactly one
  (`BucketsCover`), and the top values are numbered by how many are more
  frequent (`Numbered`).
* **`PartitionsProofs`** (from `PartitionsAssumption`). `TypeCorrect`,
  `AlwaysPlaced`, `NothingEverInBetween`, `AlwaysCovered`, `AlwaysKept`, for any
  number of backends, requests and days. The invariant: only the run with the
  lock has a draft, and the inserts are done when it has it (`LockOk`); what is
  committed, and what would be if the draft were, is placed (`PlacesOk`); what a
  run found stays as it found it until it commits, unless a run of a later day
  was faster, and it drops nothing newer than its cutoff (`DaysOk`); and a run's
  date is not ahead of the clock, so what its draft misses is old (`KeepsOk`).
* **`AccessProofs`** (from `AccessAssumption`, `TextAssumption`,
  `PoliciesValid`). `TypeCorrect`, `AccessAlwaysExpires`, `LayersAlwaysAgree`,
  `AlwaysIsolated`, for every set of tenants, accounts, bodies and rows. The
  invariant is about whom a token and a request stand for and since when; the
  agreement of the layers then follows from lemmas on what the policies grant.
* **`BackendProofs`** (the process from `ServeAssumption`, the normalizer from
  `InputAssumption`, `TableAssumption`). Of `Serve`, `TypeCorrect` and
  `ShutdownAlwaysOrderly`, for any number of jobs, requests and connections; the
  invariant adds that the deadline is a failure (`LateFails`), that what `serve`
  returns is not decided before it stops
  (`Undecided`), that a shutdown that was in time left no request behind
  (`ShutIsShut`), and that the pool closes after the jobs (`ClosesLast`).
  Of `Normalizer`, `FirstUsableWins`, `AcceptedIsStorable` and
  `StoredIsFindable`, for every set of inputs, whatever their keys, values and
  words. The state machine has one step, so its invariant only says that the
  outcome is what `Normalize` makes of the input (`InputKept`); the work is in
  the functions. `Fill` and `ParseKV` are recursive functions, and the induction
  on their length is done by hand: the numbers up to which a function like them
  exists are a set (`Filling`, `ParseKVIs`), and a set that has 0 and with each
  number the next has them all (`CountUp`, from the well-foundedness of finite
  sets). `Filled` says what a builder holds after n offers: the first that suits
  each field, and a tag for each that was refused before it. `Ranks` says that a
  list of offers is the set a property speaks of in the order of its ranks, and
  is shown for the keys of a record, the members of `cloud` and the pairs of a
  line (`JsonRanks`, `CloudRanks`, `PairRanks`); from both, `Reads` says what a
  field holds (`FilledReads`). The header of a line and `Enrich` come after and
  only fill what is empty (`HeaderRead`, `EnrichIs`). What a setter stores is
  trimmed, clean and short, and what `normalizeAction` makes of an action is
  still trimmed and clean, but perhaps not short (`Held`, `CleanIs`, `LowerHolds`,
  `ActionHolds`, `StoredIs`). This gives `AcceptedIsStorable`, which bounds every
  text but the action, and `StoredIsFindable`, by which every filter that spells
  a stored value is accepted but for a rule on an action that is over the limit.
  Nothing is assumed of what lower case does to a length.

Only model-checked: liveness (`EvaluationEnds`, `EveryBatchDone`, `Maintained`,
`Stops`), which needs ENABLED and fairness, out of this prover's reach. Every
other property of a passing run is a theorem. What is proved of `AlertEvaluation`
with one evaluator
holds of the schedule by `IsAnEvaluator`; it is not stated there again, since
tlapm does not open the theorems of an instance.

## 5. Where the documentation and the code disagree

* `store/events.go:68` says an error of `Insert` means that nothing was stored,
  and `docs/architecture.md:98` that nothing is stored when the database fails.
  When the acknowledgement of COMMIT is lost everything is stored; the collector
  retries, and the batch is in the table twice (`ingest_error`). `CopiesBounded`
  is what does hold.
* `docs/architecture.md:230` and ADR 0010 say that one burst fires once with the
  default cooldown. A burst shorter than the window, with enough events on both
  sides of the end of an evaluated window, fires twice (`alerting_burst`).
* `ingest/normalize.go:44` says that `maxText` is the longest text a field takes,
  and `api/alerts.go:27` that "Events hold no longer text", for which a rule with
  a longer one is refused. An action is measured when it is set
  (`normalize.go:512`) and put in lower case after that (`:133`): 1024 letters
  U+023A, 2048 bytes, are stored as 3072 bytes. No index holds an action, so the
  row is stored and a search finds it, but no rule can name it. The statement is
  `NoLongerText` in `Normalizer`; no run lists it, and TLC refutes it in a second
  when it is added to `MCNormalizer.cfg`. `Storable` and `Findable` state what
  does hold, with the action as their exception, and fail if any other field is
  stored over the limit.

## 6. Not modelled

`PROJECT.json` lists every component. Left out with a reason: generated code,
metrics, logging, configuration and error formatting (no state another part
reads); the commands `migrate`, `seed` and `healthcheck` (straight line); Caddy,
Prometheus and Grafana (configuration of other programs); cryptography; the
pages of the UI. Of the modelled parts: requests refused before their body is
read (401, 403, 413, 415), row-level security inside a transaction (a row of
another tenant cannot be written, so no state is added), the statement timeout
of a search (it fails, and changes nothing), and the free-text condition.

What the smaller models abstract or leave out:

* `Normalizer`: the JSON kept in `raw` is only told apart by where it comes from. A
  text is too long if one of its words is, so a text of many short words never
  is. Two things it showed that no document speaks of: a value in
  a line's header that is too long is dropped without a tag, since it has no key,
  and an RFC 3164 line with neither host nor tag loses its first word to `host`.
* `Access`: one client with one request at a time. The clock only moves forward. The check of a password, the signature of a token and
  a failing database are a choice between success and failure. Rotating the
  secret, which ends every token, the `limit` of a list and the case of JSON keys
  are left out.
* `Serve`: what a query does; SIGKILL; a second signal.
* The browser's session and its unseen alerts: React components and a query cache
  whose scheduling the repository does not state, so that a model would rest on
  assumptions about a library. Two hazards of `PROJECT.json` are theirs.

## 7. Plan

Done: the limiter, the evaluation of rules and its schedule, ingest, the
normalizer, search and counts, partitions, access, and the serve process, with
the runs of section 3 and the proofs of section 4.

Left, in this order:

1. `Session` - the browser's session and "alerts seen" in several tabs, with
   answers that arrive late and alerts that commit out of order, once it is
   settled what may be assumed of the query cache.
2. An abstract specification of the search, of which the detailed one is a
   refinement, as ingest is of `Delivery`.
