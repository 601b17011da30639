# Utsuroi in TLA+

Utsuroi watches feeds, sitemaps and pages and posts what is new to Discord. It
runs on Cloudflare Workers: an HTTP API and a cron handler (`src/src/index.ts`),
three kinds of Durable Object (one per monitor, one per host, one per crawling
executor), a D1 (SQLite) database, an R2 bucket and a queue. Hardly any of its
difficulty is in one function. It is in what happens *between* two awaits: every
D1 call is an interleaving point (the input gate of a Durable Object only covers
the object's own storage), every isolate may die between two calls, the queue
delivers at least once, alarms are single and overwritten, and a home machine
that fetches pages may vanish at any time.

Paths below are relative to the repository; `src/src` is the Worker.

## 1. Inventory

| Part | State it keeps | Operations | Correct when |
|---|---|---|---|
| **MonitorObject and the check** (`do/monitorObject.ts`, `pipeline/runCheck.ts`, `pipeline/reconcile.ts`, `db/monitors.ts`, `db/jobs.ts`) | `monitors.status / next_run_at / last_checked_at`, `check_jobs`, one alarm, the in-memory `running` flag | `alarm`, `runNow`, `pauseMonitor`, `resumeMonitor`, PATCH, DELETE, `reconcileMonitors`, and the ten or so D1 writes of one check | a slot is fetched once; a stopped monitor is not fetched; no job is left running; an active monitor is checked again and again |
| **HostObject** (`do/hostObject.ts`) | `activeLeases`, `lastAcquireAt`, `nextAllowedAt`, `failureStreak`, `circuitOpenUntil`, `halfOpenProbeLeaseId` | `acquireLease`, `releaseLease` | two leases, spaced accesses, one probe, nobody locked out for good |
| **CrawlerObject** (`do/crawlerObject.ts`, `fetch/homeHttp.ts`, `api/routes/runner.ts`) | SQLite rows of jobs and runners, one alarm; in memory the waiting promises and the timers | `submitAndWait`, `lease` (long poll), `complete`, `heartbeat`, timers, `alarm`, reset | each page handed out at most once, each caller answered exactly once, each row closed |
| **Home runner** (`src/executors/home-runner`) | the slots, the jobs in flight with their results, the stop | heartbeat loop, lease loop, fetch, send and resend, `stop` | slots are never overdrawn, every job taken is ended, it asks for work again and again, a drained runner holds nothing |
| **Notification delivery** (`pipeline/notify.ts`, `db/notifyStore.ts`, `notify/batch.ts`, `db/deliveries.ts`) | `deliveries.status / attempt_count / claimed_at`, queue messages | fan-out, claim, POST, mark, retry | one consumer at a time, one accepted POST and one more at most for each that the code could not hear of, settled stays settled |
| **Content processors** (`pipeline/feed.ts`, `pageItems.ts`, `pageContent.ts`, `sitemapDirect.ts`, `notify.ts`) | `targets` and their watermarks, `snapshots`, `changes` | one recipe per check | the baseline is silent, nothing announced twice, nothing forgotten |
| **Sitemap traversal** (`pipeline/sitemapTraversal.ts`) | watermarks of child sitemaps | gate, fetch, process, budget | no child starved or skipped |
| **Enrich and classify** (`pipeline/enrichTitle.ts`, `classify.ts`, validation in `api/routes/sources.ts`) | `sources.config`, `changes.title` and tags | validate, create, replace; per check detect, title, tags, fan-out | a configuration fits the recipe that reads it; the deliveries of a change go by one set of tags |
| **Fetcher policy and fetchers** (`fetch/policy.ts`, `fetch/http.ts`, `gcpHttp.ts`, `homeHttp.ts`, `pipeline/fetchTarget.ts`, `executors/shared`, `rpc/fetchPage.ts`) | per check: the pull time used, the executors found unavailable | attempts, retries, redirects, waits | attempts are what the policy asks for; every hop is checked; waits end within the lease |
| **robots.txt** (`robots/*`, `pipeline/robotsCache.ts`, `db/robots.ts`) | `robots_cache`, evaluations of an origin | parse, longest match, cache | the precedence of RFC 9309; a decision rests on a current answer |
| **Adapters, normalisation** (`adapters/*`, `normalize/*`) | none | parse, extract, diff | a page yields the items its elements show |
| **Administration API** (`api/routes/*`, `db/*`, `db/audit.ts`) | rows of D1 with their foreign keys, `audit_events` | create, change, archive, delete with cascades, PUT of a policy | deletions succeed, a policy is one PUT's, the log says what was stored, history stays |
| **Authentication** (`api/auth.ts`) | per isolate: the cached keys of Cloudflare Access, one refresh | find a key, refresh | current keys only, and none that is published is missed for long |
| **Executor tokens** (`fetch/executorToken.ts`, `executors/gcp-http/src/jwt.ts`) | per instance: the identifiers accepted | sign, verify, purge | one use each |
| R2 bodies; HTTP server of gcp-http; browser UI | little or none | | |

**Interactions.**
A *check* starts in a MonitorObject (alarm, manual run), reads and writes D1,
asks robots.txt, takes a lease from the HostObject of its origin, fetches by the entries
of the site's policy (through the CrawlerObject when the fetcher is the home executor, which is a wait of up to
55 s), gives the body to a content processor, which writes targets, snapshots and
changes and calls `fanoutChange` for each change (after titles and tags); that inserts deliveries and
sends their ids to the queue. The check then ends its job, sets `next_run_at`,
releases the lease and lets the MonitorObject set its alarm. *API routes* write the same
`monitors` row and call the same MonitorObject while a check is under way. *Cron* reads
D1 for overdue monitors and sets alarms. *Queue consumers* share only `deliveries`
with all this. So the shared state is: `monitors` and `check_jobs` (check, routes,
cron), the HostObject (all checks of an origin), `robots` evaluations (all monitors of an
origin), the CrawlerObject (checks and runners), `robots_cache` and the signing keys (all requests), `changes`/`deliveries` (a check
and the next one; the check and the consumers).

**What is hard.** Statuses written twice and by two parties; a job row that is the only
guard against a second run *and* the thing that blocks a rerun; leases whose
holder outlives them; a poll, woken long after the checks it made on entry; a
database write after `crypto.subtle.digest`; results that race timers; one alarm for
many deadlines; a message retried into a row that is already claimed; state
written before what it stands for is done, so that a crash turns "seen" into
"handled". `PROJECT.json` lists 40 such hazards at their lines, each with the properties that
watch it.

## 2. Modules

| Module | Models | State ↔ code |
|---|---|---|
| `HostLimiter` | HostObject and the checks that hold its leases | the fields of `HostState`; timestamps become *time left* (a `Tick` counts them down), so the state space is finite without a clock; `holding`/hold time is the client's side |
| `MonitorScheduler` | one monitor: MonitorObject, its check, routes, cron | `status`, `nextRun`, `checkedOnce` are columns of `monitors`; `slotJob` is the `check_jobs` row of the slot `next_run_at`, `ownJob` the row of a manual check, `orphan` rows nobody refers to; `alarm`; `check.pc # "idle"` is the flag `running`; `admin` is the route in progress; `due` is what cron has read |
| `NotifyDelivery` | one delivery from fan-out to settlement | `row`, `attempts`, `stale` (age of `claimed_at`), `msg`/`tries` per copy in the queue; `accepted` counts what Discord took, `missed` those of them the code never recorded (histories) |
| `RemoteFetch` | *abstract*: what a remote fetch promises to checks and sites | `asked`, `given`, `answer` |
| `CrawlerJobs` | CrawlerObject, its runners and its callers | `row`, `seen`, `alarmFor` are stored and survive a reset; `waiter`, `timer`, `call` are in memory and do not |
| `ContentPipeline` | the recipes `feed`, `extract`, `content`, `direct` over a sequence of checks | `target`, `snapshot`, `changes`, `fanned` are tables; `check` holds what the processor has in local variables, the entries it has yet to look at as a set of positions of which it takes the least |
| `SitemapTraversal` | the recipe `traverse` of a sitemap index over a sequence of checks | `watermark` is `targets.last_known_updated_at` (-1: no row); `check.stack` the recursion of `traverseChild` and `traverseSitemapIndex`; `check.used`, `check.cut` the shared counters; `listed`, `shown`, `urls` the site |
| `HttpOutcome` | how the answer of a site becomes the outcome of a fetch, in the Worker and by way of an executor | pure operators |
| `FetchSequence` | the fetches of one check (or of one RPC): policy, retries, redirects, waits | `pos`, `req` and `log` are the attempt under way and those before it; `pullUsed` and `unavailable` what `fetchTarget.ts` shares between the targets of a check |
| `HomeRunner` | the process of one home runner | `beat`, `loop` are the places of the two loops, `job` and `sends` those of the workers; `inflight` the map of that name |
| `Administration` | the routes that create, change, archive and delete, the check that writes meanwhile, the audit log | `db` is the set of rows with their references; a statement that meets a foreign key or a unique constraint fails |
| `RobotsRules` | parser and evaluator of robots.txt | recursive operators over lines and symbols |
| `RobotsCheck` | `checkRobots` and its cache, called by concurrent checks | `cached` is the row of `robots_cache`; `lookup` the locals of each call |
| `ItemExtraction` | the handlers of `extractItems` | the state the handlers share, folded over tokens |
| `ExecutorToken` | the tokens of the gcp-http executor | `entries` is `JtiCache`; `issued` the claims signed |
| `AccessKeys` | the signing keys of Cloudflare Access in one isolate | `keyCache`, `lastRefetchAt`, `refreshing` (there `inflight`) as in `createAccessAuth`; `request` the callers that wait |
| `SourceConfig` | validation of a configuration, the recipe it selects, titles, tags and fan-out | `sources.config`, the rows of `changes`, the configuration each check was begun with |
| `Algorithms` | the reference definitions for `RobotsRules` and `ItemExtraction`, and one next-state relation over the five small machines | `subject` says what a behaviour is about |
| `SharedStateProofs` | the theorems about the small machines whose state is shared: `HostLimiter`, `HomeRunner`, `ExecutorToken`, `RobotsCheck`, `AccessKeys` and `SourceConfig` | |
| `NotifyProofs`, `CrawlerProofs`, `MonitorProofs`, `FetchProofs`, `PipelineProofs`, `SitemapProofs`, `AdministrationProofs` | the theorems about `NotifyDelivery`, `CrawlerJobs` with `RemoteFetch`, `MonitorScheduler`, `FetchSequence`, `ContentPipeline`, `SitemapTraversal` and `Administration` | |
| `MCAdministration`, `MCAlgorithms`, `MCFetchSequence`, `MCSitemapTraversal` | definitions their configurations need; the other configurations instantiate the module itself | |

One action is one write (to D1, to the object, or to the queue) together with the reads
and early returns that lead to it, because nothing in the code groups more than that:
there are no transactions around a check. Where the code does several
synchronous things without an await (HostObject's handlers, most of
CrawlerObject's), they are one action. The definitions named *Mutant of ...* stand
before the definition they vary; no action refers to them.

### HostLimiter
`AcquireProbe`, `AcquireNormal` and `AcquireRefused` are the three ways through
`acquireLease`; `ReleaseOk`, `ReleaseExecutorUnavailable` and `ReleaseFailed` those
through `releaseLease`; `Fresh` and `FreshProbe` are what `loadState` drops. A holder may
`Finish`, die (`Crash`: no release at all), or release after its lease has
expired. Time passes by `Tick`, in units of 10 s in the runs (TTL 6, circuit 30).

### MonitorScheduler
`CheckStep` is the chain Load → Claim → MarkRunning → SSRF check → robots →
lease → fetch → finish (job, `last_checked_at`, `next_run_at`) → release → apply,
each with its exits (`MustSkip`, `Rejected`, `Defer`, `StopJob`/`StopMonitor`,
`FailedInTry`). `Throw` ends a check at any step whose call may throw, with the
`catch`/`finally` that the step is covered by and no other; `Crash` kills the isolate. The
routes are sequences of steps too (`Pause` then `PauseStatus`, `Resume`,
`ResumeRead`, ... `ResumeStatus`), because the MonitorObject writes D1 and the
route writes it again. `ReconcileRead`/`ReconcileSchedule` are apart, so that cron
acts on a stale read. Only the relation of `next_run_at` to now is kept.

### NotifyDelivery
The fan-out inserts, then sends, and may be repeated by a later check. Each copy of the
message goes through `Receive`, `Claim`, `Load`, `Post`, `Mark`; `Lost` is a
consumer that dies or throws (the queue redelivers), `Duplicate` the queue's own
copy. `Archive` and `DeleteMonitor` act on the row in between. Discord may accept a `Post` and the Worker not hear
of it (`MayBeAccepted`): an answer that never comes is `status: null` (`discord.ts:234-241`), a 5xx may follow an accepted
message, and both are marked failed and retried (`batch.ts:88-90`). `missed` counts these, and those whose consumer was
lost before it wrote the outcome; `NotifiedOnce` says that nothing else makes Discord accept a second one.

### CrawlerJobs
`lease` is `LeaseCall` → `LeaseChecked` → `Claim` (possibly after the long poll) →
`Hashed` → `Responded` or `ResponseLost`; `submitAndWait` is `Submit` → `SubmitAccepted`
or `SubmitRefused`; `complete` is `CompleteAccepted`/`CompleteRejected`; `TimerFires` and
`AlarmExpires`/`AlarmDeletes` race with them; `Reset` loses the memory. It is shown
to implement `RemoteFetch` by the mapping `asked` = callers that have asked, `given`
= lease responses received, `answer` = what the caller got (`FetchesAtMostOnce`).

### ContentPipeline
A check is `FetchBody`/`FetchNothing` → `WriteSnapshot` → `Register` → `InsertNew` /
`InsertUpdated` / `InsertText` → `Fanout` → `Advance` → `Finish`, in the order
of each recipe (the feed writes its snapshot first, the text recipes before the
change, `direct` last). `Publish` changes the site: entries appear, vanish,
change their url (with a stable id) or their date. `PatchMode` switches
`source.config.pageMode`. `Crash` and `Throw` end the check between two writes.

### SitemapTraversal
A check is `FetchRoot`/`FetchNothing`, then per child `Register` (origin, upsert, baseline,
gate) → `Disallowed`, `FetchRefused` (budget), `FetchFails`, `FetchUrlset` or `FetchIndex`
→ `Process` → `Advance`; `FetchIndex` pushes a frame and `Return` pops it, advancing the
index only if nothing was cut off since. What an index lists and is not yet visited is a set of entries, of which
`First` takes the next in the order of the code's sort (`Before`: newest first). The number `truncationTotal` is represented by the set of the
sitemaps cut off (each is visited once per check), and a urlset by the dates of its
urls. `Publish`, `Withdraw`, `Wobble` and `Age` are the site and the clock. A check is cut off by the budget, by the depth, by the
number of children of an index (`Frame`) or by that of the urls of a urlset (`Process`).

### FetchSequence and HttpOutcome
An attempt is checked (`checkUrlForSsrf`, the executor's own address check), sent, and answered;
`FollowTo` takes the redirects of either party; `Record` decides between a retry, the next entry
(`ShouldProceedToNext`) and the end. `BodyBreaks` is the exception of a body that breaks off while it is read, which the `catch` of
`runFetcher` (`registry.ts:69-77`) makes an `internal_error`. Names may resolve to another address at every lookup. A pulled
fetch waits in two phases (`SubmitLimits`), and what it has waited is charged to the
whole check. The RPC is a check of one target without retries that requires its caller's hosts.

### HomeRunner
`HeartbeatAnswered`/`HeartbeatFailed`, `AskForLease`, `LeaseAnswered`/`LeaseFailed`, and per job `Fetched`,
`ResultAnswered`/`ResultFailed`, `JobEnds`; `stop` closes the loops, then waits for the jobs, then
exits or times out. A refused protocol and a server that gives too many jobs are answers like any other.

### Administration
A request is its reads, its batch and its audit event, each an await apart; a batch is one
transaction (`DeleteMonitorCascade`, `DeleteDestinationById`, `PutFetcherPolicy`, ...). An archive and the PUT of a robots
policy read their row once more before the event (`Reread`; `db/destinations.ts:91`, `db/robots.ts:84-88`): if another request has deleted it by then,
the answer is a 404 or a 500 and no event is written. So `AuditMatchesData` looks at the destinations that are still there. A check reads the policy, writes
targets, snapshots and changes and fans out, in between. An isolate may die between the change and its event.

### RobotsRules, ItemExtraction, Algorithms
The parser and the handlers are translated as they stand; `Algorithms` says the same without them: which
lines a path is subject to (`Forbids`), and which items a reader finds in a page (`FoundIn`), and TLC compares the two on
every input up to a length. Pages in which a field, a dt or dd, or a link stands within another are
compared by no property (`IsFlat`): the handlers keep one flag for each, so that an inner end closes the outer element.

### SourceConfig
`ValidateSourceConfig` and `RecipeKey` are evaluated on all configurations of all types. A key of the other
page mode is accepted and unused, as in the code. Two checks with different configurations detect, enrich,
classify and notify the same change; `StoreTags` is the write that keeps the first tags.

### RobotsCheck, ExecutorToken, AccessKeys
Three caches with a lifetime, each shared by calls that overlap. The entry of `RobotsCheck` carries the time
its fetch was *begun*; that of `AccessKeys` the time its refresh *ended*, so the histories `served`, `seen` and
`since` say what was true outside at either moment. `RestartExecutor` and `LoseIsolate` empty the memories.
`AccessKeys` assumes that a refresh takes less than `JWKS_MIN_REFETCH_MS`; a slower one can
refuse a key that has been published for longer. The code has no such limit (`auth.ts:104` fetches without a timeout);
under the assumption, a request that has waited for a refresh finds the interval of line 120 not yet over, and never asks for
a second one. A request that found its key missing in keys that were stored does.

## 3. Runs

| Run | Question | Instance |
|---|---|---|
| `HostLimiter` | `CapRespected`, `GrantSpacing`, `ProbeGrantedAlone`, `NeverLockedOut` | 4 leases (cap 2), TTL 6, circuit 30, threshold 5, holds up to 9 (> TTL), Retry-After 0 or 40 |
| `Monitor_safety` | `SlotFetchedOnce`, `BlockedNotFetched` | all operations, one crash, one throw |
| `Monitor_live` | `RunningJobHasCheck`, `ActiveIsChecked` | all operations, neighbours on the origin, no crash or throw |
| `Notify` | `NotifiedOnce`, `SettledIsFinal`, `SettledUnlessLost` | two copies, two lost consumers, one crashed fan-out, 5 attempts, 5 retries, any POST accepted without an answer |
| `Crawler` | `AnswersAreFinal`, `FetchesAtMostOnce` (refinement of `RemoteFetch`), `EveryCallReturns`, `EveryJobCloses` | 2 jobs, 1 runner, leases of up to 2, one reset |
| `Content` | `EntryAnnouncedOnce`, `FinishedCheckIsComplete`, `WatermarkFollowsFanout`, `UpdatesSurvive` | 2 entries, 2 urls, 2 dates, 2 changes of the site, one lost check, one PATCH, all kinds, with and without etags |
| `Sitemap` | `CutOffHoldsBack`, `UrlsAreAnnounced` | a tree of 5 sitemaps (urlset, index with a urlset and an index that is too deep, foreign sitemap), budget of 2 fetches, 2 changes of the site, one lost check, failing fetches of the urlset at the root |
| `Fetch` | `AttemptsFollowPolicy`, `AllowedUrlsOnly`, `PullWaitFitsLease`, `OneOutagePerCheck` | 4 targets or an RPC, three policies of two and three entries, 2 retries, 2 redirects, 4 urls (accepted by all, by the Worker only, of another host, by nobody), the code's time limits |
| `Runner` | `WithinConcurrency`, `DrainedIsIdle`, `EveryJobEnds`, `KeepsAsking` | 3 jobs, concurrency 2, 2 resends |
| `Admin` | `DeletionsSucceed`, `PolicyIsWhole`, `AuditMatchesData`, `HistoryKept`, `ArchivedReceivesNothing` | 2 callers, 3 requests of 17 operations, one check, one death |
| `Algorithms` | `RobotsVerdictAgrees`, `ItemsAgree`, `StagesFollowConfig`, `TokenAcceptedOnce`, `DecisionsAreCurrent`, `JudgedByCurrentKeys` | robots.txt of 4 lines out of 13, patterns of 6 symbols, pages of 7 and items of 10 tokens; 2 checks on a cache of TTL 2; 3 tokens, memory of 2; 2 keys, 2 requests, TTL 3, interval 2; 2 checks with every configuration of a feed |
| `Monitor_stuck` | the finding below | the smallest instance that shows it |

Each module keeps its `TypeOK` and some facts its other properties rest on (`OneClaimant`, `PostsBounded`,
`BaselineSilent`, `WatermarkOnlyForward`, `WindowOutlastsLeases`, `ProbeIsActive`); they hold on the same instances and are not part of the runs. The
configuration `Crawler_safety` checks `TypeOK`, `WaitersAreTimed`, `AlarmCoversOpenJobs` and `LeasedOnce` with a second
runner, which takes minutes. `Sitemap_cuts` (with `MCSitemapTraversal`) checks `CutOffHoldsBack` on the tree of `Sitemap` with one child
of an index and one url of a urlset a check.

**Why the bounds are enough.** *HostLimiter*: the constants of the code are used as they are
(access interval 10 s, TTL 60 s, circuit 300 s, threshold 5, in units of 10 s); four identifiers are
two more than the cap, so an expired lease's holder and two fresh ones coexist
with one more request; the theorems of section 5 remove these bounds. *Monitor*: one
monitor suffices because monitors share only the origin's lease (an input: granted
or denied) and the count of unavailable evaluations (`NeighbourEvaluates`); slots before the
current one matter only through `orphan`. *Notify*: deliveries share no row; two
copies are enough for two parties at the row, and two losses are one for each. *Crawler*: two jobs are the least with which a response carries several and the alarm
has an earlier and a later deadline; a lost runner's late results and the next lease of the same runner
overlap as those of two would. *Content*: two entries give a first one that
succeeds before a lost second one, two urls a move, two dates an update; three
documents in a row are enough for "seen, gone, seen again". *Sitemap*: two levels are
the least with an index to hold back; two updates in one check exceed its budget. In the run only the budget and the depth cut off; in the configuration `Sitemap_cuts`, where
`CutOffHoldsBack` holds too, the limits on children and urls do as well, and `CutOffIsHeldBack` proves it for all limits. `UrlsAreAnnounced` is
not asked there, since the additional configurations of section 4 show it broken by these limits, as by nested
sitemaps that fail and by a root that answers 304, which the instance of `Sitemap` leaves out. *Fetch*: four
targets are the least that exceed the pull budget when each waits its most; a third redirect exceeds the limit of two (the code's
is larger, and nothing but the count depends on it). *Runner*: three jobs exceed the concurrency by one and arrive
in one answer or in two. *Admin*: three requests are a creation, what refers to it, and a deletion in between.
*Algorithms*: four lines are two groups, or a group of two agents and two rules; six symbols hold three stars; ten tokens a definition list
of two labels and two values. The theorems of section 5 remove the bounds for every safety property of the runs
but the two of `Algorithms` that are about recursive operators.

**Deadlock** is checked for `HostLimiter`. The other systems may really stop: a deleted
monitor, a settled delivery, closed jobs and sites that have used up their bounded changes.

**Fairness, and why the code justifies it.** `HostLimiter`: time passes; a check that
holds a lease ends, because every request has a timeout (it may still die without
releasing: nothing is assumed of releases). `MonitorScheduler`: the runtime fires a set alarm, a check
in flight goes on, cron runs every five minutes, time passes, and the lease is granted
again and again (strong fairness, which is what `NeverLockedOut` shows of the HostObject).
`NotifyDelivery`: the fan-out goes on, the queue goes on handing out a message until it is acknowledged, claims age.
`FetchSequence`, `Administration` and `Algorithms` have safety properties only.
`CrawlerJobs`: D1 answers, deadlines pass, timers and alarms fire; **nothing** is assumed of runners.
`ContentPipeline`: a processor goes on, and checks that fetch a body happen again and again.
`HomeRunner`: every wait of a loop ends, because every request has a timeout and every pause a length; whether it ends in an answer is
open. `SitemapTraversal`: as `ContentPipeline`, and a sitemap whose fetch may fail is fetched in some of infinitely many attempts.
Nothing is assumed of the administrator, the site, crashes or losses.

Every property has a mutant in `PROJECT.json`: a plausible bug in a mapped
definition under which the same run fails.

## 4. What the checks found

The finding of `PROJECT.json`:

**A crash during a check strands the monitor** (`Monitor_stuck`). The row of the
slot stays `running` and `next_run_at` unmoved; each later alarm, and each alarm
the reconciliation sets, finds the row and skips (`runCheck.ts:107`), although
SPEC.md:180 gives the reconciliation the task of recovering. A manual run ends it.

Further configurations, not part of the regular runs, show these statements violated
(`tlc -continue -config <name>.cfg <module>`, or `MC<module>` where there is one; with several properties in one file each is reported):

| Configuration | Property | What happens |
|---|---|---|
| `HostLimiter_limits` | `RealConcurrency` | a check that takes longer than 60 s goes on while its slot is granted again (`hostObject.ts:81`; line 7 promises a maximum of two) |
| `HostLimiter_limits` | `SingleProbe` | once the probe is granted the circuit counts as closed, and a second lease is granted beside it |
| `HostLimiter_limits` | `BackoffHonoured` | the probe is granted while a longer Retry-After runs (`hostObject.ts:122`) |
| `Monitor_throw` | `RunningJobHasCheck` | an exception before the `try` of `runCheck.ts:231`, or in a `finishJob` returned without await, leaves the job running (lines 274-276 say it never does) |
| `Monitor_throw` | `LeaseReleased` | `getLatestSnapshotForTarget` throws after the grant and before the `try` (line 226 says the lease is always released) |
| `Monitor_races` | `ResumeSchedules` | `routes/monitors.ts:174` writes `active` once more after the MonitorObject has; a check stopped by robots.txt in between leaves an active monitor without `next_run_at`, which cron never looks at |
| `Monitor_races` | `BlockedNeedsResume` | pause overwrites `blocked_by_robots`, and a manual run then fetches (line 79 asks for an explicit resume) |
| `Monitor_races` | `DeferredJobContinued` | a deferred manual check's retry looks for another slot; its job stays pending (line 214) |
| `Monitor_races` | `StopAfterOwnFailures` | evaluations for other monitors of the origin count, so a monitor is stopped before it has failed three checks itself |
| `Notify_fanout_crash` with `MaxLosses = 1`, `MaxFanoutCrashes = 0` | `EventuallySettled` | a lost consumer ends its delivery: the retried message finds the row `sending` with a fresh `claimed_at`, claims nothing and is acknowledged, and no message is left when the claim gets stale (`notify/batch.ts:106` says the message is redelivered so that it is not lost) |
| `Notify_fanout_crash` | `EventuallySettled` | the fan-out dies between insert and send; the repeated one finds the row and sends nothing |
| `Notify_slow_post` | `NotifiedOnce` | a POST slower than the claim's age limit is repeated by a duplicate |
| `Notify_unanswered` | `NeverNotifiedTwice` | Discord accepts a POST and its answer is lost (`discord.ts:234-241`); the delivery is marked failed and retried (`batch.ts:88-90`), and Discord accepts it again, with no duplicate message and no lost consumer. SPEC.md:57 says that a persistent idempotency key prevents double notification: it does so for the copies of a message, and a webhook takes no such key |
| `Content_lost_entry` | `InsertedIsAnnounced` | a check dies after it has registered a target or inserted a change and before the fan-out: the next check takes the entry for a known one. `notify.ts:17-21` describes exactly this recovery |
| `Content_not_modified` | `UpdatesSurvive304` | the feed's snapshot, whose etag makes the next fetch conditional, is written before its entries are processed (`feed.ts:300`); after a lost check a 304 hides them |
| `Content_lost_text` | `TextIsAnnounced` | the text recipes write the snapshot before the change |
| `Content_lost_entry` with `MaxItems = 1` | `CarriedOver` | entries beyond the limit are cut off by position, the same ones at every check (`feed.ts:32`) |
| `Sitemap_nested_failure` with `Failing = {1}`, `MaxPublished = 1` | `DueIsRead` | `sitemapTraversal.ts:281` writes a new child's lastmod as its watermark before it is fetched; when the fetch is refused, cut off or fails, the next check is stopped at the gate (line 297), although lines 325-329 and 342 leave the child to it |
| `Sitemap_nested_failure` | `UrlsAreAnnounced` | a nested child whose fetch fails is not counted as cut off: the index above it advances and hides it (line 342 leaves it to the next check) |
| `Sitemap_nested_failure` with `Foreign = {}`, `Failing = {}`, `MaxChildren = 1` | `UrlsAreAnnounced` | children that the gate will skip take the places of the limit first (line 442 comes before line 297), so a child with an older lastmod never gets one (lines 205-207 say the sort prevents this) |
| `Sitemap_not_modified` | `UrlsAreAnnounced` | after a cut or a lost check an unchanged root answers 304, and nothing of what was left over is looked at (line 568 says the root is read anew each time) |
| `Sitemap_nested_failure` with `Failing = {1}`, `MaxItems = 1` | `UrlsAreAnnounced` | a urlset with more urls than the limit is fetched at each check, and the same first urls are taken each time (lines 378-380 say only the rest is new) |
| `Admin_races` | `NoOrphanSubscription` | a subscription stored after its destination was found and before it is archived stays (`destinations.ts` deletes those it finds); it is sent nothing, which `ArchivedReceivesNothing` shows |
| `Admin_races` | `FanoutSurvivesDeletion` | a destination deleted during a fan-out makes the insert of its delivery fail, and the destinations after it get none |

## 5. Proofs

Nothing is assumed but the named assumptions on constants, which TLC evaluates on every run, and the hypotheses
that the statements below name. Each proof rests on one inductive invariant and has one step per action.

`SharedStateProofs` begins with the host limiter: for every set of leases and all values of the limits
that satisfy the assumptions, by the inductive invariant

    LimiterInv == TypeOK /\ CapRespected /\ WindowOutlastsLeases /\ ProbeIsActive

`CapRespected` alone is not inductive: the half-open path of `acquireLease` does not
count leases at all. What saves it is that when the open window has elapsed, every
lease granted before it opened has expired, and none was granted since; that is
`WindowOutlastsLeases`, which holds because `LeaseTtl <= CircuitOpen` (60 s and 300 s in
the code, `WindowAssumption`) and because nothing is granted while the circuit is
open. The same conjunct carries the spacing of accesses over the probe (`MinInterval <=
CircuitOpen`). Each action preserves each conjunct it can disturb, one step each.

| Theorem | States |
|---|---|
| `LimiterTypes`, `ConcurrencyCap`, `WindowCoversLeases`, `ProbeNeverLeaks` | the conjuncts of `LimiterInv`, as invariants |
| `GrantsAreSpaced`, `ProbesAreAlone` | the action properties `GrantSpacing` and `ProbeGrantedAlone` |
| `RealConcurrencyBound` | if every check ends within its lease (`HoldLimit < LeaseTtl`), the *real* number of accesses is bounded too. The configuration `HostLimiter_limits` shows that the hypothesis is needed |

Of the runner (`RunnerInv`): what a lease request counted stays free until its answer (`SlotsReserved`), and a
stop waits for the loops before it waits for the jobs (`StopInOrder`). From this `ConcurrencyIsRespected`
(`WithinConcurrency`) and `DrainLeavesNothing` (`DrainedIsIdle`).

Of the caches, the tokens and the configuration, for every number of concurrent calls, every lifetime and every size:

| Theorem | States | By |
|---|---|---|
| `TokensAcceptedOnce` | `TokenAcceptedOnce` | `TokenInv`: an accepted token is in the memory or has outlived every use, which is what `purge` may rely on because it grants the entry the same skew as the token (`PurgedKeeps`) |
| `RobotsDecisionsAreCurrent` | `DecisionsAreCurrent` | `RobotsInv`: a stored answer was still given after its fetch was begun, also when a slow one overwrites a newer one, and no outage is stored |
| `RequestsJudgedByCurrentKeys` | `JudgedByCurrentKeys` | `KeysInv`: the keys a refresh brought (`Brought`) were all published after it was begun, and none published since before is missing; this survives rotation (`BroughtStays`) and sharing (`JoinKeeps`). It needs `RefreshLimit < MinRefetch` (`KeysAssumption`) |
| `SourceStagesFollowConfig` | `StagesFollowConfig` | `ConfigInv`: `ValidateSourceConfig` implies the fit whatever it is given (`ValidatedFits`), and the tags a check goes on with are none or those stored (`AsStored`), which stay because `setChangeTagsIfNull` writes them once |

The four specifications are those of the machines by themselves (`TokenSpec`, `RobotsSpec`, `KeysSpec`, `ConfigSpec`); `Algorithms` takes
the same actions one machine at a time.

`NotifyProofs` is about who owns the row. `IInv` has four parts beside types:
`Owned` (one consumer at a time works, it has the row in `sending`, and a claim is stale
only when nobody works), `AcceptedAccounted` and `PostsAccounted` (each POST that was accepted is recorded in the row as delivered, or known to
that consumer, or among those `missed`; each that was made is counted in the row, or in the hands of that consumer, or was lost with one), and
`NothingSentYet` (the check that inserted the row sends the message, once). All
theorems have the hypothesis `~SlowPost`: no POST outlasts `CLAIM_STALE_MS`. `Notify_slow_post` shows that
it is needed.

| Theorem | States |
|---|---|
| `PostAcceptedOnce`, `PostsAreBounded` | `NotifiedOnce` (Discord accepts one POST, and one more for each acceptance that was lost with its answer or its consumer) and `PostsBounded`, from the two accounts |
| `ClaimIsExclusive` | `OneClaimant`, from `Owned` |
| `SettledStaysSettled` | `SettledIsFinal`: who writes the row works on it, and nobody works on a settled one |

`CrawlerProofs` follows a job. It is queued once (`LeasedFromQueue`); only a queued job is leased, and
the call that leased it is the only one that can hand it over (`ClaimedOnce`); only
who was handed it can send a result (`GivenIsLeased`). With
`WaitersAreTimed` (who waits has an open row and a timer) this is inductive.

| Theorem | States |
|---|---|
| `JobsAreLeasedOnce`, `WaitersHaveTimers`, `AlarmIsSet` | `LeasedOnce`, `WaitersAreTimed`, `AlarmCoversOpenJobs` (the last from the handlers that end with `scheduleAlarm`) |
| `AnswersStayFinal` | `AnswersAreFinal`: the state of a row moves on or ends, and an answer is given only to who waits |
| `ImplementsRemoteFetch` | `FetchesAtMostOnce`, that is, each behaviour of `CrawlerJobs` is one of `RemoteFetch`: each step is an abstract `Ask`, `Give`, `AnswerResult` or `AnswerUnavailable`, or a stutter |

`MonitorProofs`: the row of `check_jobs` is what guards a slot. `Fresh` (a row that may be
claimed has not been fetched for), `SlotFollowsCheck` (from the claim to the fetch the row of the slot is
not claimable) and `UnfetchedUntilFetch` hold together, also when PATCH, resume or a deletion moves
`next_run_at` away from under the check (`NextRunWritten`). From this `RowsFetchedOnce`
(`SlotFetchedOnce`). `Progress` says what a step may do to the status and to the check at once, and
gives `BlockedIsNotFetched` (`BlockedNotFetched`), for only a check blocks its monitor.

`RunningJobsAreHeld` states `RunningJobHasCheck` for every bound but under the hypothesis `MaxCrashes = 0`, `MaxThrows = 0`:
no isolate dies and no call throws. `Monitor_throw` and `Monitor_stuck` show that the code does not promise more. The invariant is `JobsHeld`: a running row is the
row of the check in flight, at a step between its write of `running` and that of its end (`AtWork`), and no row left behind (`orphan`) is running. When PATCH,
resume or pause moves `next_run_at` from under a check, its row goes with the check, and is not taken for that of the new slot.

`FetchProofs` rests on one fact about the code: every way an attempt ends goes through `Record`, the end of the loop of
`runFetchSequence`. What holds of every outcome that can be recorded is proved once for `Record`, and each action is shown to record such an outcome. `IInv` has four parts
beside types: `Ordered` (the attempts so far follow the policy, and the next one is the one the policy asks for: `Underway`, or
nothing is left: `GivenUp`), `Vetted` (what is about to be contacted was accepted by the party that contacts it), `Timed` (a pulled attempt was begun with
at least `MinPullWait` left of the budget, so the waits exceed the budget by no more than a DNS check) and `Remembered` (an outage is in `unavailable`).

| Theorem | States |
|---|---|
| `FetchTypeOK` | `TypeOK` |
| `FetchAttemptsFollowPolicy` | `AttemptsFollowPolicy`, for every policy, number of retries and sequence of outcomes |
| `FetchAllowedUrlsOnly` | `AllowedUrlsOnly`, for every chain of redirects |
| `FetchPullWaitFitsLease` | `PullWaitFitsLease`, if `PullBudget + DohTimeout <= LeaseTtl`. The code has 55 s and 5 s against 60 s: equality, so a longer budget or timeout loses the property |
| `FetchOneOutagePerCheck` | `OneOutagePerCheck` |

`PipelineProofs` is about what the tables say when a check may end between any two writes. Its invariant has, beside types and the place
of a check in its recipe (`Located`), one part per relation: `Shaped` (the kind of a change determines its dedupe key, so two changes with one key are one), `Found` (what is
to be notified is in the table, and its date is one of the document), `Taken` (an entry that was looked at has its row, and its date is known or on its way),
`Accounted` (unless a check was lost, every registered url is part of the baseline, announced, or about to be), and `Told` (a text that differs is found
or announced). None is inductive alone: the watermark is safe because of `Found`, and the end of a check because of `Taken` and `Accounted` together.

| Theorem | States |
|---|---|
| `PipelineTypeOK` | `TypeOK` |
| `PipelineEntryAnnouncedOnce` | `EntryAnnouncedOnce`, for every number of entries, urls, dates, publications and lost checks |
| `PipelineFinishedCheckIsComplete` | `FinishedCheckIsComplete` |
| `PipelineWatermarkFollowsFanout` | `WatermarkFollowsFanout` |
| `PipelineBaselineSilent` | `BaselineSilent`, with `Quiet`: until a check has finished nothing is new |

`SitemapProofs`, for every tree of sitemaps and all values of the limits. The code holds an index back if the number of cuts
grew between its entry and its return; that what was cut in between is just what lies below the index is a matter of the
order of the traversal. The invariant says so frame by frame (`Nested`): of a sitemap that is still to be
visited nothing has been cut off, what had been cut off when an index was entered (`before`) does not belong to it, and the entries
waiting in a frame are listed by its index. `SkipChild`, `CutBelow`, `EnterIndex` and `LeaveIndex` prove it
for the four ways a stack changes; `AboveComesFirst`, `AboveIsTransitive` and `SiblingsApart` are the facts about trees they
need, and `AboveIs` shows that the recursive function `Above` exists, by exhibiting it.

| Theorem | States |
|---|---|
| `CutOffIsHeldBack` | `CutOffHoldsBack`: a watermark that moves belongs to a sitemap below which nothing was cut off in this check |
| `WatermarksMoveForward` | `WatermarkOnlyForward` |

`AdministrationProofs`, for every set of callers, operations, order lists, quotas and numbers of requests
(`OrderAssumption`: an order list has one to three entries, and some list, the one a new site gets, has one; `OpsAssumption`: the
operations are among those of the API). A transaction is its statements in order, so `RowsAfter` is first shown to be what
the statements one by one yield (`RowsAfterStatements`), and then `Effect` gives, for each operation, the rows after it
(`InsertEffect` ... `MonitorDeletion`). The invariant:

- `Sound`: rows refer to rows that exist (`Constraints`), an identifier names one row (`Distinct`), the references go along `Edges` (`Schema`), and
  what a check writes belongs to one monitor (`Kin`). Foreign keys alone do not make a deletion succeed: `deleteMonitorCascade`
  deletes by monitor, so an attempt of this monitor's job at another one's target would keep a row from being
  deleted. `Kin` says that there is none, and for it one has to know what the check in progress holds (`Running`) and what each
  request has read (`Request`), also when these have gone stale.
- `Whole` (the entries of a policy are those of one PUT), `Governed` and `OrderRead` (the site of a check keeps its policy, and what was read is an order list).
- `Kept`: what was archived when the check recorded its change stays archived while it exists, and is not among what is left to deliver to.
- `Logged`: what is gone was deleted by a request that has recorded it, is about to, or died, and what is so recorded is gone; what is stored as archived was archived by such a request.

| Theorem | States |
|---|---|
| `RowsAreSound` | `Sound`: the schema and the references hold in every state |
| `DeletionsNeverFail` | `DeletionsSucceed`: no constraint makes the deletion of a monitor or a subscription, or the archive of a destination, fail, with checks in progress and requests between their reads and their writes |
| `PolicyStaysWhole` | `PolicyIsWhole` |
| `AuditAgrees` | `AuditMatchesData`, whatever is deleted between the write, the re-read and the event |
| `HistoryIsKept` | `HistoryKept` |
| `ArchivedGetsNothing` | `ArchivedReceivesNothing` |

**Model-checked only.** Liveness (`NeverLockedOut`, `ActiveIsChecked`, `SettledUnlessLost`,
`EveryCallReturns`, `EveryJobCloses`, `UpdatesSurvive`, `UrlsAreAnnounced`, `EveryJobEnds`, `KeepsAsking`), because the prover does not
reason about fairness and ENABLED; and `RobotsVerdictAgrees` and `ItemsAgree`, which are about recursive operators and folds
over any input, that is, need induction over data. Every other property of the passing runs is the statement of a theorem.

## 6. Not modelled, and why

*The browser UI* (`src/public`) keeps no state beyond the page: it shows what the API answers. *Row types and
serialisation* (`db/types.ts`, `api/serialize.ts`, `shared/contracts.ts`) are declarations and
field-by-field copies. *Parsing of XML, dates and charsets and the normalisation of text*: the documents of
`ContentPipeline` and the tokens of `ItemExtraction` are what they yield. *The ranges of addresses* that the
address checks refuse are a predicate of `FetchSequence`. *The transfer of bytes, TLS and DNS*: their outcomes are inputs. *The
wording of Discord messages*; *R2 objects*, which are named by their content and written before they are
referred to; *the claims of Access tokens and the names of callers*, which are judged without state; *reads, lists and the dry
run* of the API; values of intervals and jitter (only "ahead" and "overdue" are told apart);
archiving of monitors and the record `lastResult`; statistics, version and capacity of runners; a source that is
itself a urlset, and `childIncludePatterns`, in the traversal.

## 7. Plan

Written in this order, the most important behaviour first: `HostLimiter`, its proofs,
`MonitorScheduler`, `NotifyDelivery`, `CrawlerJobs` with `RemoteFetch`, `ContentPipeline`,
`SitemapTraversal`, `FetchSequence` with `HttpOutcome`, `HomeRunner`, `Administration`, the modules of `Algorithms`, and the proofs
`NotifyProofs`, `CrawlerProofs`, `MonitorProofs`, `FetchProofs`, `PipelineProofs`, `SharedStateProofs`, `AdministrationProofs`, `SitemapProofs`.
What is left: the value of the interval in `MonitorScheduler` (PATCH against `finishJob`), and the archiving of monitors.
