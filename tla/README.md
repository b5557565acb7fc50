# A verification project for the iCONTROL control plane

iCONTROL is a TypeScript monorepo: a browser control plane (`apps/control-plane/src`, below
**CP**), an HTTP API over SQLite (`platform/api/src`, below **API**), feature modules
(`modules/*`), and many scripts, gates and documents about them. This directory holds TLA+
models of the parts that keep state and change it concurrently, what TLC checks of them on
small instances, and what TLAPS proves of them for every instance. `PROJECT.json` lists the
components, the runs, the line of the source behind every definition, the mutants that show
that each property can fail, the disagreements found, the hazards and the theorems.

## 1. Inventory

### Modelled

| component | state | operations | what makes it hard | what makes it correct |
|---|---|---|---|---|
| Circuit breaker `CP/policies/circuit.breaker.ts` | one entry per key: state, failures, successes, nextAttemptAt, cfg; a gauge | `withBreaker`, around any async work | calls in flight answer into a state they never saw; retries do not look at the state again; every caller overwrites the entry's configuration | it opens within a failure budget, recovers only through a trial, refuses no longer than a cool-down, and every call settles |
| Tenant overrides and SAFE_MODE `CP/platform/tenantOverrides`, `CP/platform/controlPlane/commands` | two files in localStorage; per tab a latch, a cache and a provenance | load, hydrate, write, enable and clear SAFE_MODE | tabs share the files and not the memory; writes fail silently; files may be damaged; a reload loses the memory | what the guard rejects is never served, what is served was stored, a tab that has just loaded agrees with the files |
| Page registry and route catalogue `API/index.ts` `/api/cp/pages`, `CP/surfaces/cp/pages/Page.tsx` | a row per page, ROUTE_CATALOG.json, a read cache of 5 seconds, the operators' tables | list, create, update, delete, publish, revert, activate, deactivate, sync | operators decide from tables of any age; the catalogue is a second copy synchronised on some paths, on a best-effort basis, and read where the repository has none | a version names one publication, PUBLISHED means published, the catalogue has the columns of every page that was synchronised |
| Telemetry exporter `CP/platform/observability` | bounded queue, posts in flight, interval and retry timers, counters | record, flush, answers of the endpoint, timers | nothing waits for a post; batches leave the queue before they are posted; an aborted post may have been delivered | no event twice, the newest are kept, the counters balance, nothing waits for ever |
| API token acquisition `CP/services/authService.ts`, `CP/platform/http/cpApi.ts` | token, login lock and failure count in localStorage; a login in flight per tab | ensure a token, retry after a 401 | a lock built from reads and writes; tabs closed at any moment; counts read and written back by tabs that do not exclude each other | the lock is not leaked, a storm of logins ends, every request settles |
| Subscriptions `modules/core-system/subscription`, `CP/core/subscription` | a JSON file (Node) or a map (browser); calls between two awaits | set a plan, cancel, provider sync, resolve | read–modify–write over awaits, of a whole file that is cut before it is written; several processes; crashes | nobody is entitled to what was not granted; a command changes one tenant |
| Cache registry `CP/policies/cache.registry.ts` | entries, tag index, LRU, promises in flight, the switch that disables stale answers | get, set, delete, invalidate a tag, get or compute, single flight | each is a chain of microtasks over four maps that are updated in different ones; a compute ends at any moment, or throws | one promise per key, a bounded store, an invalidation misses nothing |
| Tables, caches, audit log and outbox of the API `API/index.ts`, `API/utils` | rows of tenants, providers, policies, security settings; an answer per tenant and route, for 5 seconds; the log and the outbox | create, update, delete, list, summarise, page through the log, acknowledge, restart | writes do not invalidate what is cached; an audited write is two inserts that may fail each; pages are read while others write | an answer is recent, pages give every row once, the outbox follows the log |
| Refresh tokens `API/auth` | a row per token | login, refresh, logout, expiry | a rotation is two statements; answers are lost and tokens presented twice; a token without a row is accepted | a stored login has one usable token, none after its logout |
| Anomaly guard `CP/platform/observability/anomalyGuard.ts` | times of recent 401s and logins, one route, one count | record an answer 401, a login, a resolved route | windows that slide, lists forgotten after an alarm, one counter shared by all routes | an alarm exactly when there is a storm or a loop |

Interaction. `cpFetchInternal` of the login client carries every request of the Page Studio
to the page registry; `main.ts` starts the exporter and runs the hydration of the tenant
overrides; the overrides are stored through the write gateway over `platform/storage/vfs.ts`
and `webStorage.ts`, which is part of their model. The login client and the router report to the
anomaly guard, which reports to the exporter (`recordAnomalyExport`). Of the API, the page
registry and the other tables use the same cache and audit log, under keys of their own. The breaker
and the cache registry wrap caller-supplied work,
and the subscription store is reached from the admin facade only. The components share no
state with each other beyond the browser's storage, in which their keys are disjoint; that is
why each has a model of its own, and composition happens inside the models: of tabs over one
storage, of operators over one table, of processes over one file.

### Not modelled

| component | reason |
|---|---|
| Kernel `CP/core/kernel/src` (command bus, tenant queues, governors, second circuit breaker, event bus) | small and concurrent, but the running program imports a type of it and nothing else: its callers, whose interleaving would be the subject, are contract tests |
| Billing webhooks `modules/core-billing` | actions would be executed one by one without a transaction, but no provider returns any: the mock answers an empty list and Stripe's handlers are TODOs |
| Tenant onboarding `CP/core/ports`, `CP/core/onboarding` | an orchestrator of ports whose adapters only its tests supply |
| Write gateways `CP/core/write-gateway`, `CP/platform/write-gateway` | policy, adapter and audit of one write, with no state between calls; the way of the overrides through the second is in `TenantOverrides` |
| Studio plan and execution `CP/core/studio/runtime` | steps in a row, up to the first that fails; nothing is kept |
| Feature flags, version policy, safe-mode policies `CP/policies` | documents loaded once, merged and asked: functions that their unit tests cover case by case |
| Runtime configuration, identity, surfaces `CP/core/runtime` | validation of one document at the start |
| Request boundaries `API/middleware`, `API/api/tenantBoundary.ts` | decisions over one request |
| Entitlement storage, branding, clients | a value read and written whole; the hard cases of that are in `TenantOverrides` |
| Browser sessions and access rules | decisions over the state of one tab |
| Metrics, traces, logs | recorded and shown, never read back to decide |
| User interface, scripts, gates, deployment, archive | rendering, tooling and data; the greater part of the repository's lines |

## 2. How the models are made

*Steps.* JavaScript runs the code between two awaits without interruption, so an action is
one such stretch. `CacheRegistry`, where the order of microtasks is what could go wrong, keeps
a queue of microtasks: one for every provider operation that is awaited, and none of the extra
ones that `return await` and a returned promise cost. Where a stretch touches only storage shared with other *processes* (the
tabs of a browser over localStorage in `LoginClient`, Node processes over a file in
`Subscriptions`), each access is an action. `TenantOverrides` treats a command as one action
although it is `async`: all its awaits resolve in microtasks over synchronous storage, and
what interleaves are the commands of different tabs. `better-sqlite3` and the `fs` calls of
the API's handlers are synchronous, so a request there is one action; a statement that fails, or
a process that dies between two statements, is an outcome or an action of its own.

*Time.* No model has a clock. A timer that is pending may fire (`Exporter`, `LoginClient`),
or what remains of a delay counts down (`cooldown` of `CircuitBreaker`), or times are ages that grow
by a tick up to the first that no longer matters (`ControlApi`, `AnomalyGuard`), or dates are small
numbers that are compared (`Subscriptions`). This allows every order the real delays allow.

*Data.* Payloads, contents, plans and tokens are members of small sets; wording, redaction,
permissions and formatting are left out.

*History.* Variables the code does not have are marked `history` where they are declared:
`everStored` and `settled`, `dirty`, `accepted` and `failed`, `storm` (of `LoginClient`),
`granted`, `past`, `trail` and `since`; or say what they remember: `recent` of `ControlApi`, `owed` of a
caller of `CacheRegistry`, `loggedOut` of `RefreshTokens`. `walk` of `ControlApi` is a client.

*Mutants.* An operator named `Mut…` before a definition is that definition with a plausible
bug; nothing uses it but the mutants of `PROJECT.json`.

## 3. The modules

### CircuitBreaker, BreakerContract, CircuitBreakerProofs

`breaker` is one entry of `rt.__BREAKERS__`, `calls` where each caller is in `withBreaker`,
`gauge` the metric `breaker.state`. `Admit` and `Reject` are the code up to the first await
(the entry takes the caller's configuration, is tested, perhaps half-opens); `Succeed`,
`Fail` and `TimeOut` settle the race and apply the answer to the state found then; `Retry`
is the wake-up after a backoff, which looks at nothing; `Tick` lets the cool-down run.
`BreakerContract` is what a breaker promises with no mention of calls: it trips, is probed
once the cool-down is over, and recovers only from a probe. The bypass without a runtime
object and the counters of calls are left out.

### TenantOverrides, TenantOverridesProofs

Files `overridesFile` and `safeFile` are shared; `latch`, `cache` and `provenance` belong to
a tab. `Load` is the bootstrap of `hydrateTenantRuntime` (SAFE_MODE first, then the
overrides), `Hydrate` a later hydration, `Write`, `EnableSafeMode` and `ClearSafeMode` the
control-plane commands, `Damage` whatever makes a file unreadable. A write of a file either
happens or is swallowed, as `vfsSet`'s dropped result allows. `Hydrated` is the decision of
`hydrate.ts`, in its order: latch, unreadable, guard, apply.

### CpPages, CpPagesProofs

`rows` is the table, `catalog` the file, `cache` the cached answer of the list, `seen` what
each operator's table shows, however old. Every handler is an action with the code's checks
of version, uniqueness and existence; `WriteAndSync` and `WriteOnly` tell the handlers that
synchronise the catalogue, best effort, from those that do not. `SyncSucceeds` and `SyncThrows`
are the two ends of `syncCpRouteCatalogFromDb`; a write that fails may leave a file that is cut,
and a file that is not there or not JSON (`Unreadable`) makes every synchronisation throw. What
the host has at the path the function reads, `platform/config/ssot/ROUTE_CATALOG.json`, is a
constant (`Shipped`): the repository has nothing there, its catalogue being at
`runtime/configs/ssot`, so as it is nothing is ever synchronised. `Projected` copies what the code copies:
permissions, the columns that are not empty (`flag` stands for path, module and feature flag),
and the status or HIDDEN; never the title. The operators are those of
the Page Studio: it never supplies an id and it sends `expected_version` from its table
(`Expected`). What its table offers (`Shows`, `OffersRevert`, `OffersActivate`,
`OffersDeactivate`) guards the actions, however stale the table is.

### Exporter, ExportChannel, ExporterProofs

Events are numbered as they are recorded. `Record`, `ExportNow` and `RecordAnomaly` are the
entry points (the second and third flush at once), `IntervalFires` and `RetryFires` the
timers, `EndpointTakes` and the three answers the other end: a post may fail after it was
taken. `ExportChannel` is a channel that may lose events, never delivers one twice and never
brings one back. It starts after `initExporter` found the export enabled.

### LoginClient, LoginClientProofs

`token`, `lock` and `fails` are the keys of localStorage, `login` the one login in flight of
each tab, step by step through `ensureApiAccessToken` (circuit, look, write and reread the
lock, recheck the token, post, then clear–count–bump or store–forgive, release), `requests`
the calls of `cpFetchInternal` with their one retry. `Close` closes a tab, whose lock is then
an `Orphan`'s; `LockExpires` and `WindowPasses` are time. Signup, password login and headers
are left out.

### Subscriptions, SubscriptionLedger, SubscriptionsProofs

`stored` is the file or the map, `calls` what each caller carries from one await to the
next. `SetActivePlan`, `Cancel` and `SyncFromProvider` are the commands; `GetCurrent` is the
read a cancellation is made from; `ReadAll`, `Truncate`, `WriteAll` and `WriteFails` the
steps of the file store, which exclude each other in one process (`Runs`) and in no other;
`UpsertInMemory` the browser's; `Crash` the end of a process. `Effective` is the resolver.
`SubscriptionLedger` is a ledger in which one record changes at a time or everything is lost.

Left out, and worth knowing: an environment with both a window and Node (jsdom) writes to
the file and reads from the map; the audit trail of the facade is made anew for each service,
so `getEntitlementsAuditSnapshot` never finds anything in it; `DefaultProviderPort`'s plan map
knows no plan, so a synchronised subscription is a free one, which the model has as it is.

### CacheRegistry, CacheRegistryProofs

`store`, `index`, `inflight` and `lru` are the maps of the registry, `queue` the microtask
queue, `procs` where each coroutine is: the callers (`Calls`) and the promises registered for a key
(`Flights`), which outlive their callers. `Call` begins an operation, `Resume` runs the head of the queue
up to its next await (`Got`, `Found`, `Missed`, `Computed`, `StoredIt`, `Untag`, … are the
stretches), `ComputeEnds` is the end of a compute, with a value or an error, at any moment. An
entry is its age: fresh, stale or dead. Provider operations are awaited as in the code, one microtask
each, since `inMemProvider` is the only provider there is. Which key is tagged how is fixed
(`TagsOf`); keys set with other tags each time are left out, as are counters and the audit
snapshot.

### ControlApi

A row is its id. `Create`, `Update` and `Delete` are the audited requests, over any of the
tables; `Update` also stands for the audited writes of what no cached answer shows: roles, branding,
plans, audit presets. `AuditWrite` inserts the log row, then the event, and swallows whichever fails.
`Fetch` is a cached GET, `FirstPage` and `NextPage` a client that follows `nextCursor` through
`/api/cp/audit` (`/api/cp/logs` pages the same way), `Restart` a new process, which seeds tables it finds empty,
`Tick` the clock. `recent` remembers what the tables held in each of the last `Ttl` ticks.

### RefreshTokens

`tokenRow` has a row per token, `held` the tokens a client has, `login` the first token of each
token's chain. `Rotate` and `RotateFails` are the two ways a refresh can end after its first
statement; `Sign` loses some of the answers. `Usable` has the code's leniency: no row is as good
as a live one. Hence both properties are about logins whose row was stored: one whose insert
failed has a token that cannot be revoked. A logout whose `UPDATE` fails is answered as a success
and changes nothing; it does not count as a logout.

`ControlApiProofs` holds the proofs about this module and the one before; the initial state, the
steps and the types of this one are `AuthInit`, `AuthNext` and `AuthTypeOK` for that reason.

### AnomalyGuard

`recent`, `firstStorm`, `lastHash`, `fallbacks` and `fallback` are the variables of the module, times
kept as ages. A list of times is a function from events to their ages: the code filters it and
asks its length, and never looks at its order. `Record` is `record401` and `recordLoginAttempt`,
`Fallback` and `Resolved` are `recordRouteResolution`. `past`, `trail` and `since` remember what the
guard forgets or merges, and the properties compare its alarms with them. `LoopCount` is two at least
(three in the code): the first fallback is never a loop. `LoginClientProofs` holds the proofs about this
module, whose formulas are called `GuardInit`, `GuardNext` and `GuardTypeOK`.

## 4. What is checked

Passing runs. Deadlock is checked in all but two: in `MCCacheRegistry` the callers use up their
`MaxCalls`, in `MCRefreshTokens` the `Tokens` are used up and expire.

| run | distinct states | what it shows |
|---|---|---|
| `MCCircuitBreaker` | 4 152 | `ClosedWithinBudget`; the contract; and, with fairness, `CooldownEnds` and `CallSettles` |
| `MCTenantOverrides` | 50 535 | `RejectedNeverServed`, `ServedWasStored`, `HydrationProvenanceHonest`, `LoadedAgreesWithStorage` |
| `MCCpPages` | 738 126 | `VersionNamesPublication`, `PublishedIsWhatShows`, `SyncedCatalogAgrees` |
| `MCExporter` | 39 776 | `QueueKeepsNewest`, `CountersBalance`, the channel, and with fairness `QueuedLeaves` |
| `MCLoginClient` | 311 773 | `LockNotLeaked`, `StormBounded`, and with fairness `RequestSettles` |
| `MCSubscriptions` | 1 748 016 | `EntitledWasGranted` and the ledger, in one process |
| `MCCacheRegistry` | 860 708 | `SingleFlight`, `StoreBounded`, `InvalidationHolds` |
| `MCControlApi` | 284 877 | `CachedIsRecent`, `WalkIsExact`, `OutboxFollowsAudit` |
| `MCRefreshTokens` | 6 680 | `OneUsablePerLogin`, `LogoutEndsLogin` |
| `MCAnomalyGuard` | 382 192 | `StormsExact`, `LoopsExact` |

Each checks the type invariant of its module as well. Two more runs have a property the code does not
have; each is a finding that quotes the text it contradicts:

| run | property | what happens |
|---|---|---|
| `MCLoginClientMutex` | `OneLoginAtATime` | after six seconds a tab logs in without the lock another still holds |
| `MCSubscriptionsShared` | `CancelHolds` | with two processes over the file, a command for one tenant undoes the cancellation of another |

### What the models say of the code besides

The models have the code's behaviour, also where a reader may not expect it. No run is about
these; each is one or two steps of the model:

- A retry of `withBreaker` runs its work although the breaker has opened meanwhile and is
  cooling down (`Retry` looks at nothing).
- SAFE_MODE is latched per tab: a tab serves overrides while another has enabled and persisted it.
- A `PUT` of a page does not count its version up: two edits from two drafts both pass.
- Every synchronisation of the route catalogue throws in the repository as it is
  (`SpecNothingSynchronised` below): the file it reads is not there. Publish, activate, deactivate and
  delete answer success, `sync-catalog` answers 500. On a host that has the file, one write that
  fails half-way makes every later synchronisation throw; a column that is emptied on a page keeps its
  old value in the catalogue; and a new title never gets there.
- A `FAILED_READ` of the overrides leaves those of an earlier hydration in the cache.
- The "retry" of the exporter flushes the next batch; the batch that failed is gone.
- `record401` logs an error for a storm of 401s that is "persisting beyond 30s" when two short
  storms far apart are all there was (`Escalates`): nothing clears the time of the first.
- A compute of the cache registry that began before an invalidation stores its value after it.
- An answer of the API's cache survives the writes it should show, for its 5 seconds.
- A login whose insert into `refresh_tokens` fails is answered, and its token refreshes after a
  logout.

### Bounds, and why they are enough

- `MCCircuitBreaker`: three callers and two configurations that disagree in every field (3
  failures, 2 successes, 2 ticks, 1 retry against 1, 1, 1, 0). Three calls are needed for an
  answer to be late in a trial while another probes; more callers only repeat them. The
  states are finite without a cap: an answer that adds a failure to a closed entry opens it at
  the threshold, and opening starts the count again.
- `MCTenantOverrides`: two tabs, two ordinary payloads and an oversized one, production (where a
  corrupt SAFE_MODE record counts as enabled; elsewhere it counts as disabled, one case
  fewer). Tabs interact through the files only, so two show every interaction.
- `MCCpPages`: two operators, two pages, two routes, two contents, of which one leaves the
  optional column empty; a host without a catalogue and one whose catalogue has one of the two routes
  (`MCShipped`, two initial states); `MaxVersion = 2` bounds the publications of a page, named in
  `Publish`. Two versions are enough for a stale one to differ, two pages for a route to be
  taken over.
- `MCExporter`: five events, a queue of three, batches of two, and an event that fits an
  envelope only alone: the queue overflows while a batch is in flight, and batches are
  trimmed. `MaxEvents` is the only cap.
- `MCLoginClient`: two tabs and two requests, in the same tab (where they share a login) or in
  different ones, the first always in the first tab, which only leaves out the mirror image; a
  circuit that opens at two failures, one try for the lock, counts up to three (`MaxCount` is the code's own cap, 50).
  `StormBounded` says how far lost updates may delay the circuit: T(T+3)/2 failures for a
  threshold of T. Thresholds of 1, 2 and 3 reach the bound exactly (2, 5 and 9), which for
  the code's 5 would be 20. The run checks the bound for 2, and `SpecStormBounded` proves it for every
  threshold (below); that it is reached is checked for these three only.
- `MCSubscriptions`: two callers, two tenants, a free and a paid plan, dates 1 and 2 or
  none. One cancellation date and provider periods without an end lose nothing: an expiry is
  only compared with the date asked about, and plans already carry all three. `OtherPlans`
  (plans a record may name but `PLANS` lacks, such as `enterprise_pro`) is empty in the run
  and arbitrary in the theorems; they resolve to free.

- `MCCacheRegistry`: two keys with the same two tags in the same order, room for one entry, two promises
  and two callers, of which one reads with single flight and the other does everything, four
  calls in all (`MaxCalls`). Two keys are the least that evict each other, and two tags the
  least between whose updates another coroutine runs; keys and promises are symmetric.
- `MCControlApi`: two tables, one of them listed, and two tenants, of which one reads; its log
  begins with rows of both; pages of one row, so that a walk has three pages or more and others write
  between them; answers that live for two ticks; two audited writes (`MaxWrites`). The cap bounds what a
  behaviour may write, and the theorems need none of these.
- `MCRefreshTokens`: four tokens, enough for a login rotated three times or two logins rotated
  once each.
- `MCAnomalyGuard`: thresholds of two and one, windows of two ticks and of one, so that an event is newer
  than the window, exactly as old, or older; an escalation after one tick; three events, one more than a list
  ever keeps; two routes and loops of three. Routes and events are symmetric.

### Fairness

`CircuitBreaker!FairSpec`: the cool-down runs, the timeout of each attempt and each backoff
end, for they are timers of the event loop; nothing is assumed of the work, which may hang.
`Exporter!FairSpec`: a pending interval timer fires; nothing is assumed of the endpoint.
`LoginClient!FairSpec`: a tab that is open runs, and what it posts is answered or fails (the
browser gives up in the end); nothing is assumed of locks, of the other tab, or of what
the server answers. The remaining specifications state no fairness: the API answers a request within its action,
the subscriptions' calls and the cache's wait for nothing but work of their callers, and
the anomaly guard waits for nothing.

## 5. What is proved

All theorems hold for every value of the constants that satisfies the `ASSUME` of the
module, and rest on no other assumption. The shape is the same everywhere: an inductive
invariant `IInv`, one lemma or step for each action, and PTL at the end.

- `CircuitBreakerProofs`: type correctness, four safety invariants (of which TLC checks
  `ClosedWithinBudget`; `HalfOpenIsFresh`, `CooldownBounded` and `GaugeLagsOnlyProbes` are only
  proved), the step property `OpenNeverClosesDirectly` and
  the refinement of `BreakerContract`, for any callers and configurations. The safety
  invariants are not inductive alone: an answer is applied with the caller's configuration
  and opens with the entry's, so `CallsWellFormed` says that both exist while anything is in
  flight, and `SuccessesOnlyInTrial` that successes are counted in trials only, which makes a
  trial fresh whenever it starts. The two effects of an answer are lemmas about operators
  (`AfterSuccessEffect`, `AfterFailureEffect`) that the invariant and the refinement both use.
- `CpPagesProofs`: type correctness, `PublishedIsWhatShows`, `VersionNamesPublication`,
  `SyncedCatalogAgrees`. The second speaks of tables of any age, so what is inductive is an order:
  a snapshot is `Older` than its row, every write moves a row on in it, and a deleted page stays
  deleted. The last needs that no two pages have one route (`RoutesUnique`, the constraint of the
  table): otherwise a synchronisation would write one page's entry over another's. It is about
  whatever the host ships; for the repository, which ships nothing, `SpecNothingSynchronised` proves that
  no page is synchronised, ever.
- `TenantOverridesProofs`: the five invariants of `MCTenantOverrides`, for any tabs and payloads,
  in production or not. What was stored at some time covers the file as it is
  (`FileWasStored`, the one conjunct `IInv` adds), and a cache only ever takes what the file
  holds and the guard lets through. A hydration is one lemma, about any file and latch, that
  the lemmas of loading, hydrating and writing cite.
- `LoginClientProofs`, about the login: type correctness and `LockNotLeaked`, for any tabs, requests,
  thresholds and patience. That the tab the lock names is logging in is not inductive: it must also know
  that it has the lock, or its release would pass it by. `LockHeld` says so: it is about to
  reread what it wrote, or remembers holding it and has not released it. `TriesLeft` bounds
  the tries for the types. `StormBounded` is proved for any threshold T: two tabs that overwrite each
  other's counts fail T(T + 3)/2 times at most before the circuit is open and stays so. The count itself falls
  when a tab writes back what it read long ago, so what is inductive (`StormInv`) is that the
  failures so far and those to come (`Ahead`) do not exceed the bound: each tab counts from what it
  has read or would read (`Base`), as long as its login is past the circuit or may pass it (`Weight`);
  the tab with the higher count takes it to T, the other takes it back to one above its own, and so on with
  one less to go (`Cost`). A failure lessens what is to come by one at least (`CostOfBump`).
- `LoginClientProofs`, about the anomaly guard: type correctness, `StormsExact` and `LoopsExact`, for any
  windows and thresholds. `Remembered`: the events in the list that are young enough are those since the last
  alarm, however late the list is pruned. `Chained`: the count is the length of the longest chain of
  fallbacks that the resolutions of late end with, and the one before it is not of the chain.
- `SubscriptionsProofs`: type correctness for any processes; `EntitledWasGranted`,
  `CancelHolds` and the refinement of `SubscriptionLedger` under the hypothesis `AllInOneProcess`, which
  `MCSubscriptionsShared` shows to be needed for the second. The invariant: at most one call is rewriting the
  file (`Exclusive`), what it read is still what is stored (`SeenCurrent`), what it
  writes over is the file it has cut (`WritingCut`), and every record, stored or carried between two
  awaits, is backed by a grant unless it entitles to nothing (`AllBacked`).

- `ExporterProofs`: type correctness, `QueueKeepsNewest`, `CountersBalance` and the refinement of
  `ExportChannel`, for any sizes of queue, batch and envelope and any sizes of events. An entry
  point records up to two events and then flushes, so what is proved of a flush is about the queue and the
  counters it begins with (`Entered`), which belong to no state; `EnteredNext` adds an
  event and `FlushEffect` says what a flush does: a batch is a run of consecutive events
  (`Interval`), and trimming takes its oldest. The invariant says that what has left the queue is
  older than all that waits, and that no event is in two posts, in a post and failed, or in a post that is
  not taken and accepted; hence the counters are sums over disjoint sets, and nothing is delivered twice.
- `ControlApiProofs`, about the tables: type correctness, `OutboxFollowsAudit`, `CachedIsRecent` and `WalkIsExact`,
  for any tables, tenants, pages and expiry. A cached answer of age a was read from the tables of one of the
  a + 1 ticks remembered (`CacheInv`), and a walk has seen exactly the due rows at and above
  its cursor (`WalkInv`), which new rows, numbered higher than all others, leave true.
- `ControlApiProofs`, about the refresh tokens: type correctness, `OneUsablePerLogin` and `LogoutEndsLogin`, for any
  tokens. Inductive is a statement about rows, not about what is usable: a token of a stored login has
  a row itself (`Chains`), one row of a login at most is live (`OneLive`), and none after its logout (`NoneLive`).

- `CacheRegistryProofs`: type correctness, `SingleFlight`, `StoreBounded` and `InvalidationHolds`, for any
  keys, tags, callers and bound, provided that the null value is not the name of an operation. A coroutine
  is in the microtask queue once at most (`QueueInv`), a promise that is at work is the one registered for its key
  (`FlightInv`), an entry that counts is in the LRU list (`LruInv`), and what an invalidation owes is gone,
  on its list, or next (`OwedInv`). The last needs that every tag lists every stored entry of its, although
  a removal of the key, tag by tag, may be under way while a set lists it, tag by tag. Hence `IndexInv`: whatever
  removal of a stored key from a tag is still to come, a listing of it there comes later. Later means
  after more tags or, if as many, at a later place of the queue, and stays so because the queue
  is first in, first out; it is so at first because a removal has before each tag no more
  than a listing that begins now (`Suffix`).

### Only model-checked

Liveness (`CooldownEnds`, `CallSettles`, `QueuedLeaves`, `RequestSettles`) is beyond the
prover. Every invariant and step property of the passing runs, and every refinement, is proved. Of the two that
the code violates, `CancelHolds` is proved for one process; `OneLoginAtATime` holds under no condition
the code guarantees.

## 6. Plan

Done, in this order: the breaker (the policy most of whose difficulty is concurrency), the
overrides, the page registry, the exporter, the login client, the subscriptions, the cache registry, the
API's tables, the refresh tokens and the anomaly guard, each with its abstract specification
where it has one worth stating; then the proofs about the refresh tokens, the API, the exporter and the synchronised catalogue,
the cache registry, the storms of failed logins and the anomaly guard.

What is left, and what it waits for: the kernel's queues and governors, the billing actions and the
onboarding, as soon as the program calls them: today a model of them would model their tests.

The parts listed under "Not modelled" are, but for these, sequential code over one request or one
document, where a unit test reaches what a model checker does; most lines of the repository are
pages, rendering, scripts and data, which is why the modelled lines are a small share of it.
