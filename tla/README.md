# A formal model of the demo WAF

Three planes, three deployables. Portal users configure zones in the **data
plane** (PostgreSQL behind GraphQL services); the **control plane**
(`waf-config-distributor`) compiles that configuration and publishes it to
Redis; **edge plane** nodes (`waf-edge`) serve traffic from a snapshot of what
they read there. Security events travel back: edge, control plane, data plane.

This directory holds TLA+ modules translated from the Go source, the TLC
configurations that check them on small instances, and TLAPS proofs of what
holds on every instance. Source paths below are relative to the repository.

## Inventory

| Component | State it keeps | Operations | Talks to | What is hard | What makes it correct |
|---|---|---|---|---|---|
| zones-service (`data-plane/go/zonesservice`) | zones with their workflow, domains, rules, lists, policies | CRUD, workflow transitions, `SyncConfigState`, `VerifyDomainDNS`, guarded create and delete | sibling services over gRPC; an outbox event per write | each route is several queries: counts, copies and checks go stale between them | a served zone's domain was proven, or a client spoke for it; a quiet sync is right; no zone is deleted over a row that held it |
| distributor: consumer (`control-plane/go/subscribe`, `sync`) | the message in hand | resolve, re-read, compile, publish or unpublish, ack or requeue | RabbitMQ, GraphQL, Redis | late, repeated and lost messages; several queries per message | Redis ends up current; no live zone is removed |
| distributor: resync (`control-plane/go/resync`) | the running sweep | read all, publish all, remove orphans, bump epoch | GraphQL, Redis | runs beside the consumer and other replicas; may fail half way | the sweep alone converges; it removes only orphans |
| rule store (`control-plane/go/ruleset`, `distribute`) | index, rule-set, version, epoch keys | `Publish`, `Unpublish`, `BumpEpoch` | — | readers are not transactional | keys agree with each other |
| edge cache (`edge-plane/go/cache`) | the served snapshot, the one being built | refresh, swap, restart | Redis | three reads per hostname between writes; mixed schemas; outages | last good snapshot, soundness, convergence |
| rule compiler (`control-plane/go/compile`) | none | match conditions, actions, ordering | called by both distributor loops | unrepresentable conditions, words the edge does not know | what is published can be read and means what was written |
| rate limiter (`edge-plane/go/ratelimit`) | fixed-window counters in 32 shards | `Check`, `Prune` | called by evaluation per request | boundaries, clock read before the lock, pruning | at most twice the threshold in any window's length; pruning changes no verdict |
| evaluation (`edge-plane/go/evaluate`, `regexcache`) | none | `Evaluate` | rate limiter | order of rules and policies, counters that outlive an edit | the first record meant for the request decides |
| clearance (`edge-plane/go/clearance`) | none (signed cookie) | issue, verify | called per request | expiry, restarts | clearances are earned, and end the challenge |
| request handler (`edge-plane/go/cmd/waf-edge`) | none | `handle` | all of the above, the origin | — | every decision is acted on and recorded |
| telemetry, ingest (`edge-plane/go/telemetry`, `control-plane/go/ingest`) | two bounded queues | record, ship, accept, write | HTTP, GraphQL | full queues, timeouts, shutdown on either side | every event settles, and is stored at most once |
| scanning-service | jobs, findings | start, callback, generic transitions | external scanner | unreachable scanner, repeated and late callbacks, operators who move the job | one scan per run; a run completed by a callback has its findings; an accepted scan ends its run |
| alerting-service | events, incidents, policies, notifications | correlate, evaluate, test, clean up | webhooks | check-then-create, overlapping sweeps | groups are raised, once unless sweeps overlap; alerts count per zone; nothing due is left |
| GraphQL gateway, entry points, portal, docs | none of their own | translation, wiring, UI | — | — | — |

`PROJECT.json` lists every component with its status and every hazard of the
code at its line, with the properties that answer it.

## What is modelled

Five groups of modules. Each stands alone, because the components they model
share state only where the diagrams show it; the places where one leaves a
neighbour free are named.

### The configuration path

From a client's write to the rule-set an edge node enforces: the one place
where five independent actors (clients, consumer, sweep, other replicas, nodes)
share state without locks.

```
RuleStore <- DataPlane <- Distributor -----+-> ConfigPropagation
RuleStore <- EdgeCache --------------------+
```

* **`RuleStore`** — the four kinds of Redis keys and the three transactions of
  `distribute.go` (`TxPipeline`, so one step each). A compiled rule-set is a
  record: zone, hostname, status, version, schema and the *set of records* it
  was compiled from. Origin address, protection mode and the compiled
  expressions are not told apart: no step of this path depends on them.
* **`DataPlane`** — the zone table with the workflow of `entities/zone.go`,
  the globally unique hostname, the enabled rules, lists and policies, and the
  queue of outbox messages. Clients write whenever they like, up to
  `MaxWrites`. What a message carries is what `sync.go` can extract from it: a
  zone id, a JSON null (`Global`) or nothing, and a hostname or none. Which
  fields the outbox puts into an event is not in this repository, so both
  possibilities are explored. `configVersion` is an ordinary writable field
  (`zone.go:49`): no code of the three planes raises it. `BumpVersion` is the
  client discipline of raising it after each change, and `ClientBumps` switches
  it on. `touched` and `owed` are history variables: the zones whose lifecycle
  changed, and the zones changed since their version was last raised.
* **`Distributor`** — each replica's two loops as program counters over their
  local variables. `sub` is `subscribe.handle` with `sync.Zone` inlined, `sweep`
  is `resync.RunOnce`. Each GraphQL query and each Redis transaction is one
  step. `AllZones` returns the first page only (`PageLimit`), in the order of
  the list view's sort key (`Rank`). Failures: a query or a write fails (a
  failed write may have been applied), a replica dies and its message is
  redelivered, a message dead-letters.
* **`EdgeCache`** — one node's `refreshOnce`: index, then version and rule-set
  for each hostname by separate commands, then the pointer swap; read failures
  and restarts. It is written against an *arbitrary* legal writer
  (`EdgeEnvironment`) and so is also the abstract specification the distributor
  is checked and proved to implement. Nodes write nothing another node reads,
  so one stands for a fleet. Two reads are merged: the epoch (compared with
  nothing) is read with the index.
* **`ConfigPropagation`** — distributor and node together, over one store.
* **`MCDistributor`, `MCConfigPropagation`** — values for the constants.

### The rate limiter

The one piece of state that the requests of a node share.

```
Budget <- RateLimit <- MCRateLimit
```

* **`Budget`** — what `ratelimit.go` promises: one fixed-window counter per key
  that is never forgotten, and a verdict per hit.
* **`RateLimit`** — `Check` in two steps, because it reads the clock *before*
  it takes the shard's lock (`ratelimit.go:67-69`): hits can be counted out of
  order, `lastSeen` can move back, and a window can begin after the hit counted
  in it. `Prune` reads the clock once and deletes key by key. The shards are one
  map: no step spans two keys. `MaxDelay` bounds the wait for the lock; windows
  must satisfy `window + 2 * MaxDelay <= Idle`, which is the comment's "longer
  than any realistic window" (`idleEviction`, 300 s) made exact. The code does
  not enforce it: a rule may have a longer window, and is then outside what is
  promised here.
* **`MCRateLimit`** — one limit for every hit, and the budget over real time.

### A request at the edge

```
MatchCondition <- ZoneCompiler --+
Budget <- EdgeRequest -----------+-> MCEdgeRequest
```

* **`MatchCondition`** — one match condition from the author's JSON to its
  verdict on a request: the save-time validator (`matchcondition.go`), the
  compiler's parser (`compile.go: ParseMatch`), the wire in both directions and
  the evaluator. A JSON value is a pair of its kind and contents; a text is a
  short sequence of letters, of which `A` has the lower case `a` and `*` is a
  pattern that does not compile. `Describes` is the reference: the author's JSON
  read as a statement about a request, defined without the compiled form.
* **`ZoneCompiler`** — rules, access-list entries and DDoS policies to compiled
  ones with their defaults and orders (`CompileZone`), and `ReadZone`, which
  gives the whole zone up when it meets one word the edge does not know.
* **`EdgeRequest`** — one node: requests (`handle` with `Evaluate`,
  `RateLimiter.Check`, clearance), the clock, edits that arrive, restarts. A
  request is one step: what concurrent requests share is the limiter, whose
  interleavings `RateLimit` covers, and an immutable snapshot. The counter of
  `Budget` is reused as it is. Rule language and matching are parameters, so the
  theorems hold for every one. `log` is a history of what became of each
  request. A signature is the tuple it is computed from. Clients present any
  cookie ever issued, or none.
* **`MCEdgeRequest`** — instantiates the language and states the promises against
  the *authored* records: `Meant` and `Precedes` use nothing of the compiler or
  of the evaluator but the vocabulary and the networks. The conditions include
  ones with a number in a list of texts (`Odd`), which the save-time validator
  accepts and of which the compiler keeps only a part. `ActedOnAsMeant` and
  `NothingEarlierMeant` name these rules as their exception (`DropsAnEntry`);
  `NeverBroader` is the promise without it, and does not hold.

### Telemetry

```
EventDelivery <- Telemetry <- MCTelemetry
```

* **`EventDelivery`** — what the path promises of an event: recorded, under way,
  then stored once or lost, for good.
* **`Telemetry`** — the nodes' bounded channels, the three branches of the
  shipper's `select`, the HTTP exchange (refused connection, 401, 413, 202, the
  client's timeout while the handler goes on), the handler event by event, the
  writer's wait, drain and writes, and stop, kill and restart of either side.
  `main` of the edge joins its requests and not the shipper; `main` of the
  ingest joins the writer.

### The services of the data plane

* **`ZoneLifecycle`** — zones-service query by query: create with the lazily
  created domain, `VerifyDomainDNS` with its cascade and with the token of the
  domain or the caller's (`expectedToken`), `SyncConfigState`, transitions and
  updates with the version the portal showed, and the guarded delete with its
  checks in sibling services. The CRUD layer is versioned (`Write`), any call may
  fail (`Abandon`). Whatever `GuardedZonesBackend` passes through, a client may
  write: a create may carry `hasConfig` and `verificationStatus`, an update any
  of `hostname`, `domainId` and these two (`EditZone`, up to `MaxFields` of them
  at once), and domains are created and updated at will (`WriteDomain`). What the
  generic update cannot write is the state of a workflow. The domain of a zone is
  an id, and a domain's apex may be other than the one its zones' hostnames have.
  `proven` and `vouched` (whose word a verification rests on: the DNS for the
  domain's own token, or a client), `synced` and `watch` are history.
* **`ScanJobs`** — `RunScanJob` and `SubmitFindings` query by query for one job,
  and a scanner that takes a scan on and posts its findings until it is told
  they arrived. Next to them clients edit the job and move it by the generic
  transition (`OperateJob`), the way `scanjob.go` says jobs are driven, and any
  transition may fail (`BreakRun`). A scan's `run`, `finisher` and `overruled`
  (the runs an operator ended) are history: the service itself keeps no link
  between a scan and a run.
* **`Alerting`** — correlation, alert evaluation (one page of policies, then one
  of events), policy tests and retention query by query; control-plane writes
  events (late by up to `MaxDelay`) and the portal acknowledges incidents next to
  them. Severity, wording and the delivery details are left out.

Each definition's source lines are in `PROJECT.json` under `map`. Definitions
commented `Mutant:` or `mutant of` are variants of a definition near them, each
a plausible slip in that code; substituting one makes the property it is paired
with fail.

## Runs

| Run | Instance | Shows |
|---|---|---|
| `EdgeCacheAnyWriter` | 1 zone, 2 hostnames, 2 versions, schemas 3 (read) and 4, 1 outage | soundness and last-good-snapshot under any writer; a store at rest is followed |
| `DistributorConverges` | 1 replica, 2 zones, 2 hostnames, `r1` a rule of `z1`, `g1` a tenant-wide list entry, a zone's two lists read separately and the one tenant-wide list that has an entry, 2 writes, 1 fault | Redis is consistent and converges; untouched zones stay |
| `EdgePropagation` | 1 zone, hostname, rule, replica and node, versions 1..2, raised by clients, 2 writes | end-to-end convergence; a version raised since the last change stands for the current content; refinement of `EdgeCache` |
| `RequestBudgets` | 1 client, 2 concurrent requests, up to 7 hits in 10 time units, window 3, eviction 5, delay 1 | pruning never changes a verdict; at most twice the budget per window |
| `EdgeRequests` | 4 families of zones, 2 clients, up to 3 requests, clock 0..3, lifetime 2, 1 edit, 1 restart | what is published can be read; requests are acted on as their authors meant, in the promised order; clearances are earned and honoured |
| `ZoneLifecycle` | 2 zones, 2 domains, 3 hostnames: two of a domain already there, one of a new domain, 2 requests at a time, 3 in all, updates of one field, 1 outside write | no zone is served unproven unless a client spoke for it; the cascade passes none by; a quiet sync is right; no held zone is deleted |
| `ScanJobs` | 1 job, 2 overlapping requests, 2 scans, 2 runs, 2 findings, 3 faults | one scan per run; a run completed by a callback has its findings; runs are mixed up by repeated callbacks and operators only; an accepted scan ends its run |
| `Alerting` | 2 overlapping requests of the four kinds, 2 zones, 2 addresses (one part of the other), groups of 1 event, 2 policies (window 0 and threshold 2; window 1 and threshold 1), 3 events, pages of 1 policy, 2 events and 2 incidents, batches of 1, clock 0..1, 1 failure | groups are raised, or hidden by an address that contains theirs; doubles only by overlap; alerts count per zone; cleanups leave nothing due |
| `EventDelivery` | 2 nodes (2 events; 1 with a wrong token), queues of 1, batches of 2, 2 faults, 1 stop | refinement of `EventDelivery`; acknowledged events in order; nothing lost without pressure |

Three more runs expect a violation. Each checks one sentence of a comment or a
document against the code, and TLC finds a behaviour that breaks it; the
quotations are under `findings`.

| Run | The code does |
|---|---|
| `SweepRace` | a sweep removes what the consumer published while it ran |
| `EdgeNeverBumped` | a rule change reaches Redis and never a node that has the zone |
| `NumbersInLists` | a number in a list of texts is left out by the compiler, and a `notIn` condition then matches more than its author wrote |

Sentences of the repository that the code does not keep and no run is spent on.
A definition states each, and TLC breaks it when the configuration named has it
as its only invariant, with the changes given:

* "DDoS budget first, then rules by priority" (`edge-plane/README.md:37`, and
  `edge-plane/go/cmd/waf-edge/main.go:20` says the same): `evaluate.go` walks
  lists and rules first and comes to a policy when none of them fired, as its
  package comment says. `NothingEarlierMeant` checks the order of the code,
  `DdosBudgetFirst` the other one (`EdgeRequests` with `Configs <-
  BudgetConfigs`).
* `verificationStatus` "proves the customer controls the hostname before
  edge-plane ever routes traffic for it" (`entities/zone.go:12`): an update gives
  a verified zone a hostname of another domain and resets nothing
  (`guardedbackend.go:296`). `ServedHostIsProven` (`ZoneLifecycle` with
  `Calls = {c1}`, `MaxCalls = 4` and no symmetry).
* "Idempotent, so calling it at any time (or twice) is harmless"
  (`zonesservice/routes.go:345`): of two overlapping syncs the one with the
  counts of before a change may write last. `SyncIsHarmless` (`ZoneLifecycle`
  with `MaxCalls = 2`, `MaxChanges = 2`).
* "Findings are created before the job is completed, so a portal user who sees
  "completed" always sees the findings that go with it"
  (`scanningservice/routes.go:167`): the generic transition, the way
  `entities/scanjob.go:6` says jobs are driven, completes a job without a
  callback. `CompletedShowsFindings` (`ScanJobs`).
* "opens one Incident per group above the threshold"
  (`alertingservice/routes.go:149`): a group is taken for one that is open
  already when the *title* of an open incident contains its address
  (`routes.go:217`). `OneIncidentPerGroup` (`Alerting`).

Other behaviours the modules show. Where a configuration is given, the change in
brackets shows it:

* With more zones than one list page the sweep unpublishes live zones
  (`DistributorConverges` with `PageLimit = 1`: `UntouchedStaysPublished`
  fails).
* An event strips the tenant-wide records from a zone until the next sweep
  (`DistributorConverges` with the invariant or property replaced by
  `EventKeepsTenantWide`), and an event of a tenant-wide record, whose zone id
  is null, is requeued for ever (`TenantWideAcknowledged`).
* Stopping an edge loses what is in its queue, and may lose the last batch:
  `main` does not wait for the shipper (`telemetry.go:79-86`). A timeout makes
  the edge count as lost what the ingest then stores.
* A callback that is repeated after its run ended is taken for the next run's,
  whose own callback then ends the one after (seen with three scans and runs;
  `MixedUpOnlyByRetry` says that only a repetition does this, or an operator who
  ended a run before its scan had).
* A scan that is refused while the second of the two transitions that fail the
  job is not answered leaves it running, for an operator to end (`BreakRun`).
* A zone created under a domain that is verified already stays unverified until
  the domain is verified again; a policy without a channel ends an evaluation
  for every policy after it; one noisy zone can fill the page of events that all
  policies are evaluated on.
* A late event that carries a hostname since taken over unpublishes its new zone
  until the next sweep; a renamed zone whose event lacks the old hostname stays
  published under both until a sweep.

Raising versions per changed zone does not carry tenant-wide changes to the
nodes, and neither does it help a hostname that passes from a deleted or paused
zone to another of the same version. `EdgeConvergesOnceBumped` names both as
hypotheses, `NoTenantWide` and `NotTakenOver`; `VersionTellsContent` needs the
first only. `EdgePropagation` has one zone, one hostname and no tenant-wide
record, where both hold of themselves; with two zones and four writes a takeover
breaks the property without its hypothesis. `VersionsTellContent` and
`DisciplineSuffices` (below) prove the safety of both for any number of zones.

Bounds. Two zones and two hostnames are what a takeover, a rename and a foreign
removal need; two writes let the second race with the first one's message, and
one fault hits every step of both loops. There is one replica in the runs: two
that race are left to the theorems, of which `UntouchedZonesStay`,
`StoreIsConsistent` and `QuietSweepsRepair` hold for any number, whatever their
builds. One record of each kind is enough because a rule-set is a set and
records do not interact. Each sweep and each message starts from its idle state,
so longer histories repeat the same interleavings. The epoch saturates (nothing
compares it). List pages limit *zones* only: the per-zone lists are assumed to
fit their page. In `RequestBudgets` the clock's ten units hold three windows and
a full eviction time after a first one; keys do not interact, so one is enough,
and two requests are what it takes to count hits out of order. `CHECK_DEADLOCK
FALSE` there because time and the number of hits are bounded: the model stops
when both are used up, the limiter does not. `Wrap` (2^32 in the code) is above
`MaxHits`: a count that wraps needs four thousand million hits of one client in
one window.

In `EdgeRequests` a family of conditions or of precedences is a set of initial
states with one request each, as neither depends on what came before; budgets
and challenges get three requests, which cross a threshold of two, expire a
window and a clearance of two seconds, and still come back. Thresholds and
windows stay far below `Wrap`. `ZoneLifecycle` has as many zones as
`CascadeLimit`: the page never cuts a domain's zones short, which in the code
takes more than a hundred. Three requests are a verification, an update and an
activation, which is what it takes to serve a zone, in any interleaving of two
of them; an outside write makes a sync stale, or a check of a
delete obsolete (what it added may go again, beyond the bound).
`MaxFields = 1` bounds an update: one of two fields leads to a state that two
updates of one field lead to. Two runs in `ScanJobs` are what a repeated
callback needs to end one that is not its own, two findings what an attempt that
stops half way needs, and three faults stop one attempt, repeat another and
still leave an edit of the job or an operator's transition. In `Alerting` three
events make a page of two overflow, two open incidents fill the page of
`OpenLimit`, two policies overflow the page of `PolicyLimit`, and batches of one
row make a cleanup need several; one tick of the clock is longer than the
retention (0), so that a row of the tick before is due, and than the window of
one of the two policies. In `EventDelivery` two events overflow every queue, and
fill a batch. All of these count requests, writes and faults, and so stop when
they are used up, which is why they say `CHECK_DEADLOCK FALSE`; what must happen
is stated as liveness instead where there is fairness. Symmetry is used only
over requests and zones that a property treats alike, and in runs without
liveness.

Fairness. `SubStep` and `SweepStep` of each replica and `RefreshStep` of the
node are weakly fair: the consumer reconnects and goes on
(`RunResilientConsumer`), both tickers never stop (`RunLoop`,
`RunRefreshLoop`), and the loops do not depend on each other. In `Telemetry` the
shipper's and the writer's loops and the handlers go on, and a process that was
told to stop does (both `main`s return); nothing obliges an event to be
recorded, a process to start again or a call to fail. In `ScanJobs` a handler
that began runs to its end and the scanner goes on posting until it is told; no
request is obliged to come. Nothing obliges a client to write, a version to be
raised, a message to be lost or a call to fail. Convergence is always stated for
what happens after the bounded writes and faults are over. The other modules'
properties are safety only and assume no fairness.

Assumptions from outside the repository: Redis executes a MULTI/EXEC atomically;
the consumer library hands over one message at a time and redelivers an
unacknowledged one; queries can succeed (that the gateway's schema accepts the
exact queries of `dataplane.go` is not part of the model); ids are never reused;
the CRUD layer refuses an update whose version is not the record's, and keeps
unique fields unique among the records that are not deleted; it writes whatever
fields a client names except the state of a workflow, as no field of
`waf.zones`, `waf.domains` or `waf.scan_jobs` is declared otherwise;
PostgreSQL's `SKIP LOCKED` skips what another transaction has locked. One
tenant, and one ingest process.

## Proofs

Checked by TLAPS for every value of the constants that satisfies the named
assumptions of the modules: `StoreAssumption`, `DataPlaneAssumption`,
`DistributorAssumption`, `EdgeAssumption`, `BudgetAssumption`,
`RateLimitAssumption`, `ClearanceAssumption`, `NodeAssumption`,
`TelemetryAssumption`, `ZoneLifecycleAssumption`, `ScanJobsAssumption`,
`AlertingAssumption`. TLC evaluates each of them on the instances above. Most
say that a bound is a number or that a marker such as `Nil` is not a record; the
ones that say more are explained where they are used.

* **`Distributor_proofs`** — `DistributorTypes` and `StoreIsConsistent`. The
  invariant is the type invariant strengthened by what a loop's program counter
  says of its locals (a loop about to publish holds a record in a servable
  state), one lemma per loop. `UntouchedZonesStay`: if there are no more zones
  than a list page, then no step of any number of replicas, clients and failures
  unpublishes a zone nobody touched. The property is not inductive: a message or
  a sweep in progress carries hostnames read long before they are acted on.
  `KeepInv` therefore says, for each untouched servable zone, that no queued
  message, no message in hand and no running sweep carries its hostname on behalf
  of another zone, and that a sweep either still has the zone to publish or has
  already counted it as expected. Unique hostnames carry the argument; the page
  assumption is needed exactly where the sweep starts.
  `QuietSweepsRepair` is what a sweep is for: from any state the system can get
  into, once no sweep is half done and clients and consumers are still, the first
  sweep to come to its end, of any replica and after any number of sweeps that
  failed or died on the way, finds in Redis exactly what should be there, and so
  it stays. `QuietInv` says of each stage of a sweep what the stages before have
  secured: all servable zones seen, then each of them seen or both expected and
  up to date in Redis, then nothing but orphans beyond them. It is an invariant
  of sweeps only, whence the form of the theorem, `[](QuietStart /\
  [][OnlySweeps]_distVars => ...)`. `QuietSweepsRemoveUnservable` is the property the
  run `SweepRace` refutes, under the same calm: the violation is due to a write
  in mid-sweep and to nothing else. `ListsFindEverything` is a true restriction:
  the sweep does not ask for DDoS policies of the whole tenant, so one would
  never be published.
* **`ConfigPropagation_proofs`** — `CacheTypes`, `SnapshotIsSound` and
  `LastGoodIsKept` under any writer: `EdgeInv` adds to the types that the store
  is keyed by hostname, that both maps are sound, and that every listed hostname
  already settled has a value whenever it was served before.
  `DistributorIsLegalWriter`: each step of the composed system is a step of
  `EdgeCache` or a stutter, so `ServedRulesAreSound` and `ServedIsKept` follow
  without a proof of their own. Four theorems say when what is served is also
  current. `QuietRefreshFollows`: a refresh that begins when the published
  versions stand still and can be read swaps in exactly what is published
  (`RefreshFollows`: each hostname is still to be read or its fresh value has the
  published version). A refresh carries a rule-set forward on its version alone,
  so this says nothing of content. `VersionsTellContent` does: as long as no
  record is tenant-wide, whatever a node serves under its zone's current version,
  raised since the last change, is the zone's current rule-set. `TellsInv` says
  the same of every rule-set, record and half-read rule-set on its way there: in
  a message loop, in a sweep, in Redis, in either map of the node. Both loops
  read the version before they read the records, so a change after the version
  was read puts the zone in `owed`; versions only grow and ids do not come back,
  so the version that is raised then is one nobody has read yet.
  `QuietSystemServes` and `QuietSystemIsCurrent` join all of it, from the data
  plane to the node, from any state the system can get into: with clients and
  consumers still, the first refresh that begins after a sweep came to its end
  serves exactly the servable zones, and with their current rules if the node
  held nothing stale under a current version. `DisciplineSuffices` says what
  makes the latter true: no tenant-wide record, every change followed by a raised
  version, no hostname passed on to a zone of the version its former zone is held
  under. They assume what the distributor's theorems do, and that the node can
  read every schema the replicas publish.
* **`RateLimit_proofs`** — `ForgottenIsExpired` and `PruningIsInvisible`. That a
  verdict equals the one of a limiter that forgets nothing needs to know what a
  missing counter would have held: `ForgottenExpired` keeps, beside each counter
  in memory, the one that was never pruned, and says that the two are equal or
  that the latter is out of every window a request under way, or one still to
  come, can count in. `lastSeen` may lag behind `windowStart` by `MaxDelay`, and
  the request by `MaxDelay` behind the clock: hence the factor two.
  `TwiceTheBudget`: `SpanInv` says of the hits let through that the ones of a
  window bear different numbers up to the threshold, that windows of a key begin
  at least a window apart, and that a hit is at most `MaxDelay` older than its
  own. A span of a window less `MaxDelay` therefore meets two windows at most,
  and its hits map one to one to places among twice the threshold. The theorem
  is about one limit, as the run is, and about the behaviours in which no counter
  reaches 2^32 - 1 (`NoCounterFills`): beyond that the number wraps and the
  client gets its budget again.
* **`EdgeRequest_proofs`** — for every rule language, number of hosts and
  clients, edit and restart. `ClearanceIsEarned` and `ClearanceEndsTheChallenge`
  are not inductive: both need to know of every cookie in circulation that it was
  handed out with a challenge and signed for the zone, the address, the run and
  the expiry of that challenge. `ClearanceInv` says this of every entry of the
  log; `HandleLogs` is the one lemma about the branches of `handle`.
  `NodeIsTyped` and `BudgetsAreUsedUp`: `CountersInv` relates the limiter to the
  log. No counter shows more hits than the requests of this run that matched a
  record with this budget since the counter's window began, whatever was edited
  in between, so a record with a budget acts only beyond it. This is the part of
  `ActedOnAsMeant` that does not depend on the rule language. `NodeAssumption`
  says that the compiled limits are numbers and every budget has a key; a window
  that is cut to zero by the conversion to 32 bits (`compile.go:299`) is
  excepted by the statement.
  `TheFirstMatchDecides`: a request goes on past a record that matches it only if
  that record has a budget, and what is logged of it is the action of the record
  that stopped the walk. It holds of every rule language, so what is left to the
  run is whether the compiled records match as their authors meant. For it,
  `NodeAssumption` also says that no member of a compiled rule-set is `Nil`.
* **`ZoneLifecycle_proofs`** — five theorems, for any number of requests,
  hostnames and zones, whatever clients write and whatever fails.
  `ServedZonesAreProven`: the guard of `activate` reads the zone's copy of a
  status that another handler writes, so `ProvenInv` follows the copy back: a
  verified zone that no client spoke for belongs to a domain that was proven or
  spoken for, and so does every zone a running cascade still has to write; a
  write that moves a zone or verifies it is a client's word. The same of the
  *hostname* is false (`ServedHostIsProven`, above), as an update leaves the
  domain where it was. A comment of `Update` says that a zone's domain never
  changes (`guardedbackend.go:284`); nothing there refuses an update that names
  another, so the model lets a client do it, and counts it as the client's word.
  `RecordsAreTyped` and `CascadesPassNoZone` rest on `RecordInv`, which adds
  what a cascade knows of each zone it has listed. `SyncsAreRight` and the
  action property `HeldReferencesRefuse` rest on `HistoryInv`: a sync that is
  still fresh is about to write what the zone's records amount to, and the zone
  has no other while it is alone (`SyncInv`); a row that has referred to the
  zone throughout a delete is one of a service the delete has still to ask
  (`HeldInv`). Versions are naturals there; the bound on them is the run's.
* **`ScanJobs_proofs`** — `CompletedJobsHaveFindings`: `FindingsInv` relates a
  callback's position in its loop to the rows that exist (a retry starts from
  the first finding again, the rows stay); a job that no callback completed was
  completed by an operator. `RunsAreAskedOnce`: `RunsInv` says that a request
  about to ask the scanner holds a run for which no scan was asked and which no
  other request holds; the version check of the `run` transition establishes it.
  `ScanRecordsAreTyped`. `OnlyRetriesMixUp`: while every scan is reported once
  and no operator ended a run of a scan (`OverruledInv`: a request that still
  names such a run holds an outdated version, so none of its transitions
  applies), `HeldInv` says that the run in progress is held by one request that
  has still to hand it to the scanner or to fail it, or by the scan that has
  still to end it, and never by both; `ReportsInv` says that the findings a
  callback has not come to are not there yet.
* **`Telemetry_proofs`** — for any nodes, queue and batch sizes, and whatever is
  lost, delayed, stopped or killed. `DeliveredOnceOrLost` is the safety part of
  the refinement of `EventDelivery` (`DeliverySafety`): every step moves each
  event along the promised path or leaves it alone. `AcknowledgedKeepTheirOrder`:
  a handler the client no longer waits for may still be running, so
  `TelemetryInv` orders only the events that are, or may yet be, counted as sent
  (`Live`), across the node's queue and batch, the handlers, the ingest's queue
  and batch, and what is stored.
  `NothingIsLostQuietly`: `QuietOK` says where an event that was let in is while
  nothing has gone wrong, and needs the queues' sizes to do so.
* **`Alerting_proofs`** — for any events, windows, addresses and overlapping
  requests. `GroupsAreAllRaised` and `DuplicatesNeedOverlap` share
  `IncidentInv`, which dates what each correlation has seen by the length of the
  incident list when it began. `GroupsHaveTheirOwn`: where no address is a part
  of another one, `OneIncidentPerGroup` holds, which is false otherwise.
  `AlertsAreEarned`: `AlertInv` says that each count in hand and each
  notification has its events in the history, from which nothing is taken.
  `CleanupsAreComplete`: `CleanupInv` accounts for the rows that were due when a
  cleanup took a batch that is not full: deleted, in somebody's batch, or in one
  that failed.

Only model-checked: everything about fairness, which is out of the prover's
reach. Of `StoreConverges`, `HostsConverge`, `EdgeConvergesOnceBumped`,
`IndexFollowed` and `VersionFollowed` the theorems above prove the safety half,
that the first sweep or refresh to come to its end leaves what it should; that
one does come to its end is checked by TLC. So are `AcceptedScanEndsItsRun` and
the promise of `ImplementsDelivery` that every event settles. The theorems about
refreshes speak of all hostnames at rest and readable together, the properties
of each by itself. Also left to TLC: `PublishedIsReadable`, `ActedOnAsMeant` and
`NothingEarlierMeant`, which compare the node with the authored conditions and
rest on recursive operators; and the violations.

## What is left

1. Proofs: the budget of `EdgeRequest` as an instance of `RateLimit`, so that
   `TwiceTheBudget` speaks of requests and not of hits.
2. A composition of `ZoneLifecycle` with `Distributor`: `DataPlane` leaves the
   zone's writes freer than the service does, which is sound for what is checked
   there, but does not show the service's routes at work.
3. Larger instances: a domain with more zones than one cascade page, two nodes
   that both overtake each other at the ingest.

Not modelled and not planned: the GraphQL gateway (a stateless translation,
whose answers and failures are those of the distributor's queries), the portal
(a client; the modules leave its requests and writes free), entry points and
configuration (wiring), HTTP proxying, wording and pages (no state), the delete
of a domain, the create and delete of a scan job and the workflow of a finding
(plain CRUD that no property here depends on), and the routes `TestOrigin`,
`DeepHealth` and the health endpoints (they change nothing).
