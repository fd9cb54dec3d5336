# Verification of app-health

app-health is an analytics and API-monitoring service: SDKs (JavaScript, Go,
Swift), a page logger and a tracker script measure requests, logs and events in
a customer's process and post them to a Cloudflare Worker (`apps/worker`), which
keeps control data in D1 (SQLite), bytes in R2, per-site and per-endpoint state
in Durable Objects, and moves background work through queues and an hourly
cron. This directory holds TLA+ models of the parts of that system whose
correctness depends on the order of steps of several actors, the TLC
configurations that check them on small instances, and TLAPS proofs of what
matters most for every instance.

Contents: [parts](#the-system) · [modules](#modules) · [runs](#runs) ·
[fairness](#fairness-and-deadlock) · [disagreements](#where-the-code-disagrees-with-its-own-words) ·
[proofs](#proofs) · [limits](#what-is-not-modelled) · [plan](#plan)

## The system

| Part | State it keeps | Operations | What is hard | What makes it correct |
|---|---|---|---|---|
| Product event ingest (`product-event-routes`, `-archive`, `-reservation`, `-cleanup`; migrations 0034, 0036, 0038) | `product_batches`, `product_event_claims`, `product_event_usage`, `product_object_gc`; one R2 object per batch | reserve, store, seal; expire, retire, fence, delete | D1 transactions and R2 calls interleave, requests stall and die between any two of them, retries and rebatches overlap, receipts expire while a request is alive | an event counts once; an answered event is stored; a stored object is intact while reports use it, and is erased afterwards; nothing leaks; counters are exact |
| Product segment compaction (`product-compaction`, `-segment-publish`, `-segment-cleanup`; 0040, 0041) | `product_report_segments`, `product_compaction_jobs`, the garbage table | lease a partition, select, merge, publish, mark clean; expire | leases outlived by their holders, clocks bound before the statement runs, late seals, crashes between object and table | no event lost from or doubled in the index; indexed objects intact; snapshots stay readable; no new segment forgotten |
| Product maintenance wake chain (`product-event-maintenance`, `analytics-entry`) | one row: wake token, processing flag, `wake_until` | cron or request starts a chain, the consumer claims, works a slice, continues, restores | at-least-once queue, lost or late messages, failing sends, crashes, duplicates | one run at a time; the row never waits for a message nobody has; due work gets done |
| Payment provider jobs (`payment-provider-jobs`, `-connections`, `-routing`, `-process`, `-fence`, `-issues`, `-pages`, `-webhooks`, `-store`, `-api`; 0033) | connections with generations, jobs with leases and cursors, assignments, the ledger, issues | import, webhook, claim, slice, persist, cancel, resume, disconnect, replace credentials, change routing | leases and generations that change under a slice, late writes, refunds before payments | writes are fenced; one lease; cursors never go back; nothing skipped; one destination; nobody stranded |
| Provider wakes (`payment-provider-wake`, `-queue`; 0037) | a wake token with its reservation on each job row | reserve, send, consume, wake a sibling, pump | as in the maintenance chain, per job | a live job's wake is in the queue or in somebody's hands; what is lost with its holder, the pump finds |
| Payment ledger (`payments-*`; 0031) | facts with triggers that aggregate refunds per payment; a map in memory for development | record, report | refunds before payments, conflicting versions, two implementations | refunds never exceed their payment in any order; both ledgers answer alike |
| Endpoint rollups and cold archive (`endpoint-*`) | rows of three resolutions, R2 partitions, manifests | record, roll up, archive, retire, report | verify before retire, late measurements, two compactors, reports over rows and objects | no measurement lost or doubled by a retirement; a report shows one moment |
| Telemetry ingest (`service`, `endpoint-durable`, `d1-adapter`) | endpoint receipts, environments, counters; log claims, rows, quota, alerts | accept a batch, an OTLP request, a log batch; delete what is old | retries that overlap, receipts that expire under an attempt, claims before the store | counted once; what is counted has its endpoint and, while failures are kept, its failure on record; what the routes store of accepted logs is kept; limits hold |
| Browser ingest and exact visitors (`browser-batch-claim`, `-visitor-daily`, …) | batch claims, receipts, day fences, visitor sets, rollouts of worker versions | claim, send, commit; fence, seal, read, prune | receipts that commit after their day was sealed, versions without receipts | one set of facts per identity; a complete day misses nobody and does not change |
| Browser archive shard (`browser-archive`, `archive-segment`, …) | a Durable Object's SQLite: pending events, dedupe ledger, outbox, index; R2 segments | stage, project, seal, put, verify, complete, retire | alarms, eviction, redelivery, puts that failed but stored | a batch keeps its first facts, is in one object and is projected once |
| Browser archive audits (`browser-archive-audit-jobs`) | a job with lease, cursors and partial segments | slice over receipts and segments, verdict | slices that outlive their lease, that end in the middle of a segment | every row counted once; the verdict is that of the synchronous audit |
| Browser presence (`browser-presence`) | rows per session, sockets, one alarm | heartbeat, prune, frame, connect, end | an alarm shared by frames, prunings and socket leases | what the object sent last is late by less than a beat and a frame's gap; sockets end with their lease, late by as much |
| Workspaces (`workspace-access`, `workspace-store`, catalog import) | members, invitations, roles; signups; apps with catalog ids | invite, accept, change roles, remove; first session; import | two acceptances of one seat, two first sessions, an import that meets another | limits hold; members were let in; an import is all or nothing |
| Conversion reports (`conversion-evaluator`) | facts read from the archive | read facts, evaluate funnels | repeated facts in any order, facts of one instant | the report is what its facts say, whatever the order |
| JavaScript client, web logger (`packages/node`), Go client (`packages/go`), Swift client (`packages/swift`), tracker (`apps/web/scripts`) | queues, batches in flight, timers, counters | record, flush, close, beacon, withdraw consent; retry, re-arm | calls arrive at every suspension, timers fire while a flush runs | every item accounted for; queued items get sent; flush and close keep their promises |
| Everything else | see `PROJECT.json` | request handlers over single SQL statements, reports, formatting, user interface | little that interleaves | – |

How they interact. A product request reserves, stores and seals
(`ProductIngest`); its seal adds a segment and dirties the partition's job
(`ProductCompaction`); after the answer it compacts what it can and, when work
is left, wakes the maintenance chain (`ProductMaintenance`), whose consumer runs
the cleanup and the compaction. Cleanup retires receipts and segments and shares
one garbage table of R2 keys between ingest and compaction. A provider webhook
or an owner's import creates a job; the wakes (`ProviderWakes`) call the slices
(`ProviderJobs`), which write into the payment ledger (`PaymentLedger`). A
browser batch is claimed and sent to a queue (`BrowserVisitors`), whose consumer
stages it in an archive shard (`BrowserArchive`); the shard's segments and the
batch receipts are compared by an audit (`ArchiveAudits`), and reports read
segments (`ConversionReport`). Clients meet the service only in HTTP answers.

## Modules

| Module | Models | Actions and the code they stand for |
|---|---|---|
| `ProductIngest` | one product scope: receipts, claims, usage counters, the segment row, the R2 object, requests and cleanup runs | `Reserve` is the one D1 batch of `reserveProductBatch` (purge, insert, claims, with every trigger), `ReadOwned` its separate SELECT, `PutObject`/`VerifyObject` are `persistedObject`, `Seal`/`Confirm` are `sealProductBatch`; `RetireReceipt` is one receipt of `retireReceipts`; `PickGarbage`, `CleanObject`, `CleanRow` are the read, the R2 call and the D1 statement of `cleanupObjects`. `Abandon` and `StopCleaner` end a request or a run at any await. |
| `ProductCompaction` | one partition: segments, objects, garbage, the job's lease, compaction runs, a report | `Seal`, `Reseal` (what ingest does to the index), `Claim`, `Select`, `ReadSources`, `TrackCandidate`, `StoreCandidate`, `Bind`, `Publish`, `Clean`, `Fail`, `Release` follow `compactProductArchive` await by await; `Bind` and `Publish` are apart because the publication compares with a clock read before its statement runs. `Snapshot`, `ReadObject`, `FinishRead` are `readProductArchive`. |
| `ProductMaintenance` | the wake row, the queue, consumers, the cron, product requests | `Maintain`, `Send`, `SendFails`, `Restore`, `MaintainThrows` are `maintainProductArchive`; `Deliver`, `Check`, `Consume`, `Look`, `RunSlice`, `EndChain`, `Throw`, `Failed` are `consumeProductMaintenance` and `consumeOne`. A slice of work is one step. |
| `ProviderWakes` | the wake tokens of a connection's jobs, the queue, a consumer, owner, webhooks and pump | `Reserve`, `Send`, `SendFails`, `Restore`, `RestoreFails` are `wakeProviderJob`; `Deliver` to `Failed` the queue consumer with its sibling wake; each call of a pump's pass is a call of its own. A slice is one step. |
| `WakeChains` | – | composes both chains: a behaviour is one of either, and `part` bounds what happens in it for TLC |
| `ProviderJobs` | connections, jobs, workers, assignments, ledger, issues | the owner's operations (`StartImport`, `AcceptWebhook`, `Cancel`, `Resume`, `Disconnect`, `ReplaceCredentials`, `SaveRouting`) and the slice of a worker, one action per await. Every `Persist` compares with the JavaScript clock, every `Fence` with the database's. |
| `PaymentLedger` | the D1 ledger with its triggers beside the local one | `Record` gives both the same request; `agreed` remembers that they answered alike |
| `EndpointArchive`, `EndpointHistory` | one series over a day: rows of three resolutions, compactors, manifests, objects, reports; and the abstract history | `Candidate`, `Snapshot`, `VerifyCoarser`, `Put`, `ReadBack`, `RecordManifest`, `RetireSnapshot` are the steps of a partition, `ReadHistory`, `ReadArchives` those of a report. Contents address an object, so a key is the resolution with the counts. |
| `EndpointIngest`, `LogIngest` | requests that deliver endpoint measurements and logs, statement by statement | the metadata before (the inventory of every event, the failures of those with a status of 400 or more), the counting transaction and the receipts, the cron that deletes receipts and failures; claim, store of what the routes store, forget, answer and alert |
| `BrowserVisitors` | batch claims and receipts, day fences, rollouts, the visitor evidence | `Claim`, `Send`, `Commit` of a request, `Begin` and the audit of a rollout, `Seal`, the reading of a day, retention |
| `BrowserArchive`, `BrowserHistory` | the shard with the queue in front and R2 behind; and what it promises | `Stage` is the stage transaction of a delivered group, `Alarm` to `EndAlarm` the alarm handler await by await; `Crash` evicts the object |
| `ArchiveAudits` | the audit job and its runners | claim, receipt slices, index slices, their guarded writes, failure, retry, expiry, verdict |
| `LivePresence` | the presence object | heartbeats, the alarm, frames, sockets, removal of a viewer, eviction |
| `WorkspaceAccess`, `WorkspaceSetup` | invitations, members and roles; first sessions and catalog imports | one action per SQL statement or batch |
| `ConversionReport` | the facts a report has read | `Read` adds one; the evaluation is a definition compared with a reference definition |
| `NodeClient`, `GoClient`, `SwiftClient`, `WebLogger`, `TrackerScript` | the five clients | one action per macrotask, actor suspension or channel operation; the collector answers or fails at will |
| `Clients`, `WorkerStores`, `Archives` | – | compose the clients, the worker's stores, and the two archives, for TLC |
| `MC…` | constants of the small instances, second instances | – |
| `…Proofs` | – | theorems, see [below](#proofs) |

`Clients`, `WakeChains`, `WorkerStores`, `Archives`, `MCProductCompaction` and
`MCProviderJobs` put several instances into one run: their parts share no state in the code, so
a behaviour is of one part only (the variable `part`, `long` or `owner` says
which and never changes), and a property is the conjunction of what is asked
of each. Variables of one module stand for those of another where that keeps
states small.

Operators whose names extend a mapped definition's (`TakeableNever`,
`ClaimableProcessing`, `PutUnread`, …) are deliberately wrong variants of it.
`PROJECT.json` pairs each with the property that detects it; no specification
uses them.

Data is abstracted to what the properties tell apart. An event is an id and a
version (two versions of an id have different digests), a body in R2 is the
set of events in it, a hash is the body, a rollup row is its request count.
Encryption, validation and JSON are left out. In `ProductIngest` and
`ProductCompaction` time is a counter up to `MaxTime`; in the wake chains and the
provider jobs a time is what is left of it, so that these models run for ever
in finitely many states. The statements' clock matters: where a statement binds
`Date.now()` it may commit later than it compares (`Flight`, `Delay`).

Some steps stand for more than one and why that is sound:

* `ProductIngest`: all parties read one clock, and no request or maintenance run
  outlives `RunLife`, of which only `2 * RunLife < Tombstone` (35 days) is assumed.
* `EndpointArchive`: a report reads its clock and the rows in one step, and the
  hot SELECT and the manifests' share a transaction. The writer of a measurement
  checks no timestamp, so it may be as late as it likes.
* `BrowserArchive`: the staged bytes are shared by all batches of the shard, so
  any stage may be refused. A put that lands after its call failed is
  the same as one that landed at once, as nothing else writes the key. A ledger row
  expires (31 days after its batch was archived) only when the queue no longer
  holds the batch.
* `ProviderWakes`: leases, reservations and retry times are flags; when they end
  is left open, and ending earlier than they promise is one of the counted faults.
* `EndpointIngest`, `LogIngest`, `LivePresence`: the platform ends a request
  after `Transit`.

## Runs

| Run | Asks | Bounds, and why they are enough |
|---|---|---|
| `ingest` | exactly-once, intact, published, erased, no orphan, exact counters | 2 requests, 2 batch ids, 3 events over 2 ids (one conflicting version, one subset rebatched), 2 reservations, 2 cleanup runs. The times keep their order: expiry 1 < retirement 2 < identity 3, grace 1, tombstone 3, the acceptance window 1+1 < identity; with `MaxTime` 9 the whole life fits, from reservation to the deletion of the tombstone, also of a receipt replaced by another. |
| `compaction` | indexed objects intact, no leak, no forgotten segment, counted once, snapshots readable | Long instance: 1 run and a report over 4 instants in which segments expire, retired objects leave their grace and are fenced. Short instance: 2 runs that steal the lease from each other, 2 raw and 2 merged segments, late statements (`Flight` 1), candidates that expire. |
| `maintenance` | exclusion, live chains, work done | Product chain: 2 consumers (the queue's `max_concurrency`), the cron, and either a product request or one failure of any kind. Provider wakes: 1 job with a failure of any kind, or 2 jobs of a connection without, one consumer, the owner, webhooks and the pump. Slices continue (2). 4 tokens are as many as can be mentioned at once; one nobody mentions can be drawn again, so they suffice for chains of any length. |
| `provider_jobs` | fences, one lease, forward only, refunds with originals, nobody stranded, one destination, nothing skipped | First instance: 2 workers, leases of 2 with clocks that are 1 late, an import that lists a payment outside of the window and a refund, a webhook for that refund. Owner's instance: 1 worker, 2 generations, 2 routings, every failure the client of the provider tells apart; the import lists the payment that the webhook's refund is of, and an empty page; the owner acts between any two steps. |
| `clients` | conservation, settled flushes, clean closes, delivery, termination | Go: 2 recorders, channel 2, batches of 2, 1 retry, 3 events. JavaScript: queue 3, batches of 2, 1 retry, 6 items of 3 kinds. Web logger: queue 3, batches of 2, 3 attempts, 5 logs. Swift: queue 3, batches of 2, 2 attempts, 4 items, 1 timer cancelled too late. Tracker: 2 waiting, 2 suspended calls, 3 events, 1 withdrawal. Queues overflow, batches fill, drains find more than a batch. |
| `archives` | the shard refines `BrowserHistory` with its liveness, one object per batch; the endpoint archive is invisible (refines `EndpointHistory`), manifests are backed | Shard: an identity with two sets of facts and one with one, 2 segments of 1 batch, 1 consumer, 1 eviction at any point. Endpoints: 2 compactors and a report over a day of 2 hours of 2 minutes, 2 busy minutes in different hours, 2 requests: a minute, an hour and the day differ, a report can cut an hour, rows come back after their retirement. The symmetry is that of the compactors, of which the liveness (the shard's) and its fairness do not speak, so it is sound for both. |
| `worker_stores` | nine parts, one at a time: see the module | Visitors: 2 days, 3 messages (one over both days, one identity twice), 2 requests, 2 generations of which one records. Audits: 2 runners, 3 segments on 2 shards, a batch archived twice and one with other facts, slices smaller than a segment. Presence: 2 sessions for one row, one socket. Access: 2 guests, 2 invitations, 1 seat. Setup: 2 owners, an app from before, 3 imports. Payments: 9 requests that exceed, repeat and conflict. Endpoints and logs: 2 overlapping attempts, receipts and a failure that expire within the clock, a log the routes do not store. Report: 8 facts, of which 5 are read in any order, 3 steps. |
| `maintenance_owner`, `node_client_close`, `go_client_count`, `web_timer`, `presence_frame` | see [below](#where-the-code-disagrees-with-its-own-words) | these runs end with a counterexample |

What the passing runs show, in words:

* **Ingest.** Whatever retries, rebatches, stalls and dies, no id is accepted by
  two receipts on record (`AtMostOnce`), an answer "accepted" or "duplicate" is
  backed by an archived event (`AckedArchived`), the object of an unretired receipt
  holds exactly its events (`ObjectIntact`), the index lists exactly those
  (`Published`), every object has somebody who will remove it (`NoOrphan`), and
  after the fence no event bytes come back (`Erased`). `NoOrphan` depends on a
  check far from the archive: `validTimes` in `product-event-routes.ts` refuses
  events older than 24 hours. Without it (the variant `ValidTimesSkipped`) an event
  whose identity was forgotten after 35 days could be claimed again for an
  already sealed, empty receipt while a stalled second request for that batch
  reads its claims, and the object it then writes belongs to a receipt that is
  later retired as empty. `Window + Skew < IdentityTtl` is therefore an assumption
  of the module. The conditional create of `persistedObject` is what `Erased` needs;
  `ObjectIntact` would hold without it.
* **Compaction.** The lease guards the index, not the clock alone: a publication
  that is bound in time and commits late cannot resurrect an object that has
  been fenced, because the lease and its flight are shorter than a candidate's
  life. `CountedOnce` says when an event leaves the index: not before its
  retirement minus the one day by which merged segments may differ.
* **Wake chains.** The product's runs exclude each other as long as no failed
  duplicate gave a held token back (see below) and no run outlived its lease
  (`OneRun`). No row waits for a message that nobody carries (`Alive`), with
  exceptions that the variable `seen` records. Of the product: the message was
  lost, with its sender or in the queue; or a redelivery met the end of the lease
  between its two reads: `consumeOne` decides "busy" with a second clock reading
  (line 68) after the claim (line 59), so a redelivery that finds the lease live
  at the first and over at the second is acknowledged as stale, and nothing
  carries the token any more. Of a provider job ("broken"): its wake was lost with a
  crash, or by somebody else's failed send, or it came to nothing while the job was
  not live, as when a paused job's wake is consumed as stale, after which
  `resumeProviderJob` finds the token still reserved and sends none; or two deliveries
  of one message overlapped ("twice"). In all of these cases the work is done by
  the next cron or pump (`Done`).
* **Provider jobs.** A worker that outlived its lease changes nothing that a
  reader sees; live jobs follow the connection's generation, so that disconnecting and
  reconnecting strands none of them; a transaction goes to one destination whatever
  the owner does to the routing between its look-up, assignment and write.
* **Clients.** Every item is queued, in flight, or counted once; a timer is
  re-armed behind a drain (not in the web logger, see below), so what is queued is
  delivered while the client is open; flush and close return, and a closed client
  or one whose consent was withdrawn is empty and quiet.
* **Endpoint archive.** No request is lost or counted twice by a retirement,
  whatever arrives late or fails, and a report that mixes rows with objects
  shows the counts of one moment.
* **Browser archive.** The facts a batch was staged with never change and are never
  forgotten, and what was staged is archived and projected in the end.
* **Stores.** `Watched` grants a frame a beat and the gap between two frames, less
  than eleven seconds, and speaks of sockets that show the last frame. A new socket is
  sent a snapshot that is not remembered as the last frame (`browser-presence.ts`), so
  when the counts return to the last frame's it is told nothing: that case is the run
  `presence_frame`, see below. `Ingested` says that what is counted is in the inventory
  and, if it failed, among the failures as long as failures of its age are kept (24
  hours in the code); and that what the routes store of an accepted log batch is there
  until it expires. It excepts log batches that were told to be duplicates of an attempt
  whose store then failed.

Each property of a passing run is paired in `PROJECT.json` with a variant of
a definition under which the same run finds it violated.

## Fairness and deadlock

* `ProductMaintenance`: weak fairness of a consumer's steps, of each actor's
  `maintain` steps, of delivery, the cron and time. The platform runs what it has
  started, the queue delivers (three retries, then the dead-letter queue, which is
  `Lose`), the cron `17 * * * *` fires every hour. Nothing obliges requests or
  new work to come. `Done` is checked with `Life + Delay + Life < Lease`: a run,
  a delivery and the next run fit into the sixty seconds of `wake_until`; and with a
  retry delay above zero (30 s in the code). Failures are finitely many (`Faults`).
* `ProviderWakes`: the same; delivery of a job's messages is strongly fair, as a
  batch may hold others first, but a message that is retried is among the first
  of a batch again and again.
* `NodeClient`, `SwiftClient`, `WebLogger`, `TrackerScript`: the drain's own
  steps and the timer; in the tracker also calls that wait for the storage lock. The
  collector may answer or fail at will; that a request ends is the transport's timeout.
* `GoClient`: the loop goroutine, `Close` after it has begun, a caller
  of `Flush` that finds the client closed, and recorders past their test. Strong
  fairness of `Stopped` and `FlushAsked`: Go's `select` chooses uniformly among ready
  cases, so a case that is ready again and again is taken.
* `BrowserArchive`: alarms fire and their handler goes on; R2 and the analytics
  binding succeed again and again if not always (strong fairness of
  `AlarmDrains`, `PutLands`, `Answered`): the shard retries every minute.
* The compositions (`WakeChains`, `Clients`, `Archives`) state the fairness of each of
  their parts; of the endpoint archive only safety is asked.
* `CHECK_DEADLOCK FALSE` is set where the system may stop: the clock, the items,
  the faults or the jobs end at a bound. `maintenance_owner` leaves it on.

## Where the code disagrees with its own words

| Run | Property | What happens |
|---|---|---|
| `maintenance_owner` | `OwnershipKept` | The `catch` of `consumeProductMaintenance` restores the row of the token for any delivery that throws, also for a duplicate that never claimed it. A duplicate whose claim statement fails takes the live lease from the run that holds it, and a third delivery starts beside it. A test of the repository says a duplicate is deferred "without resetting ownership". |
| `node_client_close` | `CloseFlushes` | `close()` returns the running drain, which does not look back at queues it has passed. In the run a full batch of endpoint events has been sent and the drain has found the queues empty; another endpoint event is recorded before its promise settles, and `close()` resolves with that promise while the event stays queued for good. The doc comment promises to "flush remaining events". |
| `go_client_count` | `AllCounted` | A batch in backoff when `Close` stops the client is in no counter. The comment says "All failures are counted". |
| `web_timer` | `FlushesAutomatically` | The timer of the web logger that fires while a flush runs is never forgotten, so no timer is set again and logs below the batch size stay queued. A test says "flushes automatically at the batch size and after the timer". |
| `presence_frame` | `ObservedInTime` | The last frame said that nobody is there; a heartbeat within the gap after it sent none; a socket that opens is sent a snapshot with one viewer, which is not remembered as the last frame. The session expires, every later alarm finds the counts of the last frame and sends nothing, and the socket shows the viewer until a count changes or its lease ends. `docs/browser-analytics.md:100-102`: "a connected dashboard can observe expiry up to ten seconds later". Also where a frame does arrive, and for the lease of a socket (`:326`, "at most ten seconds"), the code keeps to less than a beat and a gap, eleven seconds. |

These are properties of reliability in rare interleavings; each quotes its line in
`PROJECT.json`.

## Proofs

TLC shows a property for one small instance; the theorems hold for every value of
the constants that meets the named assumptions. All are checked to the last leaf.

| Module | Theorems |
|---|---|
| `ProductIngestProofs` | `TypeCorrect`, `Invariant` (`IInv`), `AcceptedAtMostOnce`, `ObjectsIntact`, `AnswersBacked`, `ReportsComplete`, `CountersExact`, `ErasureInvariant` (`EInv`), `NothingOrphaned`, `ErasedForGood`: all eight properties of the run `ingest` |
| `ProductCompactionProofs` | `CompactionInvariant`, `TypeCorrect`, `EventsCountedOnce`, and the lemmas from which `MCProductCompactionProofs` has `IndexIntactAlways`, `LeaklessAlways`, `CompleteAlways`, `OnceAlways`, `ReadableAlways`: all five properties of `compaction`, of its specification with both instances |
| `ProviderJobsProofs` | `JobsInvariant`, `TypeCorrect`, `WritesFenced`, `OnlyForward`, `LeasesExclude`, `ImportsComplete`; from the invariant `MCProviderJobsProofs` has `OriginalsAlways`, `LeasedOnceAlways`, `NoneStrandedAlways`, `SameDestinationAlways`, `NoneSkippedAlways`: all seven properties of `provider_jobs` |
| `WakeChainsProofs` | `MaintenanceInvariant` (`PInv`), `RunsExclude`, `MaintenanceAlive`; `JobsInvariant` (`WInv`), `JobsAlive`; and of the composition `OneRunAlways`, `AliveAlways`: both safety properties of `maintenance` |
| `WorkerStoresProofs` | of the browser's batches `VisitorsInvariant`, `OneSetOfFacts`, `CompleteDaysExact`, `SealIsFinal`: its three properties; of presence `WatchedAlways`; of endpoint events and logs `IngestedAlways`; of workspaces `AdmittedAlways`; of the payment ledgers and conversion reports `ReportedAlways` |
| `BrowserArchiveProofs` | `ArchiveInvariant`, `BatchesOnce`, `ArchiveRefines`: the shard implements `BrowserHistory` up to its liveness |

None of these properties is inductive by itself. What the invariants add:

**ProductIngest, `IInv`.** That two receipts do not accept one id follows only
from who holds the claim, and that an answer is backed only from what a request
may still believe after it has stalled. *Tables*: a claim belongs to a receipt on
record that has the event in its input (`ClaimsBacked`); a sealed receipt still
holds the claims of what it accepted (`AcceptedClaimed`) and everything in its
input has been archived (`SealedCovered`). *Requests*: a request's receipt is its
batch's (`WorkerBatch`); once it has read its claims, each event of the batch is
among them or archived already (`WorkerClaims`), and past the create its body is
stored until retirement (`WorkerStored`). *Objects*: only the keys of retired
receipts are garbage or being cleaned (`GarbageRetired`). `WorkerClaims` is the
heart: a claim changes hands only when its receipt expires or is forgotten, a
fresh claim is made only where nobody holds one, and an event held by another
batch's pending receipt aborts the reservation, so what a request does not own
has been archived.

**ProductIngest, counters.** `UsageExact` is proved with the cardinalities of the
claimed ids and the live receipts: each statement's trigger moves the counter
by the size of the part that it takes out or adds (`WithoutPart`, `WithPart`).

**ProductIngest, `EInv`** (on top of `IInv`). *Claims*: a live receipt keeps
its claims, and a request owns exactly what its receipt holds
(`OwnedExact`), because a resent event is younger than the identities' life
(`ClaimsRecent` with `Window + Skew < IdentityTtl`). *Times*: a tombstone
outlasts every request that may write its key and every run that may fence it
(`TombstoneLasts`, `FenceAfter`, `DeleteAfter` with `2 * RunLife < Tombstone`).
*Stored*: an object in use is there for events its receipt owns, a request that
may still create the object of a retired receipt is waited for by a garbage row
(`WriterAwaited`), and a fenced key stays fenced until its tombstone is over.
`Erased` is then the action property that a fenced key never holds events again.

**ProductCompaction, `IInv`.** *Rows*: every active row's object is whole and not
garbage (`ActiveKept`), active rows are disjoint and hold each present event
until it expires (`Disjoint`, `Held`), no event lies more than a day after the
receipt its row expires by (`Spans`). *Runs*: a candidate is not indexed, and
while its run holds the lease it is not due before the lease and a last
statement have ended (`CandidateOf`, from `Lease + Flight < Candidate`); a
bound publication commits within `Flight` (`BoundBy`); a run that marks the job
clean has seen every active row or the epoch has moved on (`SeenBy`).
*Readers*: what a report still has to read is whole until its deadline (`ReaderOK`,
from `ReadLife + Flight < Grace`).

**ProviderJobs, `IInv`.** *Rows*: a cursor is at a place of the listing (`Placed`) and
never ahead of what is recorded, noted or filtered (`Behind`). *Workers*: while
the row has a worker's token, row and worker agree on the cursor (`Holder`); what
a worker still has to record puts a refund's original before it (`Todo`), and an
import passes a resource only once it is settled (`Listing`). *Leases*:
`Exclusively` and `TwoAtMost` hold at the earliest clock a claim may have read. A claim
whose clock is `Delay` late is still safe as `Lease > Delay`. `WritesFenced` and
`OnlyForward` are action properties: every write goes through a fence on the
token, the lease and the generation.

**ProductMaintenance, `PInv`.** A consumer that runs a slice, or is about to continue
after one, holds the row, and its age and what is left of the lease add up to the
lease (`OneOwner`); so whoever finds the lease over finds no owner. A row's token is
in the queue, in a batch, or with an actor at a place from which it will be
processed, given back or sent (`ChainKept` with `CarriedBy`): that the message is
in somebody's variables, as `ChainAlive` asks, would not be inductive.

**ProviderWakes, `WInv`** (in `WakeChainsProofs`, where the module is the instance
`Jobs`; for any jobs, consumers, tokens and failures). *Deliveries*: a message that
was not delivered twice at once stays in the queue while its only consumer has it
(`OneDelivery`). *Claims*: a consumer past its claim finds the row in processing
or with another token (`ClaimKept`), a row in processing has such a consumer
(`Held`), and a consumer that may acknowledge its message finds the row with
another token (`Consumed`). *Wakes*: a token has its message in the queue or an
actor that has yet to send it (`Awaited`), and a live job without a token is about
to be woken by the owner or is in a message of schema version 1 that is not yet
used up (`Asked`). `Awaited` and `Asked` are `ChainAlive`; the acknowledgement is
the step that needs all the others.

**BrowserVisitors, `IInv`.** What is sent has the facts its identity is claimed
with (`SentClaimed`); a receipt's visitor is counted while its day lasts
(`ReceiptsCounted`), and so is that of every answered batch (`AnswersCounted`);
a rollout older than the last audit is on record (`AuditRecorded`). A day that is
complete was sealed after every request that could still commit for it.

**Presence, `WatchedAlways`.** A row is never fresher than its session was heard, and
is there while the last heartbeat is recent (`RowsHeard`). The alarm is never in the past;
while a socket is open it is at most a beat away, and less than a beat and a gap after
that socket's lease (`AlarmSet`), whichever of frame, expiry and lease set it last. The last
frame counts no more than what was heard when it was due, so a socket that shows it
shows what was heard less than a beat and a gap before the next alarm (`FramesHeard`).

**Endpoint events, `IngestedAlways`.** A request that has passed a group of its batch
finds it counted, and past a table of the inventory finds its rows (`TasksOK`); an
event that is counted was counted once, is in the inventory and, while it is `Fresh`, among the
failures (`CountedSeen`: a failure that the cron deletes is one that nobody needs to find any
more, and time only makes events older), and keeps its receipt until no request can bring it
again (`CountedKept`, from `Keep >= 2 * Skew + Transit`); a receipt's events are
counted, and so are those of an answered batch (`ReceiptsBacked`, `AnsweredKept`). To
count in one transaction the events without a receipt is then to count those that are new.

**Logs, `IngestedAlways`.** An attempt that may still store or forget its batch holds the
one claim of that identity (`ClaimsHeld`); an identity is claimed only for a batch whose
logs for the store are there or that is still in such hands, or whose store failed (`BatchesSafe`); once an alert
was sent its claim is there and in nobody's hands, or is over, and who has it now
came almost a claim's life later (`AlertsLast`). Rows and what attempts have reserved
and not yet stored stay together within the quota and its counter (`QuotaKept`); of the rows
alone that would not be inductive.

**Workspaces, `AdmittedAlways`.** What a removal spent had been accepted, so no
pending invitation is spent (`SpentAccepted`), and an acceptance lets in by one that is
not used up. Of an owner's first requests at most one has inserted the workspace and not
yet reported it, and until then nothing was reported (`SignupFor`). An import
takes the tables from project to project; what holds of all of them follows from
the first project of the chain at which it would fail.

**Ledgers, `ReportedAlways`.** Both ledgers hold the same facts and deliveries, they
answered alike so far, and a payment's refunds have its currency and fit its amount
(`LedgerInv`). Then each answers what the other does: a refund that comes after its payment,
and a payment that comes after its refunds, meet in either the same sum. The local report folds
fact by fact what the database's statement adds up by kind, which is shown by
taking the smallest set of facts for which the two would differ (`SmallestSubset`).

**Conversion reports, `ReportedAlways`.** After each fact the loop of `factsInWindow`
has what the set of the facts read so far says: those whose identity has one
meaning and the identities that have several, or that there are too many (`Seen`). So
their order does not matter. Of a session, sorted by time and identity, the pass knows after
each fact the latest start of every step that can be reached, that of the moment before, and
the shortest way through (`Knows`). The latest start is enough to go on from: a
fact within the window of an earlier start is within the window of the latest too
(`TakesLatest`).

**BrowserArchive, `IInv`.** Segment ids are consecutive and the open one is the next
(`Numbered`); only its object may be ahead of the index, and then it holds exactly the
pending rows sealed into it (`Stored`); what is archived is not pending and is in the
ledger with the same facts or can no longer be delivered (`Archives`). For the
refinement, each action is shown to be a step of `BrowserHistory` (stage keeps,
alarm shows, complete archives) or to leave its variables alone. The refined facts
are a CHOOSE over the index, which `ArchivedOnce` makes unique.

How the compositions are proved: `MCProductCompactionProofs` and
`MCProviderJobsProofs` take the lemmas of the component's proof module through an
INSTANCE with each instance's constants, and show that the choice of the instance never
changes; the assumptions on the second instance's constants (`ShortAssumption`,
`OwnerAssumption`) are ASSUMEs of the MC modules that TLC evaluates.

Assumptions, all named in the module that declares the constants and evaluated by
TLC: `EventAssumption` (finite ids and reservations, no batch carries an id twice),
`TimeAssumption` (expiry < retirement <= identity, `Window + Skew < IdentityTtl`,
`2 * RunLife < Tombstone`), `CapacityAssumption`; `CompactionAssumption`
(`Lease + Flight < Candidate`, `ReadLife + Flight < Grace`, `Day < Expiry`,
`SealLife < Expiry`: 60 s, 10 min, 15 s, 1 h, 1 d and 31 d in the code);
`ProviderAssumption` (`Lease > Delay`, at least one generation), `PagesAssumption`
(each phase lists at least one page, be it empty); `BrowserTimes`
(`Late + Grace < Retention`), `BrowserBatches`; `StoreScales`, the scales of the
stores' instances (`PresenceScale`, `IngestScale`, `LogScale`, `AccessScale`,
`SetupScale`, …) and `PartitionScale`, that of the endpoint archive (finite sets, natural numbers, `Keep >= 2 * Skew + Transit` and the
like); `SentAssumption`, `BoundsAssumption`; `MaintenanceAssumption` and
`ChainScales` (the times are natural numbers, the lease is not 0, tokens, actors and
`None` are distinct).

What stays with TLC, and why:

* every liveness property (`Done`, `Drained`, `CallsEnd`, the liveness half of
  `ArchiveKept`): fairness and ENABLED are out of the prover's reach;
* `ArchiveInvisible`: what a fold over a set or a sequence computes needs induction
  over data, whose rules take an operator as a parameter. Where a least counterexample is
  enough, the proofs take one: a least number (`LeastOf`), a smallest
  subset (`SmallestSubset`). The recursion of `factsInWindow` and `sessionProgress` and
  the sums of the ledgers are proved that way;
* no theorem yet: `Conserved`, `ClosedClean` and `FlushesSettle` of the clients,
  `ManifestsBacked`, and `Audited` of the stores. The clients' queues
  are counted by folds over sequences, the audit's slices are cut from sorted
  sequences of rows, a manifest's parts are sums over partitions.

Modules with theorems reach no RECURSIVE operator; recursion in them is a fold
or a recursive function.

## What is not modelled

* **Data.** Validation, normalisation, encryption, JSON, the contents of reports
  and what they look like, except where a property is about them. The clients'
  building and normalising of events.
* **Product ingest.** The daily quotas (`product_event_days`,
  `product_workspace_days`): they are counters per day that a purge refunds, beside
  the capacity counters that are modelled. The byte and count limits of a
  compaction, the choice of the next partition and the deletion of old jobs; the
  model merges any sources that the age rule allows. A segment is received when it is
  sealed, before the day's end: the code keeps the time of the reservation, up to ten minutes
  earlier, so a seal in the minutes after the day's end is not covered.
* **Provider.** The caps of a thousand open issues and a thousand unfinished
  webhooks, the digest of a webhook's body, the brand that filters a webhook's resource, `verifyConnection` and the retention
  clean-up. Windows of time are pages of a listing.
* **Endpoint and log ingest.** The matching of log routes (what they store of a batch is
  part of the batch), installation status, capabilities, keys, size limits and
  the path without durable objects. Batches of the server's own logs are counted
  without their quota; the quota's counter is capped just above the quota.
* **Presence, archive.** The directory of endpoint series, the browser archive's status
  and lookup requests. An evicted shard's constructor runs at once instead of at its next
  call. Of two segments with one batch an audit looks at the least instead of the one that
  was indexed first. A report on endpoints takes its clock when it reads the rows instead
  of when its request began.
* **Tracker.** The beacons of `pagehide` and `flushForNavigation` on a page that stays
  visible; the one of `visibilitychange` is the same.
* **Left out whole** (listed in `PROJECT.json` with the reason): daily reports,
  the dashboard, schemas, middleware, the probe, routing of requests.

Two hazards have no property: the caps named above, whose counting is one
statement in each case.

## Plan

1. The theorem about the stores that is left: `Audited` (rows are counted once across
   leases), with the audit's slices as sets of rows instead of sorted sequences.
2. `ManifestsBacked` of `EndpointArchive`, with its partitions' steps as the invariant.
3. `Conserved` of each client.
4. `ProductQuota`: the two tables of daily quotas, if their statements become
   more than a counter.
