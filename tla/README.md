# TLA+ verification of the Walrus datastore

The repository is an IPFS (Kubo) datastore that keeps blocks on Walrus, a paid
blob store reached over HTTP, and the key-to-blob mapping in Postgres. Any number
of nodes share one database. This directory models the parts of it that are hard
to test, checks them with TLC on small instances and proves every safety property
of those runs with TLAPS for every instance.

## 1. The system

### Components, state and operations

| component | source | state | operations |
|---|---|---|---|
| write path | `walrus.go` `Put`, `Delete`, `Batch`, `Commit` | a batch: map from key to Put or Delete | stage small blocks, upload blocks of `PackTargetSize` or more directly, delete; collect errors; kick the flusher |
| staging and index tables | `index.go` `postgresIndex` | `<table>_staging` (key, value, created_at, leased_until), `<table>` (key, blob, patch or range, cost, expiry) | `StagePutMany`, `PutMany`, `DeleteMany`, `StageStats`, `StageClaim`, `StageRelease`, `PromoteStaged`, point reads, `List`, `DueForRenewal`, `UpdateBlobAfterRenewal` |
| pack flusher | `walrus.go` `startFlushWorker`, `flushStaged`, `flushOnePack` | kick channel, ticker, the packs of the running round | test ripeness, claim up to `Workers` packs, upload them in parallel, promote or release |
| pack formats | `walrus.go` `uploadPack` and below | none | one blob per block, a quilt with patch IDs, a concatenation with offsets |
| read path | `walrus.go` `Get`, `Has`, `GetSize` | none | probe staging, then the index, then Walrus |
| listing | `walrus.go` `Query`, `index.go` `List` | the listed keys | list both tables, fetch values lazily |
| Walrus client | `client.go` | none | store, store quilt, read, range read; retries, failover |
| blob cache | `cache.go` | LRU list with a byte budget | get, add |
| renewal worker | `renewal.go` | none (index rows carry expires_at) | scan, read, store again, update rows |
| encoded size | `encoding.go` | none | a formula |
| plugin and configuration | `plugin/`, `NewWalrusDatastore` | the configuration | parse, apply defaults, start the workers |

### How they interact, and what is hard

* Clients and flushers of all nodes meet in the two tables only. Every
  transaction runs at READ COMMITTED (`BeginTx(ctx, nil)`), so each *statement*
  has its own snapshot; what spans two statements (`DeleteMany`, `PromoteStaged`)
  or two transactions (`StageClaim`'s SELECT and UPDATE, upload and promotion, the
  probes of a read) can be interleaved with anything.
* A block is in staging, then in staging *and* in a pack being uploaded, then in
  the index. A lease (`leased_until`) keeps it out of other packs, but a re-Put, a
  Delete, a release by another flusher or the passing of time may end the lease
  while the upload goes on. Or it may outlive its flusher.
* A blob just stored is not visible at every aggregator at once, and a read that meets
  one that lags ends there.
* Every call to Postgres or Walrus may fail, or take effect and report an error; a
  node may die between any two steps; nothing is undone by hand.
* Whether a block ever leaves staging depends on age, idleness, bytes, the ticker,
  the kick channel, other nodes' leases and failing uploads.

The correctness that matters:

* **write path**: a call that returned nil has made its Puts readable; one that
  failed changed only its own keys;
* **tables and promotion**: background work never changes what a Get returns; rows
  never name a blob that is not there; a promotion moves each row once;
* **reads**: never "not found" for a block that was there all along, unless its blob has
  not reached every aggregator yet;
* **claims**: racing claims are disjoint;
* **flusher**: every staged block leaves staging; one whose flusher died is claimed again
  (it is not: section 5);
* **deletes**: a successful Delete is not undone by a flush (it can be: section 5);
* **pack formats**: every member's row reads back exactly the member's bytes, whatever
  the publisher answers, and records what the blob is billed for;
* **listing**: a key present throughout a query is reported, once;
* **client**: a success is backed by a stored blob, one healthy endpoint is enough,
  every call returns;
* **cache**: list, map and byte count agree, the budget and the entry cap hold, and
  callers cannot reach cached bytes;
* **renewal**: no indexed blob's paid storage ends while the worker runs;
* **configuration**: the defaults that are documented are the ones that apply.

`PROJECT.json` lists the hazards one by one, each at its line.

## 2. Modules

| module | what it is |
|---|---|
| `Blocks` | keys, values, batches and maps from keys to values |
| `BlockStore` | the abstract specification: one map that only a client's running call changes |
| `StagedIndex` | the data path: clients, flushers and readers over the two tables and Walrus |
| `StagedIndexHistory` | `StagedIndex` with history variables, for properties about the whole of a call or of a claim |
| `QueryScan` | `StagedIndex` with queries: one List, then a Get per key at the caller's pace |
| `PackFlusher` | when blocks are flushed: time, ripeness, claims, rounds, leases, crashes and lost claims |
| `PackFormats` | one pack from its upload to rows and back to bytes, in three formats |
| `EncodedSize` | the encoded size of a blob, as operators used by `PackFormats` |
| `BlobService` | the abstract specification of the Walrus client |
| `WalrusClient` | the client: endpoints, attempts, back-off, cancellation, late effects, cache hits |
| `BlobCache` | the whole-blob LRU under concurrent readers |
| `RenewalWorker` | several nodes' renewal workers, writers and the network's epochs |
| `PluginConfig` | the plugin's parser and `NewWalrusDatastore`'s defaults |
| `MC*` | instances for TLC |
| `StagedIndexProofs` | the inductive invariant, type correctness, `WalrusFirst`, `PromotionExclusive`; `StagedIndex` implements `BlockStore` |
| `StagedIndexHistoryProofs` | `GetNeverMisses`, `ClaimsDisjoint` |
| `QueryScanProofs` | `QueryComplete`, `ListedOnce`, and that queries leave the data path as it is |
| `PackFlusherProofs` | type correctness, rounds that finish |
| `PackFormatsProofs` | `ReadsBack`, `BilledAlike`, `NoneLost` |
| `BlobCacheProofs` | `Accounting`, `ServesTheBody`, `AddKeepsRecent` |
| `WalrusClientProofs` | type correctness, failover, the client implements `BlobService` |
| `RenewalWorkerProofs` | type correctness, `ExpiryWithinEpoch`, `NeverLapses` |

Operators marked "Mutant" are plausible bugs; no specification uses them. Each
replaces the definition that follows it in one run to show that the run's
property can fail.

### `StagedIndex` and the code

A *Client* is a goroutine in Put, Delete or Commit, a *Flusher* one pack of some
node's round, a *Reader* a goroutine in Get, Has or GetSize.

| state | code |
|---|---|
| `staging`, `leased` | the staging table; `leased` holds the keys with `leased_until` in the future |
| `index` | the index table; the row of a key is the blob it points into |
| `walrus` | the blobs stored; a blob is the function from the keys it packs to their values, which stands for the blob ID (derived from the content) and for every patch ID or byte range in it |
| `served` | external: the blobs every aggregator serves by now |
| `cpc`, `batch`, `ctodo`, `ckeys`, `cerr`, `creply` | Commit's position, `b.ops`, oversize blocks left, keys at hand, `errs`, its result |
| `fpc`, `fpack`, `fkeys` | the position in StageClaim and flushOnePack, the entries, the candidates or survivors |
| `rpc`, `rop`, `rkey`, `rrec`, `rres` | a read |

| action | code |
|---|---|
| `Begin`, `StagePutMany`, `DirectUpload`, `PutMany`, `DeleteIndex`, `DeleteStaging`, `Return` | the steps of Commit in its order; Put and Delete make the same calls for one key |
| `Select`, `Lease` | the two statements of StageClaim |
| `Upload` | uploadPack in any of its three formats |
| `PromoteDelete`, `PromoteInsert` | PromoteStaged's DELETE ... RETURNING; its inserts and commit |
| `Release` | StageRelease |
| `ProbeStaging`, `ProbeIndex`, `ReadWalrus`, `ReadError` | the probes of a read; `ReadWalrus` may answer "not found" for a stored blob as long as it is not in `served`, because the client ends a read at the first 404 and Get turns that into ErrNotFound |
| `Appear` | external: a stored blob reaches the last aggregator |
| `ClientCrash`, `FlusherCrash`, `LeaseExpire` | a node dies (or Close cancels the context); `leased_until` passes |

Abstractions, and what they leave out:

* A transaction of one statement is one step. The two-statement ones are two
  steps, with the row locks of the first held until the second, which includes the
  commit. A step that would wait for a row lock is not enabled; a deadlock Postgres
  breaks is a "failed" outcome. A statement's snapshot and its effect are one
  instant, so the skew between the rows of one long statement is not modelled.
  The chunks of `StagePutMany` and `putManyTx` are inside one transaction.
* "lost" means that the call took effect and reported an error. It takes effect
  before the call returns: a commit that arrives after its caller gave up is not
  modelled.
* `Select` takes any set of at most `MaxPack` claimable keys: FIFO order and the
  byte budget are `PackFlusher`'s subject, and the properties here hold for every
  choice.
* Leases expire at any time, which allows more than the code does: the lease it asks for
  does not run out while a node lives (section 5). The properties here hold either way, and
  would go on to hold with the lease that was meant.
* Readers know one fact about aggregators, whether all of them serve a blob; which one is
  asked, retries and failover are `WalrusClient`'s subject. Blobs never expire: whether they are renewed in time is
  `RenewalWorker`'s subject.

### `PackFlusher` and the code

A row carries its age and what is left of its lease, in ticks of one time unit. A
node's worker waits for the ticker or the kick (`Wake`), reads StageStats and tests
ripeness (`Stats`), claims the oldest rows (`Claim`) and repeats that until
`Workers` packs are claimed or nothing is ripe (`StopClaiming`); then every pack
ends on its own (`PackOk`, `PackFailed`, the latter with or without its release),
and `RoundEnds` starts over or backs off after a failure. `Put` kicks only if the
whole call succeeded. `Crash` loses the worker's memory and leaves its leases.
A claim may also be "lost": its UPDATE took effect, but the reply or the scan of a row
failed, so flushStaged stops claiming with rows leased that no pack has and nobody releases.
`Orphaned` are the blocks that are leased and in no pack.

The lease is what index.go:614-617 asks for. The driver sends a Go Duration as its number of
nanoseconds, and in `now() + $2` Postgres reads a bare number as seconds; `LeaseGranted` is
therefore `LeaseTime` times `NanosPerSecond`. This is how Postgres 15 and later behave;
earlier ones refuse the value as out of range, there every claim fails and no block ever
leaves staging.

Rows of one age are claimed in any order (the code orders by key). StageClaim is
one step here; its two statements are `StagedIndex`'s. There is one clock, while
the code compares the node's clock with the database's. `Poison` is the set of blocks
no publisher accepts.

### `QueryScan` and the code

`StartQuery` is Query up to the iterator it returns, including List's one UNION
statement; `NextKey`, `NextGet` and `GetStep` are the iterator's `nextValue`, the
latter two with the steps of an ordinary Get; `EndQuery` is its end. Clients and
flushers are those of `StagedIndex`. `missing` and `late` are history variables: the keys
absent, and the keys whose row named a blob not yet in `served`, at some instant of the query.
They and the entries are dropped when it ends. A listed row carries the key and a value that stands for
its size, because that is what the UNION compares.

### `PackFormats`, `EncodedSize` and the code

One pack with its key order, and `disableQuilt` and `nShards` of the configuration.
`UploadSingleBlock`, `UploadConcatPack` and `UploadQuiltPack` are the functions of
those names; the last one takes every answer with as many members as the pack or fewer,
in any order, with members left out, repeated, unknown or without a patch. `PromoteStaged`
inserts the rows in chunks of `Chunk`; Postgres refuses an upsert that names a key twice
(`Refused`), and of two rows of one key in different chunks the later one stays.
`Buffers` are the states of the buffer that blocks are appended to.
`Delete` may come at any point. `ReadQuiltPatch` and `ReadRange` read a row in every
way the client has: from the cache, by a 206, by a 200 that is sliced. Bytes are numbers.
A publisher reports the encoded size, or nothing for a blob that was already certified;
`RecordedSize` is `encodedSize`. `Billed` states the same figure without the code's
rounding: the least even symbol size that fits. The documented 17-byte example and the
rounding of `EncodedStorageUnits` (which nothing calls) are assumptions of
`MCPackFormats`, which TLC evaluates.

### `WalrusClient`, `BlobService` and the code

A *Caller* is a goroutine in Store or StoreQuilt ("store"), Read ("read"), or ReadRange
or ReadQuiltPatch ("fetch", which look into the cache first). `NextEndpoint` is the loop
over the base URLs, `Attempt`, `Transient` and `Wake` are doWithRetry with
sleepWithContext, `Rejected` every failure that is not retried, `StoreOk`, `ReadOk` and
`ReadMissing` the parsed answers. `Process` is the publisher's side of a request, which
may come before an answer that is lost, and `LateStore` a request that takes effect after
the client gave up on it. `Appear`: an aggregator begins to serve a blob some time after it
is stored. `Cancel` ends the caller's context at any point. Request and answer formats are
abstracted to these outcomes; the length of a back-off is left out.

`BlobService` has none of that: calls, blobs stored, blobs visible. A success means that
the blob is stored, "not found" that some aggregator lacks it, an error nothing.

### `BlobCache` and the code

`Get` and `Add` are the two methods, each atomic under its mutex; fetching and copying
happen outside of it. A buffer is an identity, `<<k, i>>` for the i-th slice made to hold
the body of `k`; a caller may overwrite the slice it was given (`Scribble`), which must not
reach the cache. `Sums` are the running sums of the bodies in a list. `Kept` is what the
eviction loop leaves: it counts down from `curBytes`, the count the code keeps, not from
the true sum of the list, so a wrong count would evict wrongly here as it would there.

### `RenewalWorker` and the code

Time is discrete and relative: `left` is what remains of a blob's paid storage, `recorded`
of its `expires_at`. A store made in an epoch is paid to the end of the `Epochs`-th
epoch; the code records `now + Epochs x EpochDuration`. `Scan` is DueForRenewal with its
order and limit, `Read`, `Store`, `Update` the three calls of renewBlob, `Restart` a node
that stops and starts with a new ticker. `Upload`, `Record` and `Delete` are the
datastore's writes as far as they touch blobs and `expires_at`. `CallTime` bounds the
ticks a read-store-update or a writer's store and upsert may take; in the code
RequestTimeout, retries and endpoints bound them. `Lost` holds blobs that are indexed and
gone when the run begins.

### `PluginConfig` and the code

Each numeric setting is absent, a number, a fraction or of another type; at most two are
given. `Parse` is DatastoreConfigParser, `Embed` a program that passes a Config of its
own, `Create` NewWalrusDatastore. Strings and booleans are only checked for their type in
the code and are left out.

## 3. Runs

| run | instance | properties | result |
|---|---|---|---|
| `write` | 1 key with Puts and Deletes, 1 client, 2 flushers, 1 reader | `TypeOK`, `WalrusFirst`, `PromotionExclusive`, `ClaimsDisjoint`, `GetNeverMisses`, `Implements` | pass, 102,518 states |
| `query` | 2 keys, an oversize value, 1 client with a two-Put Commit and a Put-and-Delete Commit, 1 flusher, 1 query | `QueryComplete`, `ListedOnce`, `WalrusFirst`, `Implements` | pass, 1,400,283 states |
| `drains` | 2 blocks of sizes 1 and 2, 1 node, 2 pack slots, 1 fault | `TypeOK`, `Drains` | pass, 13,472 states |
| `renew` | 2 blobs, 2 nodes, 4 epochs of 3 ticks, lead 10, 1 fault | `TypeOK`, `ExpiryWithinEpoch`, `NeverLapses` | pass, 2,273,847 states |
| `client` | 2 callers, 1 blob, 2 publishers (the second healthy), 2 aggregators, 1 retry | `TypeOK`, `HealthyEndpointServes`, `Implements`, `CallsReturn` | pass, 250,305 states |
| `cache` | 2 readers, 6 bodies, a budget of 8 | `Accounting`, `ServesTheBody`, `AddKeepsRecent` | pass, 596,091 states |
| `packs` | packs of up to 3 of 4 blocks, 4 committees, chunks of 2 | `ReadsBack`, `BilledAlike`, `NoneLost` | pass, 106,208 states |
| `delete_wins` | 1 key, 1 client, 1 flusher | `DeleteWins` | violated |
| `drains_blocked` | 2 blocks, the first refused by every publisher, 1 node, 1 pack slot | `Drains` | violated |
| `drains_orphaned` | the instance of `drains` | `OrphanRetried` | violated |
| `renew_starved` | 1 live and 1 lost blob, a scan limit of 1 | `NeverLapses` | violated |
| `config_retries` | four numbers, at most two settings given | `RetriesByDefault` | violated |

What the properties say:

* `Implements`: with `Visible` (staged bytes, else the bytes of the indexed blob)
  as the abstract store, every step is a step of `BlockStore`. Background work is
  invisible; only a client's running call changes a key, to its own value; "ok"
  means that all Puts are applied. It needs `ContentAddressed` (a key is only ever
  written with one value), which the code states as its assumption; without it a
  promotion can put older bytes in place of a newer staged version.
* `WalrusFirst`: index rows never dangle. `PromotionExclusive`: the row locks of
  PromoteStaged make its move exact.
* `GetNeverMisses`: the probe order argument in the comment of `Get`. A Has or GetSize
  answers "not found" only if the key was absent at some instant of it; a Get also if the
  key's row named a blob that some aggregator did not serve yet. The exception is needed
  (`WalrusClient!NotFoundMeansUnknown`, section 5), and it is the only one.
* `ClaimsDisjoint`: two packs share a block only if the lease ended under the first
  flusher.
* `QueryComplete`: once a query has reported everything, a key present throughout it is
  among its entries, and as "not found" only if its row named a blob some aggregator did not
  serve yet. `ListedOnce`: no key is reported twice; it holds because a key
  is written with values of one size.
* `Drains`: a staged block is in the end promoted, deleted or written again, unless a fault
  left it leased with nobody working on it. Writing it again restarts `created_at`, and with
  it the promise. `OrphanRetried` is what the documentation says of the blocks excepted: they
  become claimable again when their lease expires. The code does not keep it.
* `ExpiryWithinEpoch`: the recorded expiry runs ahead of the paid storage by less than an
  epoch and one call, and this does not add up over renewals. `NeverLapses`: with a lead
  that covers that, the scan interval, the calls and one missed scan, no indexed blob's
  storage ends.
* `Implements` of `WalrusClient`: lost answers, retries, failover, late effects, cancellation
  and cache hits together look like `BlobService`. `HealthyEndpointServes`: a call that was
  not cancelled fails only if none of its endpoints is healthy. `CallsReturn`: every call
  returns.
* `Accounting`, `ServesTheBody`: two readers that miss, add, replace and evict one key at
  once keep list, map and count in step, and no caller gets bytes another caller wrote.
  `AddKeepsRecent`: what the cap of a quarter of the budget is for.
* `ReadsBack`: whatever the format and the publisher's answer, a Get returns the block.
  `NoneLost`: a member an answer leaves out stays staged. `BilledAlike`: the fallback for a
  missing size is exact for plain and concatenated blobs.

**Bounds.** One key is enough where the property follows a single key through a claim, a
promotion, a read or a Delete; two flushers are enough for any race between two of them:
the properties quantify over pairs. Two keys, in `query`, make a pack of several members
that loses one of them, a batch whose Put and Delete differ, and locks taken in different
orders. Larger instances of `write` pass too and are not kept as runs for the time they
take: two keys with the Commits of `query` and nothing oversize, without the reader
(4,073,295 states), and one key with two clients and one flusher (315,386 states). There is
no bound on the number of calls, crashes, failures and lease expiries in `StagedIndex`: its
state space is finite as it is. `PackFlusher` is bounded by `MaxFaults`, the faults that may
leave a lease behind (failures that do not are unbounded); by `Horizon`, more ticks than a
behaviour has use for, beyond which a lease is taken not to end; and ages stop at the larger
of the two thresholds, beyond which they are not told apart, except for `Ranks` steps in
which older rows stay older (the order of claims matters in `drains_blocked`). The liveness
check also passes on two nodes with one slot each (`Node = {n1, n2}`, `Workers = 1`: 120,224
states), which is not kept as a run because it takes four minutes. In `RenewalWorker` an epoch of three
ticks has a beginning, a middle and an end, four epochs outlast the lead, and two blobs
make a scan whose second item waits for the first; `MaxFaults = 1` is what the lead is computed for: a second
fault in a row needs another scan interval of lead. In `WalrusClient` two endpoints and
two attempts are enough for a failure before a success in each loop; one blob, because
calls about different blobs share nothing. In `BlobCache` four bodies are as large as the cap
and fill the budget, one is smaller and one is larger, so an add may evict, fit or be
refused; five buffers per key are enough for two readers and the cache. In
`PackFormats` three members with chunks of two put a repeated key into one chunk or into
two; the committees have 1, 2, 4 and the default 1000 shards, and the lengths of the blobs
fall on, below and above a whole symbol.

Symmetry permutes clients, flushers and readers of `StagedIndex`, nodes and blobs of
`RenewalWorker`, readers and equal-sized keys of `BlobCache`, which no definition tells
apart; it is used with invariants, action properties and the implied steps of
`Implements` only, never for liveness.

**Fairness** (`Drains`). Time passes, tickers fire and a worker that can go on does
(weak fairness): every HTTP attempt is bounded by `RequestTimeout`, retries are
bounded, and the goroutine runs until Close. Two assumptions are about the
environment and are strong: Postgres does not fail every scan and every claim of a
node forever (which presupposes a version that accepts the lease, 15 or later), and no
block's upload fails forever. Nothing is assumed of clients:
they may keep writing and deleting, and calls may fail. A crash of a node is
followed by its restart.

**Fairness** (`CallsReturn`). Weak fairness of each caller's steps: an HTTP attempt ends by
RequestTimeout, a back-off by its timer, everything else is local. Nothing is assumed of
publishers and aggregators, and a caller need not cancel.

**Fairness** (`drains_orphaned`). The same as for `drains`: time passes for ever, and still
the block stays leased.

**Fairness** (`drains_blocked`). The same as for `drains`, and in addition rows of equal age
are not always taken in the same order to one row's disadvantage (the code orders them by
key), so that the counterexample is about the blocked row and not about ties.

**Deadlock** is checked in every run except `packs` and `config_retries`, which follow one
pack, or one configuration, to its end.

## 4. Proofs

**The data path.** For every set of keys, values and batches and any number of clients,
flushers and readers, from the assumptions of `Blocks`, `StagedIndex` and
`StagedIndexHistory` only (the absent value is no value, no batch is empty, oversize values
are values, readers and clients are different).

* `TypeCorrect`, `WalrusFirstHolds`, `PromotionExclusiveHolds`. The invariant
  `IInv` adds three things to `TypeOK`, `WalrusFirst` and `PromotionExclusive`.
  `PackInv`: a flusher past its upload has stored its pack; and `CallInv`: a client
  about to record an oversize block has stored it, without either of which
  `WalrusFirst` is not preserved by the step that writes the row. `CallInv` also
  says which index rows an open Delete locks. `Provenance`: whatever is in
  staging, in a pack or behind a row was written by a client under that key.
* `Implementation`: `ContentAddressed => (Spec => Implements)`. Initial states map
  to initial states. A flusher's, a reader's and a lease's step changes neither
  `Visible` nor anything of a client; the promotion is the one case that is not
  immediate: the survivors are still staged (`PromotionExclusive`), and their
  staged bytes equal the packed ones (`Provenance` and `ContentAddressed`). Each
  step of a client maps to `Put`, `Delete`, `Begin`, `Return` or a stutter.
* `ReadsNeverMiss`: past its staging probe a reader has either seen an instant at which its
  key was absent (or, in a Get, indexed into a blob some aggregator did not serve), or the
  key is indexed; an index row disappears only in a step that also leaves no staged copy, or the
  key is absent at that instant. The row a Get goes to Walrus with names a blob in `served`
  or one that lagged when it was read, and `served` only grows.
* `RacingClaimsDisjoint`: a block gets into a second pack only by the UPDATE of
  StageClaim, which leases only rows whose lease had ended; at that moment the
  history variable has recorded the end of the first one.

**The client.** For any number of callers, blobs, publishers, aggregators and retries, from
`EndpointAssumption` (numbers are natural, healthy endpoints are endpoints).

* `TypeCorrect`, `Failover`, `ImplementsService`. The invariant adds two things to `TypeOK`
  and `HealthyEndpointServes`. `Passed`: the endpoints a call has behind it, unless it was
  cancelled, are not healthy; without it the step that gives up after the last endpoint could not
  be shown to have tried them all. `Backed`: a blob a publisher has answered for, a visible one
  and a cached one are stored; this is what makes every
  success of the abstract service a success. Every step then maps to `Begin`, `Land`,
  `Appear`, `Return` or a stutter.

**Renewal.** For any blobs, nodes, epochs, durations, limits and bounds.

* `TypeCorrect`, `ExpiryBounded`. `ExpiryWithinEpoch` is not inductive: the expiry is written
  some ticks after the store that pays for it. `Margin` says that while a store waits for
  its rows (a writer's, or a worker's before its update), the storage left is more than
  a term less an epoch less the ticks since the store.
* `NoBlobLapses`: no indexed blob's storage ends, under `LeadSuffices`. That says which
  deployments the worker can serve: there is a node; a scan is never cut by its limit (no more
  blobs than `renewBatchSize`); nothing was lost beforehand; and the lead and the term are at
  least `LeadNeeded`, an epoch and a call (by which the recorded expiry may be late) and one
  `Round` for the first attempt and for each of `MaxFaults` failures, where a round is a wait for the ticker
  or for the end of the running scan, and the calls of a whole scan. Without the second and third
  conjunct the property is false (`renew_starved`). The invariant is `Timely`: for every due
  blob and every node, either the blob is the `k`-th of the node's running scan and its storage
  outlasts `k` calls, or it outlasts the node's next scan; in both cases with a round to spare
  for each failure still possible. A blob becomes due with `LeadNeeded` in hand
  (`ExpiryBounded`), a tick takes one from both sides, a failure is paid for with its round,
  and a store by any node gives a whole term. The formula is sufficient and not tight: it
  counts a call per blob for the running scan and for the next one. With one
  node, the run's instance lapses with a lead of 9 and not with 10, where the formula gives
  12; the run keeps the tight figure.

**Queries.** For any finite set of keys and any number of clients, flushers and queries.

* `QueryWalrusFirst`, `QueryImplements`: a query's step is a reader's step of the data path or
  changes nothing of it, so `QSpec` implements `Spec` and everything proved of `Spec` holds.
* `QueriesComplete`: `QueryComplete` speaks of queries that have reported everything. The invariant says of a
  running one that each key present so far throughout it is in the entries or still to come
  (`Told`), that the reader works on the head of the list (`Cursor`), and, as in `ReadsNeverMiss`,
  that past its staging probe the key is indexed or was missing at some instant, and that the
  blob it goes to Walrus for is in `served` or lagged at some instant.
  `IsFiniteSet(Key)` is needed for the sequence List returns to exist at all.
* `QueriesReportOnce`: from `ContentAddressed` and `Provenance`, the two rows of a key in both tables
  are equal, so the UNION merges them; the iterator then moves each entry once.

**The flusher.** For any nodes, blocks, slots, limits and bounds.

* `FlusherTypes`, `RoundsFinish`. The type invariant is not inductive alone: a claim
  fills the first free slot, and that there is one is `InRound`, which is a result of its
  own: flushStaged returns only when all of its packs have ended.

**Pack formats.** For any keys, blocks, packs, chunk size and committees.

* `PacksReadBack`, `PacksLoseNone`. The invariant is that every row, from its making to the
  index, says truly where its key's bytes are (`TrueRow`): the key's own patch, or the
  range that starts where the buffer ended before the key's block was appended. What that
  buffer holds is proved by induction over the blocks; that no later append changes a range
  already written is `Concat`'s part of it.
* `PacksBilledAlike`: integer division against the least even symbol size that fits, for every
  length and every committee, the small and the default ones included.
* `UnitsCover`: EncodedStorageUnits rounds up and by less than a unit. Nothing calls it.

**The cache.** For any readers (finitely many), keys, body sizes and budget.

* `CacheAccounts`, `CacheServesTheBody`, `CacheKeepsRecent`. `Accounting` needs `Counted` (no listed body is over
  the cap) and `Holding` (whose body a buffer holds and when a reader has one), because a
  reader adds what it fetched before. `ServesTheBody` needs `Own` (a caller's buffer is
  neither cached, nor being copied, nor another caller's) and `Overwritten` (only such buffers
  are dirty). That a fresh buffer exists is a pigeonhole argument over the live ones.
  `CacheKeepsRecent` assumes `MaxBytes \notin 1..3`: a budget under four bytes has
  itself as the cap, and one add may empty it.

**Induction over data.** The library's induction theorems take an operator as a parameter and
cannot be used with the provers at hand. The two modules that need induction over
sequences derive it for *sets*: naturals have least elements (`WFMin` of the library), hence a
set with 0 and all successors of its members holds every natural (`SetInduction`). The running sums and
buffers are recursive functions, whose existence and uniqueness are proved with it.

Each inductive invariant was checked by TLC as an invariant of the corresponding run
before it was proved.

Only model-checked: liveness (`Drains`, `CallsReturn`), which is out of the proof system's
reach. The five violated properties are false of the code and so of the models; `PluginConfig`
has no passing run and no theorem.

## 5. Disagreements between code and documentation

1. **A Delete can be undone by a flush** (`delete_wins`). DeleteMany deletes from the
   index, then from staging. A promotion that commits between the two statements
   moves the block from the table not yet looked at into the one already looked at.
   Deleting from staging first, as PromoteStaged does, would close the gap.
2. **A block no publisher accepts keeps younger blocks in staging** (`drains_blocked`). A failed
   pack ends its round, its rows are released, and the next claim takes the oldest rows
   again. With one worker, or as many such packs as workers, nothing behind them is ever
   uploaded, although README.md:79 says that "blocks never wait indefinitely".
3. **A lease never expires** (`drains_orphaned`). A Go Duration of 15 minutes bound to
   `now() + $2` is a lease of some 28,500 years (Postgres 15 and later), and blocks whose flusher
   died, whose claim's reply was lost or whose release failed stay in staging, readable but
   never uploaded, until they are written again or deleted; so do the members a quilt
   answer leaves out. CONTEXT.md:75-76, walrus.go:581 and index.go:120 say that the lease
   expires. With the lease that was meant (`NanosPerSecond` taken as 1) `OrphanRetried` passes,
   and `Drains` passes without its exception.
4. **Lost blobs stop renewal** (`renew_starved`). A blob that cannot be read keeps its expired
   row and comes first in every scan; as many of them as `renewBatchSize` fill every scan.
5. **Without `maxRetries` in the configuration nothing is retried** (`config_retries`). The parser
   gives 0 for a missing key, and only a negative value is replaced by the documented 3.

Further claims of the documentation are stated in the modules and refuted by TLC on the
instances named here. They are not kept as runs.

| claim | where it is stated | refuted with | why |
|---|---|---|---|
| concurrent flushers "never build packs from the same blocks" (index.go:118) | `StagedIndexHistory!LeaseExclusive` | `write.cfg` | a re-Put clears the lease of a block that is being uploaded; reads are unaffected, a second blob is paid for |
| the flusher waits "until this many bytes (or quiltMaxPatches) are ready" (walrus.go:49) | `PackFlusher!FullCountIsRipe` | `drains.cfg`, `TargetSize = 9` | the count is never compared |
| "A re-upload creates a new Sui Blob object" (index.go:462) | `RenewalWorker!ReuploadCreatesObject` | `renew.cfg` | another node was first, the answer is alreadyCertified and the object ID is overwritten with none |
| the worker "re-uploads blobs before their paid storage expires" (walrus.go:176), by default one epoch ahead | `RenewalWorker!NeverLapses` | `renew.cfg`, `RenewLead = 0` | the recorded expiry is up to an epoch after the paid one, so a blob stored late in an epoch is due when it is gone |
| cost is zero because "nothing was paid" (client.go:45) | `WalrusClient!AlreadyCertifiedIsFree` | `client.cfg` | the answer to the attempt that paid was lost |
| "Returns ds.ErrNotFound when k is unknown" (walrus.go:340) | `WalrusClient!NotFoundMeansUnknown` | `client.cfg` | a 404 of the first aggregator ends the read, the second one has the blob |
| flushOnePack "promotes its members" or releases them (walrus.go:676) | `PackFormats!FlushedMeansPromoted` | `packs.cfg` | an answer with one member twice and one left out passes the length check |
| "The UNION dedupes a key that is momentarily in both tables" (index.go:393) | `QueryScan!ListedOnce` | `query.cfg` with `OverwriteBatches`, nothing oversize | it compares key and size; a key overwritten with a value of another size (pins, the MFS root) is listed twice |
| "A negative value disables the cache" (README.md:276) | `PluginConfig!NegativeDisablesCache` | `config_retries.cfg` | the parser refuses every value that is not positive |
| the lease "must comfortably exceed the worst-case pack upload" (walrus.go:91) | `PluginConfig!LeaseCoversUpload` | `config_retries.cfg` | the timeout has no upper bound, the lease is meant to be 15 minutes; what an upload that outlasts it does is in `write` |

On the instance of `config_retries`, `PluginConfig!RunsSanely` holds: no datastore runs with an
interval, size, count or timeout that is zero or negative.

## 6. Not modelled, and what is left

Not modelled, and why:

* the wire formats (multipart framing, JSON, URL normalisation): pure conversions whose
  outcomes, a parsed answer or a rejection, are the models' inputs;
* the prefix of List, which goes into a LIKE pattern, and Limit and Offset: they select
  part of a listing by its characters and positions, and keys are model values here;
* the length of a back-off. By reading: `base * 1<<attempt` (client.go:537) overflows after more than 35
  retries, is negative then, passes the comparison with the cap and reaches
  `rand.Int63n`, which panics on it; `maxRetries` has no upper bound;
* Postgres before version 15, where no claim succeeds (section 2);
* the shortcut of ReadRange for a length of 0 (client.go:355), which answers without a request;
  it is part of `PackFormats!ReadRange` and left out of `WalrusClient`'s "fetch";
* two clocks: `created_at` is the database's, `time.Since` the node's;
* ALTER TABLE for older schemas, the connection pool, plugin registration, DiskSpec and
  logging: set-up without state of its own.

Left for later: the remaining claims of section 5 are settled by counterexamples on small
instances only; a repaired DeleteMany (staging first) could be stated beside the model and its
`DeleteWins` proved, and `NoBlobLapses` could be sharpened to a tight lead.
