# TLA+ models of ReliaMesh

ReliaMesh collects reliability events from AI agents (`POST /v1/events`), keeps two
adjacent windows of samples per stream, opens and closes incidents by comparing them,
and lets an operator publish commitments to its reports on Solana Devnet. These modules
model the parts of it that keep state, check them with TLC on small instances and prove
their central properties with TLAPS for every instance.

## 1. The system

| Component | State | Operations | Hard behaviour |
|---|---|---|---|
| Detection engine (`detection.py`) | a tenant's JSON state: streams with baseline and current window, dedup, incidents, replay floor | `_prune`, `process_events`, `summarize` | long histories: sliding, recovery, expiry and rebuilding of windows; eviction at four limits; incidents and streams that point at each other |
| Ingestion (`api.py` `ingest`, `SQLiteStore.transact`) | the `tenant_states` row, the open transaction, the day's usage | request, transaction, commit, rollback, expiry, purge | `now` captured before the wait for the row; all-or-nothing batches; two clocks (event time and storage time) that expire the same data |
| Tenants and keys (`api.py`, `SQLiteStore`) | tenants, API keys, states; what `require` returned to each request | create, authenticate, add, revoke, list, delete | authentication in one transaction, effect in another; deletion and recreation of an ID in between |
| `FirestoreStore` | three collections of documents, optimistic transactions | the same operations | conflicts, reruns of callbacks, bounded attempts, crashes, TTL deletion |
| SDK client (`client.py`) | bounded queue, counters, two locks | `emit`, `observe`, `flush` | emission during a flush, lost/late/wrong answers, retries, raise mode, interrupts |
| Publication (`attest_cli.py`, `cli.write_private`, `solana_attest.py`) | the receipt and pending files, the ledger | `publish` | check-then-create races, crash between recording and sending, forks, expiry, deadline |
| `SafetyMiddleware`, `Limiter` (`api.py`, `security.py`) | a request's buffered body and whether its response has started; counting windows per tenant and for the process | buffer, reject, forward, fail; `allow` | instants read before the lock, eviction of windows, failure at any point of a response |
| Operator CLI (`cli.py`) | the files it writes, and keys nobody else has seen | `tenant create`, `tenant delete`, `purge`, `backup` | two effects (store, file) that fail one by one; commands racing for a tenant ID and for a path |
| Protocol, encodings, configuration, scripts | none that outlives a call | validation, hashing, deployment | none: functions of their input |

The components meet at the store: the API authenticates a key (Tenants and keys) and
hands a callback (Detection engine) to `transact` (Ingestion), over either store. The
SDK client is on the other side of `POST /v1/events`, and every request passes the
middleware and the limiters first. The operator's commands work on the same store from
processes of their own. Publication reads a summary that was exported before and
otherwise stands alone.

What makes each of them correct:

- *Detection engine*: streams and incidents agree; evidence is only judged against the
  baseline it was collected against; limits hold without losing open incidents; what
  was counted is not counted again; reading does not change what is read.
- *Ingestion*: batches are atomic; the daily quota holds; expiry by the storage clock
  never overtakes the engine's own retention.
- *Tenants and keys*: every change of a tenant is authorised by a key active at that
  moment, or the operator's; a recreated tenant has nothing of its predecessor; the key limit holds.
- *FirestoreStore*: documents agree with one another, calls end, and the operations
  look atomic.
- *SDK client*: every event is accounted for once; order is kept; flushes end; no event
  becomes late by the client's own doing.
- *Middleware and limiter*: one response per request; a tenant's budget is not exceeded,
  and its own limiter does not charge it for others.
- *Operator CLI*: a failed `tenant create` leaves no unusable tenant and takes nobody's
  data along; files are never overwritten.
- *Publication*: at most one transaction, never an unrecorded one, and no receipt for
  anything but a final one.

## 2. Modules

| Module | Models |
|---|---|
| `Detection` | `detection.py` as operators on a state record, without variables |
| `Ingest` | the handler and the SQLite transaction; EXTENDS `Detection`; all ingestion properties |
| `MCIngest` | event sets, a table for the Wilson bounds and sizes for TLC |
| `IngestProofs` | theorems about `Ingest`: types, links, onsets, expiry; replay and quota without waiting requests |
| `EngineProofs` | theorems about what the engine keeps: limits, evidence, windows, incidents, what readers see; EXTENDS `IngestProofs` |
| `Accounts`, `AccountsProofs` | tenants, keys and authority, with atomic operations; also the abstract specification of a store |
| `Provision`, `MCProvision`, `ProvisionProofs` | the operator's commands beside the requests; EXTENDS `Accounts` and composes with its actions |
| `FirestoreStore`, `MCFirestoreStore`, `FirestoreProofs` | the Firestore adapter; `Store == INSTANCE Accounts WITH ...` is its refinement mapping |
| `SdkClient`, `SdkProofs` | the delivery client; theorems about it and about `Delivery` |
| `Delivery`, `MCDelivery` | the client, the wire and the engine's admission together; EXTENDS `SdkClient` and composes with its actions |
| `Limiter` | the fixed windows of `security.py` as operators on the sequence of buckets |
| `Frontend`, `MCFrontend`, `FrontendProofs` | middleware and authentication; two instances of `Limiter` |
| `Publish`, `PublishProofs` | publication |

### How state and actions correspond to the code

**Detection.** A state record has `streams`, `dedup`, `incidents`, `floor` and
`accepted`. A dedup entry `[digest, timestamp]` under an event ID is the event itself
(the digest is injective), so an identical retry is membership and a conflict is another
event with that ID. The Python list of incidents is a set whose records carry their
place, `nth`; `_incident`, a `next` over the list, is `CHOOSE`, and has no value exactly
when Python raises `StopIteration`. `process_events` is `Prune`, one `Accept` per event
the loop admits (`Timely`, `Duplicate`, `Admissible` are its checks), and `Finish`.
Failure rates are compared by cross-multiplication and medians are kept doubled, so
there are no fractions: the code's floats and its rounding of intervals to six digits
are not modelled. The Wilson bounds are operator constants.

**Ingest.** `Request` reads the handler's clock, `Begin` enters the exclusive
transaction, loads the row (an expired one is empty) and prunes it at the *request's*
instant, `Skip` and `Absorb` take the events of the sorted batch one by one, and
`Commit`, `OverQuota`, `Refuse` and `Rollback` end it. Nobody else sees the steps in
between; they are separate so that TLC enumerates batches by walking them. `counted`,
`recounted` and `charged` are histories that no action reads.

**Accounts.** One action per storage operation, each a single step because
`BEGIN IMMEDIATE` makes it one; `principal[r]` is what `require` returned to request r,
and may be stale by the time the request acts. A state is abstracted to the set of keys
that wrote it, which is what tells incarnations and authority apart. `era` and `lineage`
are histories.

**Provision.** `cli[c]` is how far the command in slot c is. `Create`, `Delete` and
`CleanUp` are the store's own `CreateTenant` and `DeleteTenant`, joined with what the
command does next; `Open`, `WriteKey` and `Synced` are `write_private`; `Fail` may take
the place of each of them and `Kill` that of every step. `secret` is the set of keys that
only a command has seen, which is why no request presents them.

**FirestoreStore.** `Begin` takes what the callback reads (`seen`), a commit elsewhere
that writes a document the attempt has read clears `valid`, and only a valid attempt
commits; `Retry` reads again. These are the semantics of Firestore transactions, an
external service.

**SdkClient.** An access under `_lock` is a step, a request takes several
(`TakeBatch`, `Server`, `Answer`/`Busy`/`Error`, then the counters). `stored` is a
history: whether the server has committed the batch in hand. Batch lengths are any
number up to the limit, which stands for the byte limit.

**Delivery.** `StampEvent` is `event()` inside `observe`, before `emit`'s lock;
`EmitStamped` is `emit`. `Post`, `GiveUp` and `Continue` are SdkClient's steps, told
apart by what they do to `wire`, the requests still on their way. `Accept` and
`RefuseLate` are `process_events` on one stream, of which deduplication and
`last_timestamp` are kept. The wall clock does not go back.

**Limiter, Frontend.** `buckets` is the `OrderedDict` as a sequence, the entry that goes
first in front. The middleware's steps are those between its awaits. `Authenticate` ends
with `time.monotonic()`, `Allowed` and `RateLimited` are the part of `allow` under the
lock, so `request[r].now` may be old by then. `passed` and `since` are histories: when a
tenant was admitted, and which others have been since; the properties count the part of
`passed` they speak of, and it ends when the tenant is forgotten.

**Publish.** An invocation is a record of where it is in `publish`; files are absent,
partial or complete with a signature. A transaction is its signature, a ledger entry.

## 3. Runs

| Run | Question | Bounds, and why they are enough |
|---|---|---|
| `ingest_windows` | the window, baseline and incident machinery of one stream | WINDOW 2, eight events, retention 3 of 8 instants: the run contains a first baseline, an outage, sliding during it, recovery, a second outage, loss of the oldest baseline sample, rebuilding, and requests one tick late |
| `ingest_batches` | links, replay protection, quota, limits | three streams for two places, and two dedup entries, two incidents, one version: every limit is hit and exceeded; batches of two, so a second event can fail a batch; an ID conflict; the row expires and is dropped |
| `ingest_concurrent` | evidence, stamps and expiry under overlapping requests | two slots, MaxWait 1, so commits happen against the order of `now`; a latency metric with an event that does not carry it; skew 2 |
| `accounts` | authority, incarnations, provisioning | one tenant ID, four keys (two with one prefix), key limit 2, one path, two slots for requests and commands: a request can outlive its key, its tenant and the tenant's successor; two commands race for the ID and the path; a clean-up meets a tenant created since. More tenants only add independent copies: the proofs cover any number |
| `firestore` | agreement, refinement, termination | two keys (a tenant deleted and created again), all scopes, two requests, two attempts: a conflict, and a call that runs out of attempts; no symmetry. The key limit is not reached here (it is in `accounts`); the refinement proof covers it |
| `sdk` | accounting, order, termination | two flushing threads, capacity 3, batches of 2: a flush needs two batches while the queue fills up behind it; one retry |
| `delivery` | what makes an event late | two writers, two flushing threads, three events, batches of two, one retry, two instants: an event is overtaken before the queue, a request is repeated or outlived by a later one |
| `frontend` | responses and budgets | two requests, three tenants of which two are remembered, limit 1 in windows of 2, four instants: a thread stalls over a window's end, and a tenant is forgotten |
| `publish` | submissions, receipts, termination | three invocations, two blockhashes, two polls |
| `ingest_stale_quota`, `ingest_stale_replay`, `ingest_restamped` | see findings | the smallest instances that show them |

Bounds on otherwise unbounded behaviour are named: `MaxClock`, `MaxWait`, `MaxBatch`
(Ingest), `MODULUS` (SdkClient; event numbers and counters wrap, and the compared
differences stay below it modulo itself), `MAX_POLLS` (Publish), `MaxClock` (Frontend, Delivery) and `MaxEvents` (Delivery).
Symmetry is used for request slots, threads, tenants, and keys that the instance does not tell apart, and only where
no liveness property is checked. Deadlock is checked everywhere but in `publish`, where
every invocation having ended is a normal end.

### What the runs show

- Streams and incidents stay linked (`IncidentsLinked`), open incidents are neither lost
  nor altered once closed (`IncidentsPersist`), never compare against a moved baseline
  (`BaselineFrozen`, `EvidenceHasBaseline`), and do not wait with their recovery criteria
  met (`NoStuckIncident`). A row that has expired counts as none in `BaselineFrozen`: a
  request that waited past the expiry starts from an empty state and may report the same
  onset, with the same incident ID, against a new baseline. An *expired* incident can carry a `resolved_at` before its
  `opened_at`, by less than the accepted clock skew (`ResolutionAfterOnset` states
  exactly that).
- The five minutes storage adds to the retention are what the clock skew needs
  (`NothingRetained` in `ExpiryLosesNothing`; with less grace it fails), and the day whose
  usage goes with an expired row is over for every request in progress, even one with an
  old `now` (`UsageOver`; it would fail if a commit did not renew the expiry).
- With one request at a time that does not outlive the clock tick it began in, no event
  is counted twice and the quota holds.
- Nothing is created, deleted, issued, revoked, written or dropped in a tenant's tables
  but by the operator, by expiry, or by a key of that tenant that is active and has the
  scope in the very step that does it (`EffectsAuthorised`), and nothing of a former tenant
  reaches its successor (`OneIncarnation`). `docs/operations.md:39-40` allows less: an
  authenticated request "may finish" after its key is revoked. The code is stricter,
  because every operation checks the key again in its own transaction; the property states
  what the code does. A request that only reads changes no table, so what a stale key may
  be *shown* is not covered by it, although `Read` and `ListKeys` have the same guard.
- The Firestore adapter implements the same specification as SQLite (`Implements`), as
  far as changes go: a read or a listing that changes nothing is as good as a refusal to
  the refinement, which does not compare what the client is shown.
- The SDK's counters account for every event, through partial failures and raise mode;
  only an interrupt (an exception `flush` does not handle) loses a batch uncounted, which
  the model shows as `abandoned`.
- An application that shares one client loses an event to `late_event` only if another
  thread overtook it between its timestamp and the queue, or if a request was given up
  while it was on its way (`LateOnlyIfOvertaken`): the timestamp is taken at
  `client.py:215`, before the lock, which `docs/protocol.md` leaves to the caller. A late
  event has its whole batch refused: the others of the batch are lost with it and are not
  themselves late, so the property does not count them.
- In any window a tenant is admitted at most twice its limit, plus one for each other
  thread that may hold an old instant (`BudgetHolds`). `docs/grant-readiness.md:132` lists
  "120 per minute per tenant": that is the count per fixed window, and in a minute that
  spans two windows about twice as many pass. The tenant's limiter refuses a call only
  after LIMIT admissions of that tenant (`RefusedOverBudget`). That is not every 429: the
  process-wide limit (`api.py:102`, `Arrive`) is shared, so there one tenant's requests do
  get another's refused, and the daily quota (`api.py:264`) is `Ingest`'s. A tenant is forgotten, and starts anew, only after
  `capacity` others have been admitted since.
- `tenant create` leaves a tenant without a credential only if it is killed or cannot
  reach the store (`NoStrandedTenant`). Its clean-up deletes by ID; the tenant it
  created is empty until the credential is written (`UnusedUntilWritten`), but if
  another operator has deleted and recreated the ID in between, it is theirs that goes.
  A command that fails *after* the key has reached the file (in `fsync`) cleans up too; the
  key may be in use by then, so that clean-up may take a client's data along and is outside
  `UnusedUntilWritten`.
- Publication submits at most once per output path.

### Findings

- `ingest_stale_quota`: documentation promises an atomic daily limit. The day is taken
  from a `now` captured before the transaction, so two requests around midnight that
  commit in the other order reset each other's count.
- `ingest_stale_replay`: documentation promises that retries count as duplicates and are
  never counted again. A request with an older `now` can re-admit an event that a later
  request's pruning has just forgotten.
- `ingest_restamped`: documentation says active incidents are bounded by the streams. A
  client that reuses an onset's event ID with a later timestamp gets two incidents of
  one ID, one of which stays open without a stream.

The first two need two requests of a tenant to overlap a boundary (midnight, or an
event's seventh day); they come from the same line, `api.py:256`.

## 4. Fairness

Only what the code's own control flow owes is assumed. `Publish`: a running process
takes its next step (`WF_vars(Work(p))`), because every network call has a timeout and
the loop a deadline; killing it is always possible and never required. `SdkClient`: a
thread inside `flush` goes on, because requests time out; nobody is obliged to call
`flush`, the server to answer usefully, or the application to stop emitting.
`FirestoreStore`: a request's thread goes on with its call; conflicts may keep coming.
`Ingest`, `Accounts`, `Provision`, `Delivery` and `Frontend` have no fairness: nothing in
them is promised to happen.

## 5. Proofs

All theorems hold for every value of the constants that meets the modules' named
assumptions (`SizesAssumption`, `IngestAssumption`, `AccountsAssumption`,
`ProvisionAssumption`, `FirestoreAssumption`, `SdkAssumption`, `DeliveryAssumption`,
`FrontendAssumption`, `PublishAssumption`), and for specifications without any bound on
the number of steps. `Threads` (SdkClient) and `Slots` (Frontend) are assumed finite: a
process has finitely many threads, and sums and counts over them mean nothing otherwise.

**IngestProofs** (`TypeCorrect`, `LinksCorrect`, `OnsetsCorrect`). Under `StampedOnce`
(no event ID is sent again with another timestamp; without it `ingest_restamped` is the
counterexample). None of the properties is inductive by itself: opening an incident
keeps IDs unique only if the onset was not accepted before, which follows from
`OnsetsKnown`; closing one needs `_incident` to find it, which needs links and unique
IDs; eviction must take a closed one. `IndInv` therefore says of *both* engine states,
the row and the working copy, that they are typed and `GoodEngine` (links in both
directions, unique IDs, onsets known and not after the stream's last timestamp, a finite
dedup). There is one lemma per operator (`PruneGood`, `DetectGood`, `FollowGood`,
`AcceptGood`, `FinishGood`) and one per action. `ExpiryCorrect` adds `Horizon`, which
bounds every instant in the row by the commit's clock plus the skew, and needs
`GRACE >= FUTURE`, as in the code; and `Charging`, which keeps the row's day behind its
last commit and requests within `MaxWait`, and needs `DAY + MaxWait <= RETENTION + GRACE`:
a day and the longest wait (30 seconds on Cloud Run, `docs/grant-readiness.md:129`) against
seven days and five minutes. The first half alone is `RetentionLapses`, which `ReplayCorrect`
and `PersistCorrect` use.

`ReplayCorrect` and `QuotaCorrect`, in the same module, both assume `AtOnce`: requests may
overlap, but none waits across a tick of the clock. With waiting requests both
properties are false (`ingest_stale_replay`, `ingest_stale_quota`, one tick is enough),
so the theorems say that the captured `now` is the only way to break them: eviction,
pruning, expiry and purging are not. `Replay` says that every event ever accepted is
`Barred` (retained, below the floor, or too old) from the row and from the open
transaction; a row that expires is older than the retention period by `Horizon`.
`Ledger` ties what was charged to the current day to the row, and needs
`DAY <= RETENTION + GRACE`: usage is forgotten with a row only when its day is over.

**EngineProofs** (`LimitsCorrect`, `OpenCorrect`, `EvidenceCorrect`, `WindowsCorrect`,
`ResolutionCorrect`, `RecoveryCorrect`, `PersistCorrect`, `FrozenCorrect`,
`ReadersCorrect`). `EngineStep` says once what any step does to the two engine states, so
each further invariant needs one lemma per operator of `Detection`. `Sized` bounds streams
and incidents at every point of a transaction; the retained events may exceed their
limit until `Finish` forgets the oldest, and because no ID is retained twice their order
is strict, so what is left has exactly the right size and lies above the new floor. Open
incidents are mapped injectively to the streams they are active in, so with
`RoomForOpen` (`MAX_STREAMS <= MAX_INCIDENTS`, 16 and 32 in the code) a full list always
has a closed incident to evict. `Supported` keeps the evidence: only a full window is
compared, the baseline is frozen while an incident is open, and the expiry that empties
it closes the incident too (`MetricsApart`: no metric has the name of a rate signal).
`Windowed` says of each stream that both windows are in order, that one precedes the
other and that the last timestamp is that of a sample still held, so that sliding one
into the other and rebuilding after a recovery preserve it.

The rest is about incidents and rests on these.

- `ResolutionCorrect`: recovery is stamped with the stream's last timestamp, which never
  precedes an onset (`GoodEngine`). Expiry is stamped with the instant the baseline's
  first sample lapses; `Lasting` says that an incident opens less than
  `RETENTION + FUTURE` after that sample, for which `Recent` bounds what an open
  transaction still holds.
- `RecoveryCorrect`: `Unstuck` holds at every point of a transaction, not only at rest.
  What the window holds changes in `Accept`, which evaluates at once, and in `Prune`,
  which leaves a window that lost a sample short of full, so that nothing can recover in it.
- `PersistCorrect` and `FrozenCorrect` are action properties. The first needs
  `GRACE >= FUTURE`, or else a row could expire with an incident that is still young. The
  second compares the committed state with the row the transaction *began* from, several
  steps earlier; `FrozenInv` carries through the transaction that the baseline is the old
  one while the incident is the same (`Froze`), and that the event it was opened by is
  barred (`Spent`), so that it cannot close and open again under the same ID.
- `ReadersCorrect` is an algebraic law: `Prune` at one instant and again at a later one
  shows what the later one alone shows, although the first may have rebuilt a baseline
  from the current window. The section "Pruning twice" proves it for a stream's windows
  (`CutTwice`), a stream (`PruneStreamTwice`) and a state (`PruneTwice`).

**AccountsProofs** (`TypeCorrect`, `IncarnationCorrect`, `KeyLimitCorrect`,
`AuthorityCorrect`). The inductive invariant adds `Honesty`: a request that holds a key
which is still listed describes it as the table does. That is why checking
`expected_key_hash` again is enough although scopes are not read again.
`AuthorityCorrect` is an action property about every entry a step adds or removes: whoever
is answered in the step acted for that tenant and holds the scope in the state the step is
taken in. There is one lemma per operation; tenants it does not concern are untouched
(`UntouchedTenant`).

**ProvisionProofs** (`ProvisionImplementsAccounts`, `ProvisionTypeCorrect`,
`NoTenantStranded`, `CreatedUnused`, `FilesStay`). Each command's step is a step of
`Accounts` or leaves the store alone, so the theorems above hold with operators at work.
`PInv` adds `Commands` (which tenant and key a command is at) and `Secrecy` (no request
presents a secret key, and every key was issued in a past or present era): a live tenant
whose key is secret can only have been touched by its own command. `FilesStay` rests on
`Owned`, which gives every file being written to the one command that opened it.

**FirestoreProofs** (`TypeCorrect`, `DocumentsAlwaysAgree`,
`FirestoreImplementsAccounts`). The simulation argument is `Sighted`: an attempt that is
still `valid` has seen what its documents hold *now*, because every commit spoils the
attempts that read what it wrote (`SightKept` and `OnlyWrites` say which those are). So
a callback that passed on what it saw passes on what is there, and its commit is the one
atomic step of `Accounts`; `NewKeys` keeps two calls from issuing one digest, and
`UniqueIds` makes the one match that revocation removes all there is.

**SdkProofs** (`TypeCorrect`, `SentInOrder`, `SentIsStored`, `ConservationCorrect`,
`ClientInDelivery`, `LateCorrect`).
`OneFlush` (one thread inside `flush`) makes the batch in hand unique; `QueueOrder` and
`BatchOrder` say that the queue ends with the latest event and that the batch ends where
the queue begins, which is what appending and cutting preserve. `ClientInDelivery` says
that Delivery takes the client's steps only.

`LateCorrect` is about client, wire and service together. Events are numbered in the order
they enter the queue, so `Handed` and `Behind(f)` cut the numbers into what is queued,
what is in hand and what went before (`Numbered`). `Known` says that the service has
accepted all of the batch in hand or none of it, and every request on the wire is that
batch or older; `Settled` says that what is on the wire and no longer in hand was accepted
before or given up. So an event that meets a later one at the service was overtaken
before the queue, or belongs to a request given up. `ConservationCorrect` sums the batches
of all threads; only the thread in `flush` has one, so the sum is its length (`SumOfOne`,
from the definition of the fold), and counters that wrap at `MODULUS` still add up
(`WrapUnique`).

**FrontendProofs** (`TypesCorrect`, `ResponseCorrect`, `RefusalCorrect`, `BudgetCorrect`).
`AdmittedIs` says what `Limiter.allow` does to the `OrderedDict` in terms of places: one
entry goes (the tenant's own, or the oldest one when there is no room), the others keep
their order, the new one comes last. From it follow the two halves of the invariant. One
relates dictionary and histories: the tenants admitted since an entry's tenant was are
those of the entries behind it (`Follow`), so an entry is evicted exactly when CAPACITY
others have been admitted since, and a history ends exactly when its entry goes
(`HistoryAfter`). The other counts: an entry's count stands for admissions since its start
(`Counted`), and `Budget` bounds what a tenant has spent since *any* instant less than
SECONDS ago, not only since the one the property speaks of, together with the calls that
read the clock before that instant and are still on their way. Each such call is worth one
admission when it reaches the lock, whatever window it opens, and that is the term
`Cardinality(Slots) - 1` of the property.

**PublishProofs** (`TypeCorrect`, `SubmissionCorrect`, `RecordCorrect`,
`ReceiptCorrect`). The argument is exclusive creation: `Exclusive` says that at most one
invocation is writing the pending file, and that every invocation past it is the one the
file names.

**Model-checked only.** Liveness (`CallsEnd`, `FlushEnds`, `PublishEnds`), which needs
fairness and ENABLED, is beyond the prover. Every safety invariant and action property
that a passing run checks is the statement of a theorem above; some under the assumptions
named there (`StampedOnce`, `AtOnce`, `RoomForOpen`, `MetricsApart`, `GRACE >= FUTURE`,
`DAY + MaxWait <= RETENTION + GRACE`), without which the findings, or a smaller GRACE, refute them.

## 6. Not modelled

- Floats: rounding of intervals, the exact Wilson formula. The engine's decisions are
  modelled on exact comparisons; `MCIngest` gives bounds of the same shape for windows
  of two or three samples.
- Byte limits of state and request: `Rollback` may refuse any batch; a flush may cut a
  batch anywhere.
- Field validation, hashing, encodings, configuration, HTTP wording: pure functions of
  their input.
- `tenant create`'s argument checks, `admin-key` (one `write_private`, no other state)
  and `serve`; scripts, examples and infrastructure, which drive the components above.
- HTTP details: headers and JSON nesting are an arbitrary refusal of `Reject`.
- `submission_status` and the read-only endpoints (`/ready`, `/v1/network`), which
  change nothing.
- Power loss: `write_private` syncs the file but not its directory; a killed process is
  modelled, a lost directory entry is not. What a file system keeps then is outside the
  repository.
- Clocks that go back: the engine's clock is the handler's `now`, which may be old, but
  the wall clock itself only advances.

## 7. Plan

Written in this order: `Detection` and `Ingest` (the core), `IngestProofs`, `Accounts`
with proofs as the abstract store, `FirestoreStore` as its refinement, `SdkClient`,
`Publish` with proofs; then `Provision` with proofs, `Limiter` and `Frontend`,
`Delivery`, and the proofs of `FirestoreStore` and `SdkClient`; then `EngineProofs`, the
theorems about replay and quota, those about incidents and readers, `Delivery`'s and
`Conservation`, and last `FrontendProofs`. What would come next:

1. That the abstract rate limiter (at most LIMIT per tenant and window, nobody else's
   requests counted) is implemented by `Frontend`, as a refinement in place of the two
   counting invariants.
2. The Firestore adapter's `transact` under the engine's own operators, so that the
   theorems about `Ingest` are stated for both stores.
