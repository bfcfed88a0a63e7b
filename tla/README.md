# TLA+ verification of the chihaya tracker

This directory models the announce path of the chihaya BitTorrent tracker (sot-tech fork) as it appears under `src/`. It holds TLA+ modules, TLC configurations and TLAPS proofs.

## The system

Each announce passes through three layers:

1. **Frontend.** HTTP or UDP parses the request into a `bittorrent.AnnounceRequest` (`src/bittorrent/bittorrent.go:116-130`). This request carries the event, the infohash, `left`, `numWant` and the peer.
2. **Logic.** This runs the pre-hooks, then the two internal hooks of `src/go.mod`, then the post-hooks.
   - **`swarmInteractionHook.HandleAnnounce`** (`src/go.mod:150-189`) writes the peer to the store.
     - `stopped` deletes the seeder and the leecher entries, in two store calls.
     - `completed` graduates the peer.
     - `left == 0` puts it as a seeder.
     - Anything else puts it as a leecher.
     - For a BitTorrent v2 infohash (32 bytes), the same store function is then applied a second time, to the v1 truncation (`TruncateV1`, `src/unnamed/part_000:72-77`).
   - **`responseHook.HandleAnnounce`** (`src/go.mod:217-231`) reads the swarm counts with `ScrapeSwarm`. For a v2 hash it adds the counts of the truncation. `appendPeers` (`src/go.mod:233-286`) then asks the store for up to `numWant` peers (`AnnouncePeers`), mixes them with peers a pre-hook put in the response, and removes duplicates under the cap. If no peer is returned, it inserts the requester itself and increments a count.
3. **Store.** This holds swarms keyed by infohash: a seeder set, a leecher set and a snatch count. Every call is atomic under the shard lock.
   - **Memory store.** This is not under `src/`. It is modelled from `spec.md`. Its garbage collector evicts peers not seen for `PeerLifetime`.
   - **PostgreSQL store.** This is `src/unnamed/part_002`.

Several announces run concurrently, one goroutine per connection. Nothing orders the store calls of two goroutines. Between two calls of one handler, any other handler's calls and the GC sweep may run.

Other parts under `src/`:

- the HTTP response writer (`src/unnamed/part_001`);
- the varinterval post-hook and the approval list (`src/middleware/torrentapproval/container/list/list.go`), a pre-hook that admits an announce when its infohash is (or, inverted, is not) in a storage context of the peer store;
- the wire types (`src/bittorrent/bittorrent.go`);
- the entropy helper (`src/middleware/pkg/random/entropy.go`);
- the process lifecycle with its reload and quit signals (`src/cmd/chihaya/main.go`).

## Modules

| Module | Models |
|---|---|
| `Tracker.tla` | the store (memory semantics), the swarm-interaction hook, the response hook's announce path, the GC and the clock |
| `MCTracker.tla` | model values, the truncation map `h2 :> h1`, symmetry sets |
| `TrackerProofs.tla` | the TLAPS proofs of `TypeOK`, `NoSelfInResponse` and `MirrorConsistent` |
| `PgStore.tla` | the PostgreSQL store: `Validate`, the peer table and its writes, the GC query, `AnnouncePeers` up to the column check, `ScrapeSwarm` |
| `MCPgStore.tla` | two spellings of every column name, `ToUpper` as a function, a lower-case and an upper-case configuration |
| `PgStoreProofs.tla` | the TLAPS proofs about the column lookups, of `TypeOK` and of `ScrapeTotalMatches` |
| `AnnounceInterval.tla` | the announce intervals: the configured durations, the varinterval post-hook, the HTTP writer's conversion to seconds |
| `MCAnnounceInterval.tla` | instantiates it (a second of two ticks) |
| `AnnounceIntervalProofs.tla` | the TLAPS proofs of `JitterBounds` and `MinNotAboveInterval` |
| `Lifecycle.tla` | the process lifecycle of `src/cmd/chihaya/main.go`: `NewRun`, `Run.Start`, `Run.Stop`, the signal loop, the store's `Stop` result |
| `LifecycleProofs.tla` | the TLAPS proofs of `StopsTopDown` and `StoreKeptAcrossReload` |
| `MCLifecycle.tla` | instantiates it; the cfgs choose the store kind and the number of signals |
| `WireTypes.tla` | `InfoHash` of `src/bittorrent/bittorrent.go`: `NewInfoHash` with its type switch, hex decoding and size check, and `InfoHash.String` |
| `ApprovalList.tla` | the `list` approval container: `build` of every list in the hook configuration, rebuilt on each reload on the kept store, and `List.Approved` |
| `MCApprovalList.tla` | hash_list entries in both cases, a non-hex entry, entries of the wrong length, both storage contexts |
| `ApprovalListProofs.tla` | the TLAPS proofs of `OwnEntriesHonoured`, of the hex round trip lemmas and of `HexRoundTrip` |

### `Tracker.tla`

- **State.** `seeders[h]`, `leechers[h]`, `swarm[h]` (whether the swarm exists), `snatches[h]` and `lastSeen[h][e]` form the store. `clock` is the time cache.
- **Per worker (one goroutine handling one announce).**
  - `pc[w]` is the stage of the handler it is in.
  - `req[w]` is its request.
  - `resp[w]` is the response under construction: complete, incomplete and peers.
  - `issued` counts requests, bounded by `MaxRequests`.
- **Data abstraction.** A peer is an endpoint model value, because the store keys peers by endpoint. An infohash is a model value in `V1Hashes` or `V2Hashes`, and `Trunc` maps each v2 hash to its truncation. Each store call is one atomic action.
- **Actions**, one per store call of the handler, in the code's order:
  - `ReceiveAnnounce` takes a request from `AnnounceRequest` with the pre-hook peers. The request also carries the two context keys a pre-hook may set: `skipSwarm` for `SkipSwarmInteractionKey` and `skipResponse` for `SkipResponseHookKey`. `SkipFlags` is `{FALSE}` when no pre-hook sets them; the spec says approval hooks may, and no hook under `src/` does.
  - `SkipSwarmInteraction` is the swarm hook's early return (`src/go.mod:152-154`): no store call, straight to the response hook. Every store action of the swarm hook is guarded by `~SkipsSwarm(w)`.
  - `StopDeleteSeeder` and then `StopDeleteLeecher` handle the stopped event.
  - `Graduate`, `AnnounceSeeder` and `AnnounceLeecher` handle the other events.
  - Each of these runs first at stage `interact` on the request's hash. For a v2 hash it runs again at stage `mirror` on `TruncateV1(hash)`. `WriteKey` and `AfterStore` are the code's `storeFn` call sites.
  - `Scrape` and `ScrapeV1` come next. `ScrapeV1` is taken only for a v2 hash.
  - `AppendPeers` ends the handler.
  - `SkipResponseHook` is the response hook's early return (`src/go.mod:218-220`): no scrape and no peers; `Scrape` is guarded by its negation.
- **Background actions.** `CollectGarbage(h)` sweeps one swarm, and `Tick` advances the clock up to `MaxTime`.
- **Idle steps.** `Quiet` stutters once every request is done.

## Runs

The runs of this section use `MCTracker.tla`.

| Run | Configuration | Expected result | Checks |
|---|---|---|---|
| `mirror_sequential` | 1 worker, 2 endpoints, hash `h2` only, 4 requests, `MaxNumWant` 2, both values of each skip key, `MaxTime` 2 with `PeerLifetime` 0 so the GC evicts, symmetry over endpoints | pass | `MirrorConsistent`, `NoSelfInResponse` |
| `mirror_race` | 2 workers, 1 endpoint, `h2` only | violation | `MirrorConsistent` |
| `self_count` | 1 worker, 1 endpoint, 1 request | violation | `CountsWithinPeers` |
| `numwant_overflow` | 1 worker, 3 endpoints, `h1` only, 2 requests, `MaxNumWant` 1, one pre-hook peer `e1` | violation | `ResponseWithinNumWant` |

### Bounds

- In `mirror_sequential`, two endpoints, `MaxNumWant` 2 and four requests let the requester be in the swarm with another peer of either role, after puts, graduations, stops and evictions, which is where the requester's exclusion can go wrong; both values of each skip key let a request skip the store writes or the answer. `NoSelfInResponseHolds` proves the exclusion for any number of workers.
- The mirror run is restricted to one worker because, with two workers, the property is violated; that violation is the `mirror_race` finding. The one-worker run still exercises the GC evicting between the v2 and v1 writes.

### What the properties say

- **`NoSelfInResponse`**: the peers handed back never include the requester, except on the single-peer path where the code does that on purpose. This needs `MiddlewarePeers = {}`.
- **`ResponseWithinNumWant`**: at most `max(numWant, 1)` peers are returned (the spec's hard cap; the 1 is the requester inserted into an empty answer).
- **`MirrorConsistent`**: between requests, every peer of a v2 swarm is in the same role in the v1 swarm.
- **`CountsWithinPeers`**: the reported complete plus incomplete counts do not exceed the endpoints that exist.

### Findings

1. **Mirror race** (`src/go.mod:184`). The mirrored write is a separate store call. Consider two announces from one endpoint, one as leecher and one as seeder. Their writes can interleave as V2-seed, V2-leech, V1-leech, V1-seed. The result is that the peer is a leecher under the v2 hash and a seeder under the v1 hash.
2. **Self-insertion double count** (`src/go.mod:255-261`). A lone seeder has already been counted by `ScrapeSwarm`. It is counted again, so it is told `complete = 2`.

3. **Cap off by one** (`src/go.mod:270`). The deduplication loop of `appendPeers` breaks only once `len(uniquePeers) > max`, so it keeps `max + 1` peers when pre-hook peers and store peers together exceed `max`. In `numwant_overflow` the requester `e1` announces with `numWant = 1`, the pre-hook peer `e1` is already in the response and the store returns `e2`: the answer holds both. The defect is latent in this repository: `AnnouncePeers` alone returns at most `max` peers, and no hook under `src/` adds peers before the response hook.

### Mutants

Each property of a passing run is broken by a plausible defect variant, defined in `Tracker.tla` before the definition it replaces:

- `AnnouncePeers` not excluding the requester breaks `NoSelfInResponse`;
- the mirror written under the untruncated key breaks `MirrorConsistent`.

### `PgStore.tla`

- **State.**
  - `cfg` is the `Config` that `Validate` returned.
  - `annFields` and `cntFields` are the field names of the Announce and Count queries' result sets. These are the configured names in any case, as the database may fold them.
  - `rows` is the peer table: infohash, peer, role and timestamp.
  - Each worker has a stage, a call and its outcome.
- **SQL.** The SQL statements are configuration. Each is given the meaning its arguments imply:
  - AddQuery upserts the row of (infohash, peer).
  - DelQuery deletes the row with the given role.
  - GraduateQuery turns a leecher row into a seeder row.
  - GCQuery deletes the rows older than its cutoff.
  - CountQuery with ByInfoHashClause counts the rows of one hash by role.
- **`Validate`** is translated assignment by assignment. Its three announce-column assignments all write `PeerIDColumn`.
- **Column lookup.** `FieldIndex` is the header switch of `getPeers` and `countPeers`, in case order.
- **Unreachable code.** `AnnouncePeers` is modelled up to `getPeers`' column check. `PgStoreProofs` proves that the check fails in every configuration, so the rows loop and a leecher's second query are never reached. The model's guard states this. A state where the check succeeded would be a TLC deadlock.

| Run | Expected result | Checks |
|---|---|---|
| `pg_scrape` | pass | `ScrapeTotalMatches`: the two counts add up to the rows of the asked hash, under writes and GC (2 hashes, 2 peers, 4 operations, both configurations, every casing of the result columns) |
| `pg_scrape_swap` | violation | `ScrapeCountsMatch`: a lone leecher row is scraped as a seeder (`part_002:506`) |

`Validate` writes the three upper-cased announce columns into `PeerIDColumn` (`part_002:210-212`), so an announce on a swarm holding a peer gets none and the columns error. This is not a run: the theorem `AnnounceColumnsNeverFound` proves it for every configuration, which a run on one instance would only illustrate.

### `AnnounceInterval.tla`

A duration is a count of ticks, and `Second` ticks make a second.

- **`hook`.** The varinterval `Config` that `checkConfig` accepts. Of the probability, only whether it is 1 matters: below 1, any single request may or may not be modified.
- **`Modify`.** Adds `(v+1)` seconds, for any `v` that `Intn` can return, to `Interval`, and to `MinInterval` when `modify_min_interval` is set. `KeepInterval` leaves both unchanged.
- **`WriteAnnounceResponse`.** The two guarded divisions of `part_001:36-42`, in that order.

| Run | Expected result | Checks |
|---|---|---|
| `announce_interval` | pass | intervals of 2 to 5 ticks and min intervals of 0 to 5 ticks with a 2-tick second; every hook configuration with max delta 1 or 2. It checks `JitterBounds` and `MinNotAboveInterval` |

### `Lifecycle.tla`

- **State.**
  - `main` is where the main goroutine is: in `Start` (first or after a reload), in the `select`, at one of the three `Stop().Wait()` calls, or returned (`exited` with nil, `failed` with an error, which `main` turns into `log.Fatal`).
  - `comps` holds the state of the stop group (metrics server and frontends), the logic and the store.
  - `keep` is `Stop`'s `keepPeerStore` argument.
  - `kept` is the store that `Stop` handed back.
  - `storeGen` counts the stores that were created.
  - `storeStop` is the store's `Stop` result.
  - `sigs` and `termSent` record the signals the environment sent.
- **Data abstraction.** The configuration is abstracted to whether `Start` succeeds. Each of its early returns is the one action `StartFails`. Each `Stop().Wait()` with errors is the `ok = FALSE` branch of its step.
- **Signals.** `signal.Notify` sends to its channel without blocking, and `quit` is unbuffered (line 151). So `DeliverSignal` applies only while the loop waits in its `select`. At any other moment after `NewRun`, the signal is lost (`DropSignal`).
- **The store's `Stop`.** It returns a result that another goroutine completes (`StoreStopDone`). The memory store completes it. The PostgreSQL store's `Stop` (`part_002:515-519`) closes the pool and returns the result of a channel it never completes. `StoreKind` chooses between the two.

| Run | Expected result | Checks |
|---|---|---|
| `lifecycle` | pass | memory store, 5 signals. It checks `StopsTopDown` (a frontend never runs on a stopped logic, nor the logic on a stopped store), `StoreKeptAcrossReload` (only the first `Start` creates a store) and `ShutdownCompletes` (a begun `Stop(false)` returns) |
| `lifecycle_dropped_signal` | violation | `QuitHonoured`: a reload is delivered, and a SIGTERM sent during `Stop(true)`/`Start` is dropped, so the process serves on (`main.go:151`) |
| `lifecycle_pg_stop` | violation | `ShutdownCompletes` with the PostgreSQL store: `Stop(false)` waits forever for the store (`part_002:518`), and later signals are dropped as well |

Five signals are enough for every order of reloads and quits, with drops during each stopping and starting step. The mutants of this run:

- skip `r.sg.Stop()`;
- return no store from `Stop(true)`;
- loop back to the `select` after the store stopped instead of returning.

### `WireTypes.tla` and `ApprovalList.tla`

- **Byte strings.** A byte string, and a Go string, is a sequence of naturals below 256; a hex digit is its ASCII code. `hex.DecodeString` and `hex.EncodeToString` (standard library, used by `NewInfoHash`, `InfoHash.String` and `build`) are functions over the indices: decoding fails on an odd length or a non-hex byte, either case decodes, and encoding writes the high nibble first in lower case.
- **`NewInfoHash`.** The `interface{}` argument is a kind (`nil`, an array, a byte slice, a string, any other type) and its bytes. A string whose length is twice a hash length is hex-decoded, any other string is taken raw, and the result must have a hash length.
- **Lengths.** `InfoHashV1Len = 1` and `InfoHashV2Len = 3` stand for 20 and 32. `WireAssumptions` keeps the relations the code depends on: v1 is shorter, and no hex form has the length of a raw hash (2·1 ≠ 3), so a string is never both decodable and raw-sized.
- **`ApprovalList` state.** `kv[ctx]` is the set of infohashes a storage context holds (the store's `Contains` and `BulkPut` are from the spec). Per list: its context, its `Invert` and the hashes its configuration names. `pc` is the list `Start` builds next, `failed` that a build returned an error.
- **Actions.** `BuildSucceeds(i)` is the whole of `build`: the parsed config, the default context when `storage_ctx` is empty, each entry decoded and made an `InfoHash`, one `BulkPut` if the list is not empty. `BuildFails(i)` is every error return (deserialisation, hex, size): `Start` and the process fail. `Reload` is SIGUSR1: `Stop(true)` keeps the store and `Start` rebuilds every list from a configuration chosen again.
- **Instance.** Two lists, one reload. Each config is any of six hash lists (empty, lower-case, upper-case with a second entry, a v2 hash, a list with a non-hex entry, an entry of the wrong length), either invert and either context, plus an unparseable document. Two lists on one context and a reload to a different list are where stale or shared entries show.

| Run | Expected result | Checks |
|---|---|---|
| `approval_list` | pass | `OwnEntriesHonoured`: while serving, each list approves its own whitelisted hashes and refuses its blacklisted ones, whatever shares its context; `HexRoundTrip`: every stored hash printed by `String` and parsed by `NewInfoHash` as a string gives the same hash |
| `approval_reload` | violation | `ApprovedMatchesConfig`: a list approves exactly what its current configuration says |

**Finding (reload staleness, `list.go:58`).** `build` only adds to the context, and a reload rebuilds on the kept store. After a reload that removes `ab` from a whitelist, `ab` is still approved. The spec says a reload re-reads the configuration. Two lists with no `storage_ctx` share the default context and leak into each other in the same way.

Mutants: `BulkPut` under the raw `storage_ctx` (ignoring the default), which breaks `OwnEntriesHonoured`; hex encoding with the low nibble first, which breaks `HexRoundTrip`.

## Fairness

The Tracker, PgStore, AnnounceInterval and ApprovalList runs check only safety, so they assume no fairness. `Lifecycle`'s `Spec` has weak fairness on two parts:

- the main goroutine's steps: the Go scheduler runs a runnable goroutine;
- the store's completion of its `Stop` result: its own goroutine.

The environment is not obliged to send any signal.

## Proofs (`TrackerProofs.tla` and the other proof modules)

The theorems of `TrackerProofs` hold for every value of the constants that satisfies `TrackerAssumptions`. These are:

- v1 and v2 hashes are disjoint;
- `Trunc` maps v2 hashes to v1 hashes;
- the announced hashes are a subset of all hashes;
- the pre-hook peers are endpoints;
- the endpoint set is finite and not empty;
- `SkipFlags` is a non-empty set of Booleans;
- the numeric bounds are naturals.

### `TypeCorrect`

`Spec => []TypeOK`. `TypeOK` is inductive as it stands, and the proof takes one step per action. Three lemmas support it:

- `AnnouncePeersType`: the store's answer is a set of endpoints of size at most `numWant`.
- `UniquePrefixesType`: the deduplication keeps a subset.
- `PeerCountType`: counts are naturals, since the endpoint set is finite.

### `NoSelfInResponseHolds`

`NoSelfInResponse` is stated only of workers at `done`, so it is not inductive. The strengthening `ResponseInv` says, for every worker:

- between `ReceiveAnnounce` and `appendPeers`, the response still holds exactly the pre-hook peers;
- at `done`, the answer is either the requester alone (the empty-answer path) or a set without the requester of at most `numWant` peers (`AnswerOk`); a request that skipped the response hook is done with the empty pre-hook set.

The proof rests on two lemmas:

- **`AnnouncePeersBound`.** Every result of `AnnouncePeers` leaves out the requester and has at most `n` peers. This holds on the seeder path and on the leechers-then-seeders path.
- **`UniquePrefixesAll`.** The deduplication keeps the whole store answer when it starts from no pre-hook peers and that answer is within the bound.

The theorem assumes `MiddlewarePeers = {}`: a pre-hook that added the requester would break the property, and the `numwant_overflow` run shows what pre-hook peers do to the cap. No hook under `src/` adds peers. Under that hypothesis the theorem holds for any number of workers, either skip key, and any interleaving with other announces and GC sweeps. The cap itself is not stated as a theorem: with pre-hook peers it is false (finding 3), and without them it is the bound of `AnnouncePeers`, which is modelled from the spec.

### `MirrorConsistentHolds`

`MirrorConsistent` holds only between announces. It is violated when two workers interleave their V2 and V1 writes (run `mirror_race`). The theorem therefore assumes `SequentialV2`:

- one worker;
- the announced hashes are V2 hashes;
- `Trunc` is injective on them.

The `mirror_sequential` run satisfies these.

The inductive invariant `MirrorInv` has three parts:

- **`MirrorsHold`.** Every (V2 hash, endpoint) pair is either `Mirrored` or `PendingMirror`.
  - `Mirrored` means a live seeder or leecher of the V2 swarm is in the same role in the V1 swarm, with a `lastSeen` stamp there at least as recent.
  - `PendingMirror` means the worker is at `mirror` for that pair, with a non-stop event.
  - The stamp ordering is what a GC sweep of the V1 swarm needs: a peer live in the V2 swarm is not stale in the V1 swarm, so the sweep keeps it.
- **`LastSeenBound`.** No stamp is later than the clock. So the mirrored write, which stamps the V1 entry with the current clock, restores the ordering.
- **`StageFacts`.** These say what the worker's first write left behind.
  - At `mirror`, the peer is not in the opposite role of the V2 swarm.
  - On the stop path, the peer is in neither set once both deletes have run.
  - The two `DelLeecher` stages carry the stop event.

The lemmas build up as follows:

- `MirroredMono` lists what a step must not do to keep `Mirrored`.
- `WriteFrame` shows that a store write changes only its own key and peer.
- `KeyFacts` gives the key of each stage.
- `LastSeenStep`, `StageStep` and `MirrorsStep` prove one part of the invariant each, with one case per action.

### `PgStoreProofs`

These proofs rest on `PgAssumptions`:

- `strings.ToUpper` is idempotent.
- The two count columns differ once upper-cased.
- There is some infohash, since an idle worker's request names one.

`ConfigInv` states that the configuration and the result fields are those `Init` fixed. Every action leaves them unchanged.

- **`PortNeverResolved`.** A field whose upper-cased name equals `PortColumn` (the configured port name) equals `PeerIDColumn` (`Upper` of that name), so the switch takes it as the peer ID.
- **`AnnounceColumnsNeverFound`.** `Spec => []~AnnounceColumnsFound`, from `PortNeverResolved`.
- **`CountColumnsAlwaysFound`.** `Spec => []CountColumnsFound`.

- **`TypeCorrect`.** `Spec => []TypeOK`. `TypeOK` alone is not inductive. A graduation must change a single row, and a count must be a natural. Both need `RowsOk(rows)`: the rows are well typed, finite, and there is one row per (infohash, peer). This reflects AddQuery's upsert. `TypeInv == TypeOK /\ RowsOk(rows)` is inductive. The lemmas `PutOk`, `FilterOk` and `GraduateOk` show that each write keeps `RowsOk`.
- **`ScrapeTotalMatchesHolds`.** `SumInv` says every outcome's two counts add up to its true counts. This follows from `CountColumnsAlwaysFound`: both columns are found, so each count goes to its own field or the two are swapped, and either way the sum is kept.

### `AnnounceIntervalProofs`

`IInv` describes the response at each stage:

- before the post-hook, the configured intervals;
- after it, both intervals raised by one `k` within varinterval's bounds;
- after the writer, their quotients by `Second`.

Three arithmetic lemmas are proved by SMT:

- `(a + k*S) \div S = a \div S + k`;
- monotonicity of `\div`;
- `a >= S => a \div S > 0`.

From these, two theorems follow:

- **`JitterBoundsHolds`** holds for every constant value.
- **`MinNotAboveIntervalHolds`** needs the hypothesis that every configured interval is at least a second. Below a second, `WriteAnnounceResponse` sends an interval of 0 and leaves the min interval in nanoseconds (`part_001:40`), so the hypothesis is needed.

### `LifecycleProofs.tla`

`StopsTopDown` is not inductive by itself. A `Stop` in progress must also remember what it has stopped: at `stopLogic` the stop group is down, and at `stopStorage`/`waitStorage` the logic is down too. The strengthening `IInv` adds these facts, the type of `main`, `comps` and `kept`, and `main = "restart" => kept = "store"`. `Inductive` proves `Spec => []IInv` with one case per action.

- `StopsTopDownHolds` follows directly from `Inductive`.
- `StoreKeptHolds` follows from `Inductive` and one fact: a step that changes `storeGen` is a `StartOk` with `kept = "nil"`, which `IInv` allows only at `start`.

Both theorems need only `LifecycleAssumptions`.

### `ApprovalListProofs.tla`

`OwnEntriesHonoured` speaks only of states where all lists are built, so it is not inductive: during a rebuild list `i` may already have new entries while the store has not been given them. `IInv` adds, for the lists built since the last (re)start (`1..pc-1`), that their entries are in the store under their own context, with the types of `kv`, `ctxOf`, `invertOf` and `entries` (needed to reason about the `EXCEPT` updates). `BuildStep` shows a build keeps it: the store only grows (`BulkPut` adds), and list `i` is given its own hashes, except when its hash_list is empty, when it names none. A reload resets `pc` to 1, which asks nothing. The theorem then follows because `Serving` means `pc = NLists + 1`. It needs only `ApprovalAssumptions`, so it holds for any number of lists, any set of configurations and any number of reloads.

The hex proofs show that `NewInfoHash("string", String(h))` gives back `h` for every valid infohash:

- **`EncodeDecode`.** `DecodeString(EncodeToString(h)) = h`, proved index by index: each byte is its high nibble times 16 plus its low nibble (`ByteSplit`), and a written digit reads back as its nibble (`NibbleRoundTrip`).
- **`StringRoundTrip`.** The round trip through `String` and `NewInfoHash` is the identity on `ValidHash`.
- **`StoredValidInductive`.** Every hash a build stores is in `ValidHash`. An accepted entry decodes to bytes below 256 of a hash length (`DecodedValid`).
- **`HexRoundTripHolds`.** `Spec => []HexRoundTrip`, from these.

These hold for every hash-length pair that satisfies `WireAssumptions`.

### Out of the prover's reach

These stay with TLC:

- **Liveness.** `ShutdownCompletes` and `QuitHonoured` (`Lifecycle`) are checked, never proved. Their proofs would need weak fairness and ENABLED, which the installed provers do not handle.
- **`NoSelfInResponse` with pre-hook peers.** Outside `MiddlewarePeers = {}` it may fail; `ResponseWithinNumWant` does fail there (run `numwant_overflow`).
- **`MirrorConsistent` with more than one worker.** It is violated (run `mirror_race`), so it is proved only under `SequentialV2`.
- **`CountsWithinPeers`, `ScrapeCountsMatch` and `ApprovedMatchesConfig`.** These are violated by the code (the findings above).

## Not modelled yet, and the plan

1. **`responseHook.HandleScrape`**, and a property relating the counts of one announce to its peer list. Hazard: the counts and the peer list are two separate store reads (`src/go.mod:223-236`).
2. **The rest of the PostgreSQL store**: the statistics goroutine, which only feeds metrics, and the rows loop of `getPeers`, which is unreachable while `Validate` leaves the port column unresolvable.
3. **The store's GC and statistics goroutines under `Lifecycle`**: the PostgreSQL `Stop` never closes `closed` nor waits on `wg`.
4. **Entropy**: `DeriveEntropyFromRequest` (`entropy.go:15-17`) adds the two halves where the spec says XOR, and the sum wraps at 2^64. Its only use is the seed of `random.Intn`, which is not under `src/`, so `AnnounceInterval` draws any value in range and no property of this project can tell two seeds apart.
5. **Approval by v1 truncation**: `Approved` looks up the announced hash as given, so a hybrid torrent whitelisted by its v2 hash is refused for a v1 announce. Linking `ApprovalList`'s request hashes to `Tracker`'s truncation map would check it.
6. **More theorems**: `CountsWithinPeers` once the scrape handler is modelled and the double count is fixed.

Not modelled at all:

- the frontends, whose code is not in this repository;
- the Dockerfile;
- the memory store's test harness;
- peer ID and address encodings, since no property is about them.
