# csd-swarm in TLA+

`csd-swarm` is a sidecar that keeps content payloads available: it reads from a
chain node which payload hashes are confirmed, acquires their bytes from any
untrusted source, verifies them against the hash, stores them, serves them over
HTTP, and replicates them to and from other nodes over libp2p. This directory
holds TLA+ modules of the program under `src/`, the TLC configurations that
check them on small instances, and proofs of the most important results for
every instance, checked by TLAPS.

Line numbers in the modules refer to the files of `src/src/`.

## 1. The system

| Component | State | Operations | Talks to |
|---|---|---|---|
| **Blob store** `store.rs` | `denied`, `index`, `total` (three separate locks); `<hash>.bin`, `<hash>.tmp`, `denylist.txt`, `denylist.txt.tmp` | `open`, `has`, `get`, `put`, `purge`, `deny`, `allow`, `list`, `count` | called by ingest, gateway and p2p task |
| **Ingest loop** `main.rs` | the pass under way | read pins, skip what is denied or held, acquire, ask the swarm, put | chain reader, acquire, p2p task (`Want` over an mpsc channel and a oneshot), store |
| **Acquire** `acquire.rs` | none | candidate urls (origin, hint, gateways), fetch one after the other with a size cap, verify | HTTP origins and gateways |
| **Chain reader** `chain.rs` | none | `tip_height`, `confirmed_pins` (tip, domains, pages side by side, merge) | chain node RPC |
| **p2p task** `p2p.rs` | provider table, requests in flight, serve permits, channel of finished reads, peer status | start, Want, Dial, announcing what is held, announcements, responses and failures, serving `Get` and `Have`, connection events | libp2p, ingest, store |
| **p2p identity** `p2p.rs` | `p2p_identity.key` | load or create | the file system; `main` reads it for `self_peer_id` |
| **HTTP gateway** `gateway.rs` | connection permits | `GET`/`HEAD` content with ranges, admin deny/purge/allow, pins, health, p2p | store, peer status |
| **Discovery** `gateways.rs`, `peers.rs` | none | lists of gateways and entry peers of each pass | the indexer; called by ingest and `main` |

The components share the `Store` (an `Arc`, locks inside) and the peer status
map; ingest and p2p task share nothing but the command channel.

### What is hard here

- **Locks released between awaits.** `put` checks the denylist, then the budget,
  then writes, then indexes, each under its own lock or none; a `deny` can run in
  between any two of these. `index` and `total` are two locks.
- **Whole-file rewrites.** Every change of the denylist rewrites the file through
  one tmp file, and must roll the set back when that fails.
- **Cut-off handlers.** An HTTP client that disconnects drops the handler at the
  await it is suspended at; its file operation goes on in the blocking pool.
- **Crashes** between any two steps: `open` rebuilds index and total from the
  directory and the denylist.
- **Untrusted sources**: urls and peers answer with any bytes, late or not at all;
  gossip is anybody's.
- **Permits** that must return on every way out, bounded channels, an event loop that
  waits for the store's locks, and tasks that wait for each other's answers.
- **A p2p task that may end while it starts**, with commands of the ingest loop in its
  channel.
- **Announcements** that are sent before the peer has subscribed, or are lost.
- **A feed read page by page** while it changes.
- **Integer edges**: ranges at the end of an object, a chain shorter than the
  number of confirmations.

### What makes each part correct

- Store: index, total, files and denylist agree; a takedown is durable and holds;
  the budget is kept; no lock is kept for ever.
- Gateway: no byte of a wrong or denied file leaves; permits return; HEAD mirrors
  GET; ranges stay inside the object and are exact.
- Ingest, acquire and the Want: what reaches the disk is listed, verified, not too long,
  and was permitted when its put was checked; it is lost only by a takedown; each Want has one answer; no pass
  hangs; what the chain lists is fetched when somebody asked has it.
- Serving: a takedown stops replication; memory is bounded; every `Get` and `Have` ends.
- Announcing: connected peers learn what is held.
- Chain reader: what it returns is confirmed, and nothing confirmed is missed.
- Identity: one, on file, stable; peer status: who is connected.

## 2. The modules

| Module | Models | State and actions |
|---|---|---|
| `Store` | `store.rs` step by step, with its callers as tasks | `call[t]` is the step each task is at; one action per stretch between two awaits another task can use. `denied` and `index` locks are variables because they are held across an await; `total`'s never is. `Restart` is a crash at any point followed by `Store::open`, whose own purge may fail too (`Unpurged`). |
| `Takedowns` | the abstract registry of takedowns | what is listed and what the operator was told; `Store` implements it (`KeepsTakedowns`, mapping `listed` to the denylist *file*) |
| `Gateway` | `get_content`, `head_content`, admin handlers; EXTENDS `Store` | requests in slots, permits; interleaves with every step of `Store` |
| `ByteRange` | `parse_range`, `clamp_range`, the slice of `get_content` | one request at a time, u64 with its width and saturation |
| `Fetch` | ingest task (`main.rs`), `acquire.rs`, `gateways.rs`; start, Want, Dial, provider table and responses of the p2p task | the two tasks, the command channel with its bound and the oneshot between them, requests in flight, a world of urls that go for good and peers that come and go. A pass is told of gateways and entry peers (`StartPass`), sends the Dials, reads the pins, and takes them one by one. A `put` is three steps (`CheckPut`, `WriteFile`, `Insert`) and a `deny` three (`Deny`, `Unlink`, `Unindex`), so that they interleave as in the code; the rewrite of the denylist is part of `Deny` and `Allow`, since every reader waits for the lock that is held meanwhile. Dropped handlers, failing unlinks, an unreadable denylist and the budget's arithmetic are in `Store` only. |
| `Replica` | the abstract contract of a node about what it holds | listed, denied and held hashes; a payload is admitted when it is listed and not denied, and gained later, so that one takedown may come between and that payload still arrive. `Fetch` implements it (`KeepsContract`, mapping `listed` to `confirmed`, `held` to the files, `admitted` to a put past its check, `doomed` to the hashes whose file a purge has yet to remove) |
| `Serve` | serving `Get` and `Have` | permits, spawned reads, bounded channel, the event loop, the denylist lock it waits for, disconnects. The loop takes no other event while it answers a `Have` (`LoopFree`). |
| `Pins` | `confirmed_pins` against a chain that grows and reorganises, and a node that paginates or does not yet | the pass, one open page walk per domain |
| `Identity` | `load_or_create_identity`, `peer_id_at`, the order of `main`, which records `peers::discover` follows and to which peer id | processes that share a directory, crashes and I/O errors during a start (read, create, write); `Discover` is an operator over any set of records, each with the id it is registered under and the id its multiaddr carries, if any |
| `PeerStatus` | the connection events of the p2p task | connections of the swarm, the events not yet handled, the map |
| `Announce` | `publish_held`, on each new connection and every 20 s; EXTENDS `PeerStatus` | what is held, who has subscribed, the announcement under way to each peer, what each peer has heard |
| `StoreProofs`, `GatewayProofs`, `ByteRangeProofs`, `FetchProofs`, `ServeProofs`, `PinsProofs`, `IdentityProofs`, `AnnounceProofs` | — | the theorems, section 4 |
| `MC*` | — | the instances for TLC |

`Gateway` composes `Store` with its readers. `Store` itself composes one put with
the admin requests, `Announce` the announcements with the connection events of
`PeerStatus`. `Fetch`, `Serve` and `Announce` are separate because they meet only in the
store, and each has what it reads or changes of it: `Fetch` its files, index and denylist,
`Serve` what decides an answer, `Announce` a set of hashes.

**Variables that are not in the code.** History variables, written but never read
by an action's guard: `acked` (takedowns the operator was told succeeded and has
not withdrawn since), `claim` (denies no allow of the same hash has overtaken),
`raced` (hashes whose put and purge overlapped in this process), `late` (a request
that came after an acknowledged takedown), `offered` (GET requests during which their
hash was, at one moment, allowed and on disk), `due` and `cut` in `Pins`.

**Mutants.** Definitions marked `Mutant:` stand before the one they change: a
dropped guard, a forgotten reset, an off-by-one. They are not part of any
specification; replacing the definition by its mutant must break the property
named for it in `PROJECT.json`, which shows that the property depends on the code.

## 3. The runs

| Run | Module / cfg | Instance | Shows |
|---|---|---|---|
| `store` | `MCStore` / `MCStore.cfg` | 2 hashes (sizes 1 and 2, budget 2), 2 admin requests, I/O errors, damaged files, crashes | types; `TotalIsSum`, `DenylistDurable`, `DeniedNotHeld`, `IndexMirrorsDisk`, `GrowsWithinBudget`; implements `Takedowns` |
| `store_faults` | `MCStore` / `MCStoreFaults.cfg` | 1 hash, 2 admin requests, handlers cut off, unreadable denylist, fair scheduling | `TotalCovers`, `TakedownHolds`, `CallsReturn` |
| `takedown_race` | `MCStore` / `MCStoreStaysDown.cfg` | as `store`, no damage | **violated**: `TakedownStaysDown` |
| `takedown_cut` | `MCStore` / `MCStoreCancel.cfg` | as `store`, handlers cut off, no damage | **violated**: `AckedDurable` |
| `gateway` | `MCGateway` / `MCGateway.cfg` | 1 hash, 1 admin, 2 readers, 1 permit, damaged files, failing unlinks, crashes | `GoneIsGone`, `ServesOffered`, `PermitsReturn`, `TakedownUnserved`, `HeadMirrorsGet` |
| `byte_range` | `MCByteRange` / `MCByteRange.cfg` | objects up to 4 bytes, u64 up to 5, numerals up to 7 | `SliceInBounds`, `ServesExactly` |
| `fetch` | `MCFetch` / `MCFetch.cfg` | 2 hashes, one of them too long, origin and 1 gateway, 1 honest and 1 arbitrary peer, 1 tracked hash with 1 provider, 1 admin request at a time on the hash that is not too long, 1 place in the channel, 1 dial, all faults, fair scheduling | implements `Replica` (`KeepsContract`); `OneWant`, `TableBounded`, `PassEnds`, `Fetched` |
| `fetch_dead_provider` | `MCFetch` / `MCFetchDead.cfg` | 1 hash, 2 honest peers that come and go, no reliable url | **violated**: `Replicates` |
| `serve` | `MCServe` / `MCServe.cfg` | 3 requests, `Get` or `Have`, 1 permit and channel place, takedowns whose rewrite may fail, fair scheduling | `TakedownStopsReplication`, `PermitsReturn`, `BacklogBounded`, `GetsEnd` |
| `pins` | `MCPins` / `MCPins.cfg` | 2 domains, 2 hashes, 5 blocks, reorganisations 2 deep, 2 confirmations, page bound 3, failing requests, with and without pagination | `NothingSkipped`, `PinsConfirmed` |
| `identity` | `MCIdentity` / `MCIdentity.cfg` | 2 processes, 3 keys, 2 crashes or I/O errors, every record, fair restarts | `IdentityOnFile`, `SelfExcluded`, `IdentityStable`, `IdentityFound` |
| `peer_status` | `MCPeerStatus` / `MCPeerStatus.cfg` | 2 peers, 2 addresses each, 3 connections in all, 2 hashes of which 1 fits a message, lost announcements, fair scheduling | `ShowsConnected`, `LearnsHeld` |

Every passing run except `byte_range` also checks the type invariant of its module, and every
run that the model never deadlocks. That calls, requests and passes end is stated as liveness, since a lock kept for ever need not stop everybody.

### Bounds, and why they are enough

- *Two admin requests and one put.* Only the ingest task calls `put`, one at a
  time (`main.rs:221`). Two admin requests are what it takes to fight over the
  denylist file, or to have an allow overtake a deny.
- *Two hashes of sizes 1 and 2 under a budget of 2*: either fits, both do not; two
  hashes are needed for a rewrite to lose the other one's entry.
- *One hash* under cut-off handlers: the properties there relate a hash to itself.
- `MaxDrift` bounds `Store` under cut-off handlers, where every purge dropped
  between its two updates overcounts `total` by one more object: no more is lost
  once `total` exceeds it. The direction of the drift is what is checked.
- *More requests or readers than permits* so that somebody is turned away. In `Serve`
  there are more requests than permits plus channel places; its slots are
  interchangeable, so `GetsEnd` speaks of one of them, which stands for all.
- *One place in the command channel and one dial* make ingest wait for the p2p task in
  the middle of a pass; `MaxDials` bounds the entry peers found in a pass.
- *One hash too long* of two: every source may offer it, none may be taken.
- *One hash per message of two*: held hashes that fit and that do not.
- *One tracked hash of two, with one provider of two*, fills the provider table in both
  directions. Which of several providers comes first matters in `fetch_dead_provider`, which has two.
- *One admin request in `Fetch`*, on the hash that can be held (`Disputed`): one deny is
  what it takes to run between the steps of a put, and an allow can follow it. Two at once,
  which contend for the denylist, are in `Store`.
- *Pages of one proposal* make every block between two requests shift the pages.
  Five blocks allow feeds longer than the three pages of `MaxPages`.
- `MaxEvents` (2) is how far the p2p task may lag behind the swarm; `MaxFaults`
  (2) how often a start crashes or meets an I/O error; `MaxTip` (5) the last block.

### Fairness, and why the code justifies it

- `Store`: tokio runs every task that can run and its `RwLock` queues waiters in
  order, so a task that waits for a lock repeatedly free gets it: strong fairness
  for the steps of each task. File operations end, with or without an error.
- `Fetch`: both loops run for ever; libp2p ends every request with a response or a
  failure (its request timeout); weak fairness for both tasks and for purges under way.
  Environment: full lists come through again and again, and some time the full list of
  gateways and that of pins in one pass; a source or peer that has the payload is not busy
  for ever, puts of a hash are not refused, and its writes do not fail, for ever (strong,
  since peers come and go meanwhile), and honest peers announce every 20 s (`Announce` shows
  that announcements come through). The process stops crashing some time: a node that is
  restarted in the middle of every pass fetches nothing.
- `Serve`: tokio's locks and channels queue those that wait in order and `select!` takes
  its branches at random, so a branch that is ready again and again is taken (strong
  fairness of the loop and of the spawned tasks); a denylist rewrite ends; a substream is
  written or times out.
- `Announce`: the loop and its interval keep running (weak); identify and gossipsub tell
  of the subscriptions of a connected peer; not every announcement is dropped (strong).
- `Identity`: a supervisor starts a process that is down, and its start goes on.

No fairness is assumed of anything that does not have to happen: requests, faults,
crashes, blocks, gossip of peers that do not run this program.

## 4. What is proved

All theorems hold for every value of the constants: any sets of hashes, tasks, requests,
peers, urls, domains and processes, any bounds, any subset of the faults (where a theorem
excludes faults, the table says which).

| Theorem | States | Assumes |
|---|---|---|
| `Store` (`StoreProofs`) | | |
| `TypeCorrect` | `TypeOK` | — |
| `TotalNeverShort`, `BudgetIsKept` | `TotalCovers`, `GrowsWithinBudget`: the cached total never undercounts, and no put exceeds the budget | — |
| `TotalIsTheSum` | `TotalIsSum` | `NoCancel` |
| `DenylistIsDurable` | `DenylistDurable`, `AckedDurable`: memory and denylist file agree whenever the lock is free; every acknowledged takedown is on file | `NoListFault` |
| `StoreKeepsTakedowns` | `Store` implements `Takedowns` | `NoListFault` |
| `TakedownIsUnserved` | `TakedownUnserved` | — |
| `TakedownsHold` | `TakedownHolds` | `NoUnlink` |
| `EntriesHaveFiles` | every index entry has its file, outside its purge | `NoCancel` |
| `DeniedIsGone`, `IndexIsDisk` | `DeniedNotHeld`, `IndexMirrorsDisk` | `NoCancel`, `NoUnlink` |
| `Gateway` (`GatewayProofs`) | | |
| `GatewayKeepsStore` | the gateway's behaviours are behaviours of `Store`, so all of the above holds of it | — |
| `GatewayTypeCorrect`, `GatewayPermitsReturn` | `GwTypeOK`, `PermitsReturn` | — |
| `GatewayServesOffered` | `ServesOffered`: what a GET sends is whole, and was allowed and on disk at one moment of the request | — |
| `GatewayGoneIsGone` | `GoneIsGone` | `NoListFault` |
| `GatewayHeadMirrorsGet` | `HeadMirrorsGet` | `NoCancel` |
| `ByteRange` (`ByteRangeProofs`) | | |
| `RangeTypeCorrect`, `SliceIsInBounds`, `RangeIsExact` | `TypeOK`, `SliceInBounds`, `ServesExactly` | — |
| `Fetch` (`FetchProofs`) | | |
| `FetchTypeCorrect`, `TableStaysBounded`, `WantIsOne` | `TypeOK`, `TableBounded`, `OneWant` | — |
| `FetchImplementsReplica` | `Fetch` implements `Replica` | — |
| `Serve` (`ServeProofs`) | | |
| `ServeTypeCorrect`, `ReplicationStops`, `PermitsComeBack`, `BacklogStaysBounded` | `TypeOK`, `TakedownStopsReplication`, `PermitsReturn`, `BacklogBounded` | — |
| `Pins` (`PinsProofs`) | | |
| `PinsTypeCorrect`, `PinsAreConfirmed` | `TypeOK`, `PinsConfirmed` | — |
| `NoPinIsSkipped` | `NothingSkipped` | `PerDomain <= NodeCap` |
| `Identity` (`IdentityProofs`) | | |
| `IdentityTypeCorrect`, `RunsOnFile`, `OwnRecordNotDialed`, `IdentityStays` | `TypeOK`, `IdentityOnFile`, `SelfExcluded`, `IdentityStable` | — |
| `Announce` (`AnnounceProofs`) | | |
| `AnnounceTypeCorrect`, `ShowsTheConnected` | `AnnTypeOK`, `ShowsConnected` | — |

`NoListFault`: no cut-off admin handlers and no unreadable denylist. `NoCancel`: no
cut-off admin handlers. `NoUnlink`: files can be removed. Each is needed where it stands:

- `NoListFault`: run `takedown_cut` violates `AckedDurable` with handlers cut off; and after
  a start that could not read it, memory and denylist file differ.
- `NoCancel`: a purge dropped between its two updates leaves `total` too large
  (`TotalIsSum`); one dropped between removing the file and the entry leaves an entry
  without a file (`EntriesHaveFiles`, `IndexMirrorsDisk`, `HeadMirrorsGet`), one dropped
  before either a denied hash that is held (`DeniedNotHeld`).
- `NoUnlink`: a file that could not be removed is on disk (`TakedownHolds`, `DeniedNotHeld`),
  and not in the index (`IndexMirrorsDisk`).

Beside these, the modules assume of their constants what their `ASSUME`s say: kinds,
positive bounds, values that differ. One is more than that: `PinsAssumption` says that no
reorganisation is deeper than the confirmations, which is what the confirmations are for
(`README.md:49`). TLC evaluates it in every run of `Pins`. In particular there may be
infinitely many hashes: that what is *held* is finite at any time is part of the invariant
(`HoldsFinite`).

### The inductive invariants

- **Store, denylist.** `DenylistDurable` is not inductive: it says nothing while the lock
  is held. `ListInv` adds `RewriteInv` (the lock holder is the one task that rewrites; its
  `body` is the set in memory; the file still holds the set before the change, which is
  what a roll-back restores) and `AckInv` (a task that purges with a claim purges a hash
  on file). With it each rewrite is a step of `Takedowns`, and everything else a stutter.
- **Store, steps.** `StepInv` holds whatever fails: who is at which step holds which lock
  (`LockInv`), and a put is under way past its check of a hash that is denied, or being
  denied, allowed or purged, only if the hash is marked `raced` (`RaceInv`). The lemmas
  `IngestMoves` and `AdminMoves` say once how each action moves the call of its task.
- **Store, sums.** `TotalIsSum` speaks of moments when the index lock is free. `TotalInv` says
  what it will be when the holder is done (`Settled`: the total less what the holder is about
  to take off it, plus what it is about to add), that this is at least the sum of the index, and
  exactly the sum unless handlers are cut off. Its steps need to know what one more entry,
  or one less, does to the sum. The library's `SumFunction` is a fold defined as the CHOICE of a
  recursive function; the first section of `StoreProofs` shows by well-foundedness of the
  strict subsets of a finite set that there is such a function and that the sum can be
  taken apart at any element (`SumRemove`), not only at the one the fold picks.
- **Store, budget.** Nothing but a put makes the total grow, so `BudgetInv` says: what the put
  has read is still an upper bound, and past the check there is room for it, or an old copy of
  the same length is still indexed, which only a purge that races the put can take away.
  `LenInv`: an entry has the length of its content, or 0 where a start found a damaged file.
- **Store, takedowns.** `ClaimInv`: an allow under way has withdrawn the takedown it overtakes,
  from the operator and from the denies of the same hash, so its roll-back revives none.
  `GoneInv`: past `unindex` a purge has no entry, and an acknowledged takedown has none;
  `FileGoneInv`: and no file, when files can be removed.
- **Store, disk.** `IndexMirrorsDisk` and `DeniedNotHeld` are not inductive either. `FiledInv` and
  `ListedInv` are the two directions of the first, with the windows of put and purge.
  `PurgedInv` extends the second to hashes whose allow is under way (a roll-back denies them
  again): such a hash has a purge to come, or is not held.
- **Gateway.** Each step of `GwNext` is a step of `Store` or leaves its variables alone
  (`StoreBelow`), so the store's invariants carry over. `GwInv` adds that permits and
  requests in the handler add up to `MaxConns`; `LateWaits`, with `AckInv` beneath it, that
  a request which came after a takedown waits at the denylist, and the takedown stands.
  `OfferInv` is what makes `ServesOffered` inductive: a GET past the denylist whose hash has
  not been allowed and on disk at one moment since it came has not found its file. A file
  comes into being only by the rename of a put, and a put past its own check of a hash that
  is denied has marked it `raced` (`RaceInv` of the store; lemma `WholeFile`).
- **Ranges.** The lemmas `ClampInside` and `ClampExact` about `clamp_range` are pure
  arithmetic; the invariant carries them over to the answer.
- **Fetch.** `FInv`: a Want is in the channel, in flight or answered, never in two of these
  and never for another hash than ingest waits for (`WantPlaced`), so what reaches `put`
  is verified and was listed when it was looked at (`OnlyVerified`); the table is finite
  and within bounds. The refinement then follows step by step, one lemma for each task
  (`PutContract`, `AdminContract`, `RestartContract`): the check of a put is an `Admit`, its
  write a `Gain` or, when it fails, a `GiveUp`; a `Deny` is a `TakeDown`, an `Unlink` a
  `Lose`, an `Allow` a `Withdraw`; everything else is a stutter.
- **Serve.** `SInv`: a late request is denied, by a takedown that is not under way, and is
  before the check or carries nothing (`NothingLate`); permits and running reads add up;
  the channel is a duplicate-free sequence of the queued requests within its bound.
- **Pins.** `PInv`: what a pass has read up to `maxH` is on the chain (`ReadIsListed`),
  which a reorganisation cannot undo because `maxH` is `Confirmations` below the tip
  (`Headroom`). `SInv` of `PinsProofs` adds, for a pass that was not cut short, that everything
  the walk has passed is read or above `maxH` (`PassedIsRead`): new proposals only push
  the others deeper, and a last page reaches the end (`PageCovers`, the one place that
  needs the page size within the node's cap).
- **Identity.** `IInv`: one process at most is between creating the file and writing it, and
  until then the file decodes for nobody; a key on file is what every running process has,
  and what every process that has read a peer id has read.
- **Announce.** `PInv` of `AnnounceProofs`: for each peer, the last waiting event that decides
  what is shown (a new connection, or the close of the last) tells whether the peer is
  connected now; with none waiting, the map does.

**Only model-checked**: every liveness property (`CallsReturn`, `PassEnds`, `Fetched`,
`GetsEnd`, `IdentityFound`, `LearnsHeld`), since fairness and ENABLED are out of the
provers' reach. Every safety property of every passing run is proved.

## 5. Where the code and its documents disagree

Three runs end in a violation on purpose:

1. `takedown_race` — `store.rs:176-178` "the store will never write it … a takedown
   that stays down": a put past its check (`store.rs:131`) when the deny comes writes
   the blob after the purge. The gateway and the p2p task still refuse it (`GoneIsGone`,
   `TakedownStopsReplication`), and the next start purges it.
2. `takedown_cut` — `README.md:92` "the denylist survives restarts": a deny cut off
   before its file is written leaves the hash in memory; the retry finds it there,
   skips the write and answers 200.
3. `fetch_dead_provider` — `README.md:26-27` "the original server can go offline and
   the content survives": the first provider of the set is asked every time and none
   is ever removed.

### Known deviations

The properties below carry an exception for each of the following behaviours, which
TLC produced as counterexamples to the stronger property while the models were
written:

- A put and a purge of one hash that overlap (`raced`) leave an index entry without a
  file, or a file without an entry: the entry keeps the hash from being fetched again
  and makes HEAD answer 200 where GET answers 404 (`HeadMirrorsGet`); the file is not
  counted by the budget until a restart finds it (`GrowsWithinBudget`).
- A GET past its denylist check may be answered with the file a racing put leaves for a
  moment between the deny and its purge: content that was at no moment of the request both
  allowed and on disk (`gateway.rs:201-213`; `ServesOffered` excepts `raced`).
- A denylist that exists but cannot be read counts as empty (`store.rs:239`), and the
  next deny overwrites it (`TakedownHolds` speaks of takedowns still in memory).
- A failed `remove_file` is ignored (`store.rs:165`, and `:74` at a start): the takedown is
  acknowledged, the file stays on disk, out of the index (`TakedownUnserved`). An allow
  after a restart makes the hash fetched again, though its file is there.
- Permits bound running reads and not bodies in memory: the permit of a content read
  returns before the body is sent (`gateway.rs:206`), that of a p2p serve once the
  answer is in the channel (`p2p.rs:425`; `BacklogBounded` has twice the permits). The
  comments at `gateway.rs:27-28` and `p2p.rs:39-41` give the permits as the bound.
- A reorganisation between two pages can make the offset jump over a confirmed
  proposal, contrary to `chain.rs:92-94`; the next pass finds it (`NothingSkipped`,
  `cut`). A page size above the cap of the node makes the first full page look like the
  last (`chain.rs:109`), so the instance has the two equal.
- In `Fetch` the same overlap, a put past its check and a deny and its purge, lets a denied
  payload reach the disk (`Replica` admits it before the `TakeDown` and gains it after), and
  after an allow an index entry without a file keeps the hash from being fetched until a
  restart (`Fetched` excepts `Stranded`).
- A crash between creating and writing the identity file, or a write that fails
  (`p2p.rs:88`, a full disk), leaves one that no start replaces, and the p2p task fails with
  it each time (`IdentityFound` excepts `Spoiled`).
- On its first start `main` reads the peer id before there is one (`main.rs:117`), so a node
  that has registered itself since dials itself until it is started again, which
  `p2p.rs:351-352` calls a cheap no-op (`SelfExcluded`). Later too it dials itself when a
  record under another id has a multiaddr that ends in its own (`peers.rs:38-39`; `Target`),
  and its bootstrap addresses are not filtered at all (`main.rs:133-134`), so `SelfExcluded`
  speaks only of records under its own id.
- An announcement of more hashes than fit a gossip message (about a thousand) is dropped
  without a word (`p2p.rs:242`); from then on the node announces nothing (`LearnsHeld`,
  `MaxLines`).
- A `Have` reads the index twice, and a purge in between makes the answer "has, length 0"
  (`p2p.rs:408`; the body `empty` in `Serve`).
- On a node that does not paginate a full page may hide the rest, as the code warns
  (`chain.rs:112`; `NothingSkipped`, `cut`).
- When the newest of two connections of a peer closes, its address stays on show.

## 6. What is not modelled

- Read-only listings (`/pins`, `/health`, `/p2p`, `list`, `count`): they read state other
  modules have. Response headers and wording.
- Which hosts are public: `host_is_public` and its address classes are a pure function over
  texts; `Fetch` takes its outcome as the set `Public`. The redirect policy of the HTTP client.
- The texts of gateway templates and of multiaddrs; of the latter, `Identity` has whether
  they carry a peer id. `Fetch` over-approximates what an url answers: one that is not
  `Reliable` may have the payload or not at each request (`MayHave`).
- The bootstrap addresses of the environment.
- Damage to a stored file other than its truncation to nothing: `Corrupt` in `Store` leaves a
  file of length 0, where `open` would index a shorter one under the length it has.
- The codec, decoding of RPC answers, configuration parsing.
- Messages between several nodes in one model: `Fetch`, `Serve` and `Announce` each have one
  node against peers that behave as these modules say; what an honest peer promises in one
  of them is what the others show of a node. A product of two nodes with all three is out
  of reach for TLC at bounds that would show more.

## 7. Plan

Done: all modules of section 2 with their runs, and the proofs of section 4.

What could be added: the address classes of `host_is_public` as a pure function over
address prefixes.
