# chia-query: specifications, checks and proofs

chia-query answers questions about the Chia chain from two tiers of sources: a
pool of full nodes reached over the wallet protocol, and the coinset.org HTTP
service. None of them is trusted. What makes it hard is not any one function
but what happens between them: calls of concurrent callers maintain the pool
they read through, a connection dies while its seat is being given to another,
a peer's answer is compared with others that see a different block, and an
answer one tier gives half of has to be settled with the other.

This directory specifies that logic in TLA+, model-checks it with TLC and
proves most of its safety properties with TLAPS: of the peer pool, the frame
fan-out, the client's calls, the population queries, the provider registry, the
light client, its cache and its provider. Sources are cited relative to the
repository; `PROJECT.json` maps every definition to the lines it models.

## The system

| part | source | state | operations | what makes it correct |
|---|---|---|---|---|
| peer pool | `src/peer/pool.rs` | seats (`entries`), `dead_sessions`, `next_session`, a round-robin index | `maintain` (eject the dead, evict the lagging, rotate the oldest, refill), `select_peer`, `eject_peer`, one receiver task per session; construction in rounds of dials | the operator's own nodes do not keep strangers out; no address seated twice, capacity, a seat lost only for a cause of its own, a dead seat given up |
| dialler | `src/peer/connect.rs`, `ordering.rs` | none | operator's nodes first, then introducers | a dial ends with an address not held, or fails |
| frame fan-out | `src/peer/frames.rs` | a map session -> senders behind a mutex, a bounded queue per subscription | `open_session`, `subscribe`, `publish`, `recv`, drop | a stream has no gap; only its own session ends it; its end is learned |
| corroboration | `src/peer/plurality.rs`, `mod.rs`, `set_agreement.rs` | one read's answers | who is an independent voice; one round for a scalar; common height, fingerprint and contradiction for a population | a falsehood is not corroborated by fewer machines than the round asks for; nodes in good order never contradict each other |
| router | `src/router.rs` | one query: what was answered so far | peers first, one retry, then coinset; settlement of an uncorroborated answer | a wrong answer takes two sources; a reply is a fact at its height |
| bundle push | `src/router.rs`, `src/mempool_refusal.rs` | one push: where it was sent | a second peer after a refusal of one node's view, coinset after a failure | no third destination; one node's view is not a veto; no peer loses its seat for refusing |
| light client | `src/peer/light_client/` | coin-state cache, anchor, re-arm flag | subscribe, drive loop, reconnect, reads over the cache | no coin above the peak; a lost subscription is signalled |
| light client's provider | `src/peer/light_client/provider.rs` | none of its own | reads from the cache or by a fetch, heights clamped to the peak | a reply was so during the read; a depth cannot be counted below zero |
| provider registry | `src/provider_registry/` | ordered registrations with trust and independence group | custody, quorum and discovery reads | trust never degrades; one endpoint is one voice; a source that answers is heard |
| coinset client | `src/coinset/` | none | one HTTP exchange, decoded | no failure reads as an absence; nothing beyond the cap is taken in |
| facade | `src/lib.rs` | one router | construction, `wait_for_confirmation`, forwarding | every call returns |
| wasm, drift report, types, block parsing | `src/wasm_api.rs` and others | none | forward, compare, decode, run CLVM | |

A query goes router -> peer backend -> pool: every peer read begins with `pick`,
which makes a maintenance pass; the read is graded by one round of
corroborators drawn from the pool; failed reads eject their peer; and the
router retries, or has the coinset tier settle what the peers left open. The
receiver task of each seated session records its death for the next pass and
publishes its frames to the fan-out, where a light client follows one session.
Nothing maintains the pool in the background: all its progress is made by
callers.

## Modules

| module | models | checked by |
|---|---|---|
| `PoolContract` | what the pool promises its users: the seats, and the steps they may take | refined by `PeerPool` |
| `PeerPool` | `pool.rs`: passes, dials, requests, receiver tasks, dropped calls | `pool_race`, `pool_life`, `pool_eject` |
| `PeerPoolProofs` | theorems about `PeerPool` | `tlapm` |
| `SessionStream` | what one frame subscription promises its consumer | refined by `FrameFanout` |
| `FrameFanout` | `frames.rs`, in its critical sections | `fanout` |
| `FrameFanoutProofs` | theorems about `FrameFanout` | `tlapm` |
| `PoolConstruction` | `fill_toward_capacity` and the selection of a dial round | `client` |
| `Corroboration` | `plurality.rs` and the pool's credibility queries | below |
| `GradedRead` | `read_opt_corroborated`: presence and absence of one record | `client` |
| `ScalarRouter` | `peer_then_coinset_opt` over `GradedRead` | `client`, `scalar_alone` |
| `Confirmation` | `wait_for_confirmation` over `ScalarRouter` | `client` |
| `SetAgreement` | the pure functions of `set_agreement.rs` | below |
| `SetRead` | `read_set_corroborated` over a chain with a fork; the puzzle-hash walk and the read by coin id | `sets` |
| `SetRouter` | `peer_then_coinset_set`, `settle_set_answer`, `coinset_only_set` over `SetRead` | `sets`, `sets_window`, `sets_walk` |
| `SetProofs` | theorems about `SetRouter` and the read it makes | `tlapm` |
| `PushTx` | `push_tx` and the peer tier's attempts | `client` |
| `ClientReads` | the reads of the router that are not corroborated, and the children of several parents | `client` |
| `Client` | one call of `ChiaQuery`: construction, a wait, a push or a read | `client` |
| `ClientProofs` | theorems about the calls: corroboration, the scalar router, the push, the reads, the seats of a new client | `tlapm` |
| `CoinsetClient` | one HTTP exchange: caps, envelope, fields | `client`, `registry` |
| `ProviderSources` | what each fabric answers a registry read, converted | `registry` |
| `ProviderRegistry` | registration and the registry's two views | `registry` |
| `ProviderRegistryProofs` | theorems about `ProviderRegistry`, down to the decoding of a response | `tlapm` |
| `CoinStateCache` | `light_client/cache.rs`: the coins, the subscriptions, the peak | `light_provider` |
| `CoinStateCacheProofs` | theorems about `CoinStateCache` | `tlapm` |
| `LightClientProvider` | `provider.rs` and the fetches of `fetcher.rs`, over `CoinStateCache` | `light_provider` |
| `LightClientProviderProofs` | theorems about `LightClientProvider`, from those about its cache | `tlapm` |
| `LightClient` | `light_client/mod.rs` and `fetcher.rs`: the anchor, the drive loop, the calls, over `CoinStateCache` | `light_client` |
| `LightClientProofs` | theorems about `LightClient`, from those about its cache | `tlapm` |

`ScalarRouter` extends `GradedRead` extends `Corroboration`, and `SetRouter`
extends `SetRead` extends `SetAgreement` and `Corroboration`: a router adds its
attempts to the variables of the read it calls. `Confirmation` extends
`ScalarRouter`, and `Client` composes it with instances of `PushTx`,
`ClientReads` and `PoolConstruction`, one of which a behaviour is about.
`LightClient` and `LightClientProvider` both extend `CoinStateCache`, the one
for the session that feeds it and the other for the reads that use it.
`ProviderRegistry` extends `ProviderSources` extends `CoinsetClient`. `MC*`
modules give the constants that a `.cfg` cannot write.

### How state and actions correspond to the code

*Pool.* A caller's `pc` is the await it stands at; between two awaits the code
holds a lock and the model takes one step. `taken` is the list
`eject_dead_sessions` has `mem::take`n, `snapshot` the held addresses
`try_refill` read before it dialled, `dialled` the connection that
`admit_and_follow` is about to seat, `asked` the peer a request went to. A
session is the number `FrameFanout` allocates for it. `Cancel` drops a call's
future at any stage. `following` are the running receiver tasks; a session may
end whenever its task runs, and its death is then recorded if the pool is there.

*Construction.* A round of `fill_toward_capacity` is one action, because the
code collects all its dials before it judges any and nothing else touches the
new pool. Its input is the sequence of candidates in the order of their
handshakes: up to `2 * wanted` of them, each at any address a dial may end at,
so copies of one peer occur as they do in the code. Ranking, deduplication,
spreading and truncation are in the code's order, but by places and not by
moving candidates about: `MoreCredible` is the sort, `Distinct` keeps the best of
each address, `SpreadAcrossSubnets` compares the passes two of these are dealt a
slot in, and `MostCredible` keeps those with fewer than `slots` before them.

*Fan-out.* The mutex makes every operation one action, except `open_session`,
which takes it twice. Frames are numbered per session, so that a gap can be
seen. `SessionStream` says what a consumer may rely on.

*Scalar reads.* An answer is a record's chain claim or an absence. Hosts are
machines, addresses are sockets: two sockets of one machine are one voice. The
pool is not composed in: `PoolContract` lets it go from any set of seats to any
other in a few steps, and a read waits at every step, so each step of a read
sees an arbitrary pool of at most `MaxPeers` seats. What a faulty host answers
is arbitrary; a host that is not faulty answers with the record as it is, or
fails.

*Population reads.* The chain is given by `Main` and `Orphan`: for every coin
its created and spent height on each branch, equal up to `ForkAt`. A node has a
tip in `Tips` on either branch; while it serves a walk, blocks may land
(`Drift`). A faulty host answers with any of a few fabricated sets at any
height. `node_at` in `SetRouter` records the tips the coinset node passed
through, for its peak and its records come from two requests.

*Push.* An attempt is a transmission and its outcome; a refusal is
either of the bundle or of one node's view (`mempool_refusal.rs`); a failure
may follow a reception.

*Light client.* An optional height is a set of at most one height and the cache
is a set of coin states; what a full cache admits of one message depends on the
message's order, so the model leaves it open. An update and the untracking of
what it reports spent are one action, being made under one lock. A caller at
`pinning` holds the anchor's lock: it has picked a connection and not yet
subscribed to its frames, and the pool may move in between, so an `Anchor` has
the session followed and the connection asked. `turn` is what the drive loop
has received and not yet acted on: it looks at the anchor, lets its lock go,
and then takes the cache's. A failed request ejects first and unpins in a
second step. `Cancel` drops a call at any of its awaits.

*Waits and reads of the client.* Each poll of `wait_for_confirmation` is a whole
query of `ScalarRouter`; between two of them the chain may change, and `now`
counts from the first. A read of `ClientReads` asks for the heights in `wanted`
one by one and begins again when an attempt fails; `Reorg` replaces the blocks
from any height on between any two steps; `was` are the blocks that have been
on the chain. A round of `get_coin_records_by_parent_ids_graded` is abstracted
to what `SetIsTheChainAtItsHeight` says of `SetRouter`: the children that were
there at the height it names, or an error.

*The light client's provider.* Reliable nodes push a frame per change of their
chain, in order; `ApplyFrame` consumes them. `Subscribe` and `Unsubscribe` are
the moment the node answers, `Store` the moment the cache's lock is taken: the
window between them is the code's. `settled` are the coins whose subscription
was stored without a frame on its way. A read is a `stage` per lock or request;
`walk` is `collect_paged`'s cursor and counters, and a reorganisation below the
cursor refuses the next page, as a node does.

*Registry.* A registration's `fabric` is what the source can reach; its voices
are who may answer behind it, and a router has two. A read asks the sources in
`left` in the code's order (`Before`: by priority, or as registered for a
quorum), the chain moving on in between, and `backing` remembers whose
answers the reply rests on. An answer is the outcome of a decoding: for
coinset.org, of any of the responses in `ProviderSources`, the cut-off,
oversized, failed and malformed among them.

## Runs

Bounds are named in the modules' CONSTANTS and set in the `.cfg` files.

| run | bounds | shows |
|---|---|---|
| `pool_race` | 2 callers, one of whom drops calls, 3 addresses (1 the operator's), 2 seats, 3 sessions, every discovered seat over age at once, fair | `OneSeatPerAddress`, `WithinCapacity`, `ImplementsContract`, `OnlyADropOrphans`, `SeatIsGivenUp` |
| `pool_life` | 2 callers, 4 addresses (1 the operator's), 3 seats, 3 sessions, peaks 1 and 3, 1 tick | `TypeOK`, `OnlyCausedEvictions` |
| `pool_eject` (violated) | 2 callers, 1 seat | a late failure ejects a replacement |
| `fanout` | 2 sessions of 2 frames, 2 subscriptions of capacity 0 or 2, fair | `StreamsHaveNoGap`, `OnlyItsOwnPeerEndsIt`, `EndIsLearned` |
| `client` | scalar queries: 5 addresses on 4 machines, 3 of them faulty, 4 seats, up to 3 polls; push: 2 seats, 1 faulty address; reads: 3 heights, 2 branches, 2 parents; construction: 3 seats, 2 own nodes, 3 introduced peers in 2 subnets; fair | of queries `FalsehoodNeedsMoreHosts`, `OneReliableVoiceBlocksIt`, `ArrivalsDoNotRescue`, `WrongNeedsTwoSources`; of pushes `PushIsAccountable`, `NoVetoByOneNode`; of reads `ReadsAnswerTheirQuestion`, `CoinsetIsTheLastResort`; of construction `StrangersGetSeats`, `EverySeatBuysAVoice`; of all `OnlyFailureCostsASeat`, `EveryCallReturns` |
| `scalar_alone` (violated) | the same machines | coinset answers alone although peers answered |
| `sets` | 3 machines, 1 faulty, chain of 6 blocks with a fork after 3, 4 coins, 3 windows | `AgreedClaimsAreTheChain`, `NotDraggedDown`, `WindowIsSettled`, `NodesInOrderNeverDisagree`, `SetIsTheChainAtItsHeight` |
| `sets_window` (violated) | a window above the settled height | an unsettled window is answered as an empty fact |
| `sets_walk` (violated) | unspent-only window | a set holds a coin twice |
| `light_provider` | 2 coins of one puzzle hash, 3 heights, 7 lives an unreliable node may claim, room for 1 coin per hash, 1 frame on its way, 2 chains during a read, 2 pages | `CacheTypeOK`, `NoCoinAbovePeak`, `PeakFallsOnlyByReorg`, `GrowthIsBounded`; `ReadsFollowTheChain`, `HeightsStayCountable` |
| `light_client` | 1 address, 2 sessions, 1 caller, 1 coin and its puzzle hash, messages without coins, fair | `PinnedOrSignalled`, `OnlyOwnLossUnpins`, `PinMeansFollowing` |
| `registry` | every pair of 5 kinds of sources and 3 triples, every set of lying voices, 3 stages of the chain, lists of at most 2 records | `HonestAnswersAreTrue`, `FalseCustodyNeedsTwoVoices`, `CustodyNeverDegrades`, `SteadySourceIsHeard` |

Why the bounds are enough: every hazard of the pool involves two callers, or a
caller and a receiver task, at one address or the last seat -- two callers, one
seat fewer than addresses and one session more than seats let each happen, and
a third session lets a stale note meet a replacement. A median needs three
voices to have a majority, and the operator's node is a fourth that must not
count; lag, age and death compete for the same seats in `pool_life`, and one
tick takes a seat past a `PeerLifetime` of 1. In `pool_race` `PeerLifetime` is 0
and the clock stands: each pass rotates a discovered seat, so seats come free as
often as they can and every orphaned one is due, while the operator's node, which
is never rotated, shows what becomes of a death alone. The caller that drops
nothing is the one whose calls empty the seats; the one that drops calls orphans
them. `OnlyDropsOrphan` proves the safety part for any number of either.
The light client needs a session to lose and one to pin instead, and an address
that both sit at. A stream needs two frames to have a gap and a second
session to be disturbed by. A round of `CorroborationFloor` = 2 corroborators
needs three machines; a fourth lets arrivals change the pool's readiness within
a read. The chain needs a block below the fork, the fork, and blocks above the
settled height; the coins cover created and spent on either side of each.
Construction needs two own nodes, which use up two rounds, two neighbours and a
third subnet. A reorganisation between the two steps of a block read needs one
height below the fork and one above; a wait needs a second poll. A custody
quorum needs two groups, and a third source to take a group twice. Of the light
client's cache and its reads two chains are a read begun on one and ended on
another.

### Fairness

*Pool* (`FairSpec`): a call that has begun goes on or is dropped, and callers
that see their calls through keep calling; the liveness property is conditional
on that, for the pool moves only under its callers. Nothing is assumed of the
callers in `Impatient` but that a future is polled or dropped: they may drop
every call. The clock need not tick, no session need end, and dials may fail for
ever. *Light client*: the
drive loop is a task of its own and tokio's locks are fair; a subscription that
is over holds at most `FRAME_BUFFER` frames, so a loop that goes on reading
receives its end; a call goes on, its requests being timed. *Fan-out*: a
consumer that holds its subscription keeps calling `recv`. *Client*: the
step of the call under way is fair and nothing else is -- a request ends, by
its answer or by the timeout `with_timeout` or the HTTP client puts around it, a
dial by its own, and no call waits for the pool or the chain to move. The other
runs check safety only.

## Divergences the runs show

* `pool_eject`: `eject_peer` (pool.rs:694) removes whatever sits at the
  address, while pool.rs:276-278 promises that a replacement survives.
* `scalar_alone`: a disagreement among peers falls through to the retry and to
  the coinset tier's word alone (router.rs:273), which router.rs:262 and
  SPEC.md 5p exclude.
* `sets_window`: the downgrade of an unsettled window is undone when the
  coinset records are projected at the same height (router.rs:172).
* `sets_walk`: the agreed fingerprint and the returned items are computed from
  a walk that holds a coin twice in two ways (mod.rs:640).

Observed while modelling, without a run of their own:

* a call dropped between `admit` and the spawn of the receiver task leaves a
  seat no task watches (pool.rs:525), and one dropped between the taking of the
  death list and the entries lock takes the deaths along (pool.rs:992).
  `OnlyADropOrphans` says that these are the only two ways to lose a death, and
  `SeatIsGivenUp` that a discovered seat orphaned so is given up with age; an
  orphaned seat of the operator's own node stays until a request to it fails;
* the opening Reset of `open_session` can reach a subscriber that joined
  between its two critical sections (frames.rs:320), which then sees two;
  `SessionStream` allows the stutter;
* an absence takes two corroborators (mod.rs:485) where mod.rs:305-307 speaks
  of one second opinion;
* the height of a read by coin id is looked up after its answer
  (mod.rs:828): more than `SETTLED_LAG` blocks in between would break
  `AgreedClaimsAreTheChain`; `Drift` bounds them below it;
* the retry may be put to the peer that has just failed (router.rs:285);
* a coinset tier behind its peers can contradict them or second what it cannot
  know yet (router.rs:172);
* a push whose retry begins with an empty pool is not retried after a refusal
  of one node's view (router.rs:1198);
* `reconnect` clears the re-arm flag after its last answer (light_client/mod.rs:248). The
  anchor may have been lost again in the meantime, or between the coins and the
  puzzle hashes, which are then armed on different sessions: the flag says
  "armed" over a stale cache, the direction fetcher.rs:130-132 wants never to
  err in. `PinnedOrSignalled` sets these states aside (`cleared_late`), until a
  session is pinned again, and so shows that no loss is hidden in any other way,
  before or after however many reconnects; the late clearing itself it does not
  catch;
* `anchor()` picks a connection and then subscribes to whatever session sits at
  its address (fetcher.rs:201), which fetcher.rs:190-192 promises to be the
  same one;
* the drive loop checks that a frame is the anchor's and applies it after the
  anchor's lock is gone (light_client/mod.rs:397): a frame of a session that has
  just been unpinned may still be applied;
* coins that are no longer subscribed stay in the cache, use up its room, and
  can make an update count as a rollback (cache.rs:168);
* the drive loop gives the anchor up when its subscription ends if the anchor is
  of the same session (light_client/mod.rs:415): when another call has lost that
  anchor and pinned the same session again in between, the new subscription is
  unpinned by the end of the old one. `OnlyOwnLossUnpins` allows it;
* a one-shot read that fails at the anchor's address unpins the anchor, whatever
  session it was put to (fetcher.rs:265);
* of the light client's provider: a coin whose update was dropped between the
  subscribing answer and its storing is served as it was answered, and a frame
  pushed before the answer but applied after it overwrites the answer
  (light_client/mod.rs:157); a coin subscribed again that the node no longer
  knows keeps the state it had; a removal has a window of the same kind;
  while no peak is known heights are served as reported (provider.rs:239);
  `ReadsFollowTheChain` and `HeightsStayCountable` say so;
* a coin un-spent by a reorganisation between two pages may be missing from a
  paged list (fetcher.rs:364);
* a block asked for by hash is resolved to a height and taken from a peer by
  that height without a look at its hash (router.rs:476, mod.rs:1071);
* records of the coinset tier carry a timestamp and those of the peer tier none
  (translate.rs:47), so honest groups of different tiers never agree on a coin
  record in a quorum (registry.rs:321-333);
* `get_block_records` computes `end - start` (mod.rs:1192) before any check of
  their order; `ClientReads` asks only for ranges that are in order;
* the cap on discovered candidates is applied before local and held ones are
  taken out (connect.rs:170-174): a dial may fail although an address was left,
  which `PoolConstruction` covers, any dial being free to fail.

## Proofs

`PeerPoolProofs` proves, for every set of addresses, every number of callers,
every capacity and every bound:

* `TypeCorrect`: `Spec => []TypeOK`;
* `Invariance`: `Spec => []IInv`, the inductive invariant;
* `SeatsAreDistinct`, `CapacityHolds`: `OneSeatPerAddress` and `WithinCapacity`;
* `OnlyDropsOrphan`: `OnlyADropOrphans`, whoever drops calls; for callers who
  drop none (`Impatient = {}`) no seat is ever orphaned;
* `PoolImplementsContract`: every step is one `PoolContract` allows;
* `EvictionsHaveCauses`: `OnlyCausedEvictions`.

The properties are not inductive as they stand. `WithinCapacity` speaks of a
cardinality, which means something of finite sets only, so `IInv` has
`IsFiniteSet(entries)`; admission then adds one element to a set smaller than
`MaxPeers`. `OnlyADropOrphans` says that a seat that is followed, or whose death
is on the list or in the charge of a call, stays one of these in every step but
the dropping of that call: a pass that overwrote what it holds would lose
deaths, so `IInv` has `TakenOnlyToEject` -- a caller holds deaths only while it
is at `eject_dead` -- from which `BeginCall`, which sets `taken`, overwrites
nothing. The dropping itself needs no assumption: what `Cancel(c)` takes away is
what `c` had (`OrphanStep`). `OnlyCausedEvictions` needs that a session followed is not at the same
time dead (`SessionsAreApart`), and arithmetic on the reference peak: among any
non-empty finite set of voices there is one that is a lower median
(`BarIsTheMedian`), and those more than the allowance below it are outvoted by
the rest (`LaggingAreOutvoted`). The step of each action is proved by itself,
from the constants' assumptions `AddressesAssumption` and `BoundsAssumption`
alone.

`FrameFanoutProofs` proves, for every number of sessions, subscriptions and
frames and every capacity:

* `FanoutInvariance`: `Spec => []IInv`;
* `StreamsAreGapless`: `StreamsHaveNoGap`, that every subscription implements
  `SessionStream`;
* `SendersAreLostToTheirOwn`: `OnlyItsOwnPeerEndsIt`.

What a consumer will receive is in its queue first, so `IInv` is about the
queue: it continues what was received last without a gap, and while the
subscription has its sender it ends with the last frame its session published.
A sender is lost with the first frame that finds no room, which leaves a prefix.
It rests on `FanoutAssumption`.

`CoinStateCacheProofs` proves, for every finite set of coins and of puzzle
hashes, every set of heights, every capacity, and a peer that reports anything
(`AnyPeerSpec`, which drops `CacheSpec`'s bound on the lives a message may claim
and keeps only that a message names a coin once; by `MovesAreReports` every step
of `CacheSpec` is one of it):

* `CacheInvariance`: `AnyPeerSpec => []IInv`;
* `CacheTypeCorrect`: `CacheTypeOK`, the cache is a map;
* `ConfirmationsNeverWrap`: `NoCoinAbovePeak`;
* `PeakFallsOnlyWithAReorg`: `PeakFallsOnlyByReorg`;
* `GrowthStopsAtCapacity`: `GrowthIsBounded`.

`NoCoinAbovePeak` is inductive together with `CacheTypeOK`, which says that there
is one peak. Every action is a change of the peak followed by an insertion, so
the argument is that of the code's comments: `PeakBoundary` (what `update_peak`
keeps is at most as high as the peak) and `AddBoundary` (what `cache_coin` adds
is too), with `RollbackKeepsHeights` for what an update takes back first. It
rests on `CacheAssumption` alone.

`PeakFallsOnlyByReorg` is a property of one step, and only `ApplyUpdate` can
lower the peak: it does so when a coin above the fork was taken back. What an
update puts in the cache afterwards is what was there or what it reports
(`OnlyKeptOrSent`), and a state above the fork that it does not report again is
in neither (`TakenBackIsGone`). `GrowthIsBounded` counts the coins: a cache that
is a map over finitely many coins is finite, an insertion that finds room stays
within the capacity, and one that overwrites a coin does not grow the cache.

`LightClientProofs` proves, for every number of callers, sessions and
subscriptions:

* `ClientImplementsCache`: `Spec => CacheSpec`. Drive loop, subscriptions,
  removals, reconnects and dropped calls move the cache only as
  `CoinStateCache` allows, so its theorems hold of the client;
* `LossesAreSignalled`: `PinnedOrSignalled`;
* `LossesAreOwn`: `OnlyOwnLossUnpins`.

`PinnedOrSignalled` says that a client that has subscribed is pinned or says
that it has to be re-armed, or that a reconnect cleared the signal too late. That is not inductive: a call that was given an
anchor may store its answer after the anchor is lost, and so be the first to
subscribe when the loss is past. `LossIsSignalled` counts such calls in --
`Subscribing`, from the moment they use or pin an anchor -- and is inductive:
whoever unpins raises the flag, and a call joins `Subscribing` only while
somebody is pinned. `OnlyOwnLossUnpins` needs
`PinsAreSound`: there is at most one anchor, and whoever is pinning holds its
lock. Both rest on `ClientAssumption` and `CacheAssumption`. The `light_client`
run has one caller for the sake of its liveness property; what two callers can
do to each other is in the proofs.

`LightClientProviderProofs` proves, for any node, reliable or not, and any
number of coins, frames, pages and chains:

* `ProviderInvariance`: `Spec => []PInv`;
* `ProviderFeedsTheCache`: `Spec => AnyPeerSpec`. A chain that reorganises, its
  updates on their way and a node that makes its messages up are all peers that
  report of a coin at most one state, so the theorems about the cache hold here;
* `ServedDepthsAreCountable`: `HeightsStayCountable`;
* `ReadsTellTheChain`: `ReadsFollowTheChain`.

A read takes the peak in one step and clamps what it found in another, so `PInv`
says for each stage what the read holds by then: the peak it has seen is no
higher than the cache's as long as no reorganisation lowered that
(`SeenStaysBelow`), and from the stage `clamp` on what it found is clamped to
the peak it has seen.

`ReadsFollowTheChain` compares what is served with the chains there have been
since the read began, while the cache is some frames and perhaps a call behind.
`FollowInv` bridges this by a `Trail`: a chain before each frame on its way and
one after the last, the node's own, where each frame means for each coin that
was subscribed to while all was quiet either its new life or that its old one
is cut at the fork (`Follows`), and the cache has these coins as the trail begins.
A move of the chain lengthens the trail (`MovesLeaveATrail`), a frame that is
applied shortens it, since what an update erases, un-spends and overwrites is
that very cut (`FramesAreFollowed`, `FramesFollowTheTrail`), and a stored call
that was not overtaken is the trail's whole length (`StoresKeepTheTrail`); that
every height is storable when it comes takes `TipsInOrder`. While a read is held
to the chain, the whole trail is among its chains. What it holds at each stage is
then of one of them (`StagesInOrder`), and a paged list leaves out nothing steady
behind its cursor (`PagesLeaveOutNone`). The attempt found an error in the model: a
node told of a coin only when its life had changed, not of one that a new branch
spends at the height the old one had; it is told of every coin that is touched or
rolled back. These theorems rest on `CacheAssumption` and `ProviderAssumption`, of
which they need that a chain to begin with is of height 1 and spends no coin
before there is one.

`ClientProofs` proves, for every set of addresses and machines, whichever are
faulty, every size of the pool and of the corroboration floor, every chain of
blocks and every number of parents:

* `FalsehoodTakesTheFloor`, `ReliableVoiceBlocks`, `RoundsAreArmedBeforehand`:
  `FalsehoodNeedsMoreHosts`, `OneReliableVoiceBlocksIt`, `ArrivalsDoNotRescue`;
* `FactsTakeTwoSources`: `WrongNeedsTwoSources`;
* `PushesAreAccountable`, `NoNodeVetoes`: `PushIsAccountable`,
  `NoVetoByOneNode`;
* `FailuresAloneCostSeats`: `OnlyFailureCostsASeat`;
* `CoinsetIsAskedLast`, `ReadsAnswerWhatIsAsked`: `CoinsetIsTheLastResort`,
  `ReadsAnswerTheirQuestion`;
* `StrangersAreSeated`, `SeatsBuyVoices`: `StrangersGetSeats`,
  `EverySeatBuysAVoice`;
* `NobodyKeptIsRefused`: a new client's seats are of different addresses and
  within its capacity, so `admit`, which `Round` leaves out, would refuse nobody
  whom a round keeps.

Who agrees with a read says nothing about how many machines that is, unless the
panel had one voice for each: `RoundIsFair` says so of those waited for and those
heard, together, and `VoicesAreMachines` then counts machines by addresses.
`FalsehoodIsFaulty` keeps that who stands behind a falsehood is faulty, and
`GradeIsEarned` that a grade of `corroborated` has the floor behind it and a pool
that was armed. For the router, `ReplyIsBacked` names the three ways an answer
becomes a fact: corroborated, seconded by the coinset tier, or that tier's own
after both reads have erred; and the invariant of a poll is that of the query in
it, a new poll starting afresh (`FreshReadIsFair`). A push keeps `PushInv`: the
leg it is on says how many destinations there can have been (`TwoTransmissions`)
and what the verdict so far is. Of the reads, `LookupInv` ties the leg to the
attempts made; `BlocksInv` says that what has been gathered is of the first
heights wanted, block by block on the chain at some time; and `ParentsInv` that
the parents read so far are complete at `as_of_height`, which the rounds only
lower.

The code sorts a round of dials, drops copies, deals the rest out by subnet and
truncates; `PoolConstruction` says the same by places: a candidate is kept if
fewer than `slots` come before it. The order is strict and total
(`CandidatesAreRanked`): within a subnet the passes follow the handshakes, and
candidates of one pass are of different subnets, whose first members differ. In
such an order every place is taken once, so those at the first `k` places are
`k`, or all there are (`FirstPlaces`). As each address reached has one candidate
of its own (`EachAddressHasItsBest`), that counts the seats. For the subnets
there are two cases (`SeatsAreOfDifferentSubnets`): if somebody is seated in a
second pass, the first member of each subnet came before him and is seated too;
if nobody is, no two of the seated are neighbours. Over the rounds, `FillInv`
keeps that, if none came home empty-handed, there are as many seats as rounds,
or everybody to be had is held. So the pool opens with `FILL_ROUNDS` seats or
more, or full, or with nobody left to dial, and since at most two are the
operator's, each of the three leaves what `StrangersGetSeats` promises
(`StrangersAreAmongThem`).

They rest on `VoicesAssumption` and `ClientAssumption`: the dialler prefers two
addresses at most, and what it is given to dial is a finite list.

`SetProofs` proves, for every finite set of coins, any two branches that agree up
to their fork, all tips, peaks, windows and pools, and any finite fabrications:

* `QueryInvariance`: `RouterSpec => []RInv`;
* `AgreementIsTheChain`: `AgreedClaimsAreTheChain`;
* `OrderlyNodesAgree`: `NodesInOrderNeverDisagree`;
* `NobodyDragsTheHeightDown`, `CorroboratedWindowsHaveSettled`:
  `NotDraggedDown`, `WindowIsSettled`;
* `AnswersAreTheChain`: `SetIsTheChainAtItsHeight`.

The code compares fingerprints, in which the last record of a coin stands for
it. So `TellsLast` says of an answer that its last record of each coin is the
view's, and a fingerprint is the claims so told (`FingerprintIsTheClaims`). A
walk whose node takes in blocks between two pages may hold a coin twice, but
each of its records is of the chain at some height not below the one it began
at (`WalksAreFaithful`), so that held down to a height below that they say the
same (`FaithfulAnswersTell`); and on either branch they say what the chain
does, because a common height is `SettledLag` below every answer in it and the
branches share everything up to the fork (`TheBranchesShareTheirRoot`). `SInv`
then says that a verdict rests on the answers of the round held to one common
height, where one reliable source decides for all that agree with it;
`RouterOK` says the same of what the router adds, whose coinset records are
projected to the peak it read first (`TheCoinsetTierTellsTheTruth`).
`SetIsTheChainAtItsHeight` is stated with `ToldOnce`: an answer omits nothing,
and is the chain exactly where no made-up answer names a coin twice
(`sets_walk` shows what a coin told twice comes to). The last record of a coin
is found by the well-ordering of the naturals, taken from the library for one
set at a time. It rests on `SetReadAssumption` and `LagAssumption`; `Drift <=
SettledLag`, that a read is not outrun by more blocks than the code allows for,
is the one that the code takes for granted and does not enforce.

`ProviderRegistryProofs` proves, for every list of registrations, every threshold
from 2 on, every cap and bound:

* `ReadInvariance`: `Spec => []IInv`;
* `HonestReadsAreTrue`: `HonestAnswersAreTrue`;
* `QuorumsHaveTwoVoices`: `FalseCustodyNeedsTwoVoices`;
* `CustodyIsTrusted`, `SteadySourcesAreHeard`: `CustodyNeverDegrades`,
  `SteadySourceIsHeard`.

That an honest answer is true is shown down to the response: every envelope that
carries a value is read as that value, every broken one is an error
(`EnvelopesAreReadAsTheirValue`, `BadRepliesAreErrors`), and a conversion
turns a stage of the chain into records of that stage (`ListsConvert`,
`HonestValuesAreTrue`). Two chunks past the largest integer are not taken in
(`NoTotalWraps`) because the sum saturates above the cap. A quorum has two
voices because two groups do not share one (`OneGroupForAVoice`), which in turn
needs registrations made by `Register`: the group is derived from what a source
can reach and never typed in. `IInv` keeps that a
custody read has none but trusted sources `left`, that a discovery read still
has every source `left` that would answer it, that of a quorum's contributions
each is of a group and a voice of its own and was so at some time of the read,
or is a liar's, and what the reply rests on. It rests on `ClientAssumption` of
`CoinsetClient` (the cap is below the largest integer), `SourcesAssumption`
(a list of two records is within the bound) and `RegistryAssumption`.

Only model-checked:

* liveness (`SeatIsGivenUp`, `EndIsLearned`, `EveryCallReturns`,
  `PinMeansFollowing`): it needs fairness and ENABLED, which are out of the
  prover's reach;
* the four violated properties, of course, and what the runs show of them.

## Not modelled

* `get_blockchain_state`, fee estimates and network queries: single requests
  whose fields are passed on; `get_puzzle_and_solution_with_conditions` and
  block parsing run CLVM, an external virtual machine;
* TLS identities, HTTP itself, JSON text, type translation field by field: pure
  input and output. The model begins where a response is received or not, and a
  field parses or does not;
* the IPv6-first order and the batches of a dial, which say how soon an address
  is tried and not which one answers;
* the drift tool and the wasm surface: no state.

See `PROJECT.json` for each.

## Plan

1. Done: pool and its construction, fan-out, scalar and population reads with
their routers, push, uncorroborated reads, waits, the light client with its
provider, the coinset client, the provider registry. Proved: every invariant
and every action property that the passing runs check.
2. Next to model: the light client's session and its provider as one system.
