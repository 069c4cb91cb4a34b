# A verification development of Log Cache

TLA+ specifications of [Log Cache](../src/README.md), an in-memory cache of
logs and metrics for Cloud Foundry: TLC checks them on small instances, and the
TLA+ proof system proves theorems about them for all values of their constants.
Every definition is translated from the source; `PROJECT.json` names the lines.

## The system

Envelopes (logs and metrics with a source id and a timestamp) reach a node of
the cluster from a nozzle or a syslog server. The node's ingress proxy looks
the source id up in its routing table and sends the envelope to the nodes that
hold it, one of which may be itself. Each node keeps its envelopes in a store
that is bounded per source and by memory. Reads take the same way through the
egress proxy. A scheduler cuts the space of hashes into ranges, spreads them
over the nodes and tells every node who has what.

| Component | State | Operations | What is hard | What makes it correct | Modelled in |
|---|---|---|---|---|---|
| Store (`internal/cache/store`) | index of sources, a tree, lock and metadata for each, counters, oldest timestamp | `Put`, `Get`, `Meta`, truncation every 500 ms | Puts, reads and truncation interleave under several locks and atomics | counters and metadata agree with the trees, oldest first, no storage lost, `Get` returns what was asked for | `Store`, `BoundedCache`, `StorageTree`, `AvlTree` |
| Scheduler (`internal/scheduler`) | the last listing of each node | two terms and `setRemoteTables` every minute | time-outs, late calls, two schedulers, nodes that restart | every hash is routed to as many nodes as replication asks for | `Scheduling`, `HashRanges` |
| Orchestrator agent, routing table (`internal/routing`) | ranges; table of ranges | `AddRange`, `RemoveRange`, `ListRanges`, `SetRanges`, `Lookup` | state is lost in a crash; calls are repeated | ranges are not held twice, tables converge | `Scheduling`, `HashRanges` |
| Ingress reverse proxy, batched client | a diode and a batch for each peer | `Send`, flush on size or time | diodes that are overrun or Set by two handlers, failed calls, changing tables | an envelope is stored once on each node of its route, or lost where the code accepts it | `IngressProxy`, `Diode` |
| Nozzle (`internal/nozzle`) | a diode, a batch, a channel of batches | read, batch, write | each drops when full, timers | what goes in comes out, is there or is dropped | `Nozzle`, `Diode` |
| Syslog server (`internal/syslog`) | connections, counters | parse, convert, send | deadlines, messages that do not convert | the same | `SyslogServer` |
| Egress reverse proxy, local store reader | two caches of metadata | `Read`, `Meta` | concurrent and partial gatherings in caches of caches, tables that differ | one hop, answers that are not too old | `EgressProxy` |
| UAA and CAPI clients, CF auth proxy (`internal/auth`) | token keys, source ids per token | verify, refresh, authorize, prune | concurrent refreshes, expiry, changing permissions | no stale permission is used, nobody is shut out for good | `TokenKeys`, `SourceIdCache`, `AuthProxy` |
| Go client (`pkg/client`) | position of `Walk` and `Window`; OAuth2 token | `Walk`, `Window`, requests | groups of equal timestamps, late envelopes, a token shared by requests | a walk visits every envelope once | `Walk`, `Client` |
| PromQL engine (`internal/promql`), gateway, marshaler | none between queries | instant and range queries, replacing source ids | partial reads, names made of others, boundaries of time | a query is answered with what is there, of the sources allowed | `PromQL`, `Marshaler`, `Query` |
| Node assembly, access log, blackbox, commands, generated code | counters, connections | wiring, formatting | little | conversions | not modelled |

`PROJECT.json` lists under "hazards" what is hard to test in this code, at the
line where it bites, and the properties that are there for it.

## Modules

- `Store` — one action for each step of `Put`, `truncate` and `Meta` between
  two accesses of shared state. `storageIndex` is the sync.Map; `tree`, `meta`
  and `lock` belong to a storage, identified by a member of `Storages`;
  `count`, `oldestTimestamp`, `ingress` and `expired` are the atomics and
  counters; `put[p]`, `reader[r]` and the variables of `truncVars` are the
  locals of the goroutines. `getOrInitializeStorage` is one step
  (`PutExisting`, `PutNew`): it runs under its mutex. `insertOrSwap` is
  `InsertOrSwap` up to its last write under the tree's lock, then `LoadOldest`
  and `StoreOldest` for the unsynchronised minimum. `BuildExpirationHeap` visits
  one source at a time (`VisitSource`; `SkipSource` is a source that comes or goes
  during `Range`), and each turn of the loop of `truncate` is `PruneOne`.
  `panicked` records a panic, after which nothing happens.
- `BoundedCache` — the abstract specification: for each source a bounded set
  of envelopes that loses its oldest first.
- `MCStore` — `Store` with a history variable for `OldestFirst`.
- `AvlTree`, `StorageTree` — the tree of one storage with its rotations, and
  `Get` over it: where a walk stops depends on the tree's shape, which `Store`
  does not have. A tree is the set of its nodes with their heights: since it is a
  search tree, the highest node is on top, and smaller keys are to its left. `Put`,
  `RemoveLeft`, `Asc` and `Desc` are recursive functions over trees.
- `HashRanges` — the ranges the scheduler makes tasks of and the test by which
  the routing table finds a hash in one.
- `Scheduling` — schedulers (`List`, `Plan`, `Act`, `EndTerm`, `Publish`,
  `EndRound` are the body of the loop in `Start`), the handlers of the nodes
  (`AddRange`, `RemoveRange`, `SetRanges`), and what happens to them: `Crash`,
  `Restart`, calls that fail, time out and are handled late (`HandleLate`), and
  `Elect`. `ranges[n]` and `table[n]` are bags of ranges, since a node can hold
  one twice. `EXTENDS HashRanges`.
- `MCScheduling` — `Scheduling` with a history variable for `PublishedComplete`.
- `Diode` — the ring buffer of go-diodes: `Set` as a load of the write index and a
  store at it, `TryNext` with the skip of a reader that was overrun.
- `Nozzle` — `streamBuffer`, the batch `envelopes`, the channel `ch`, what each
  `writer` sends, and the three counters. `ReadEnvelope`, `BatchEnvelopes(fired)`
  (one iteration of `envelopeBatcher`, whose timer has fired or not), `TakeBatch`
  and `SendReturns`.
- `SyslogServer` — one connection: `ParseMessage` with the outcomes of parser and
  conversion, `MessageSent`, `Disconnect`.
- `IngressProxy` — for each call a handler that looks up one envelope after
  another (`LookUp`), puts the part of its own node (`PutLocally`) and Sets those
  of peers one by one (`SendToPeer`, `LoadIndex`, `StoreBucket`), in any order, as
  they are in a map. `peer[<<n, m>>]` is the client n has for m: diode, batch and
  the batch that is being sent (`BatchForPeer`, `CallPeer`, `PeerReturns`,
  `PeerFails`). `CallPeer` sets local_only, which sends the batch to the store of
  the peer without another lookup.
- `Ingress` — composes the three (`EXTENDS Nozzle, SyslogServer, IngressProxy`)
  as a deployment does, with calls that fail or time out after they arrived, and
  a table that changes. `MCIngress` is its instance.
- `Walk` — `EXTENDS StorageTree`: `Read` is the read at the node, `Visit`,
  `ReceivesNothing`, `ReadFails`, `ReadRejected` and `Cancelled` are the ways the
  loop of `client.Walk` goes on when the answer comes, `NextWindow` is the loop of
  `Window` around it. Meanwhile envelopes `Arrive` and `Expire`. `history` has what
  the properties refer to. `MCWalk` is its instance.
- `EgressProxy` — `RouteRead` and `ForwardRead`; `CheckCache`, `AskNode`,
  `StoreLocal` and `StoreRemote` are `remoteMeta` and `localMeta`, which load a
  cache, fetch and store without a lock across the three. A cache is aged by
  ticks from the moment it is stored.
- `Egress` — `EgressProxy` with its callers, sources that come and go, tables
  that change, failing peers, cancelled calls and the clock. `MCEgress` adds
  the symmetry of nodes and of calls.
- `TokenKeys` — `uaaKeys` is UAA's state, `publicKeys` the sync.Map, `refresh[p]`
  the locals of a `RefreshTokenKeys`, one action for each access to shared state.
- `SourceIdCache` — `tokenCache` with the lookups of `IsAuthorized` and
  `AvailableSourceIDs` (`ListsApps`, `ListsServiceInstances`, `StoreSourceIds`) and
  the pruner (`BeginPrune`, `VisitExpired`, `DeleteExpired`).
- `AuthProxy` — the handlers of the middleware over these two (`EXTENDS TokenKeys,
  SourceIdCache`): read, query and meta, with rotations of keys, changes of
  permissions and failed calls. `MCAuthProxy` is its instance.
- `Client` — the OAuth2 HTTP client: one `token`, the mutex `mu`, and where each
  request's `Do` is.
- `PromQL` — what the engine computes: source ids of a query and their replacement,
  names and labels, series and their ids, samples. Functions only.
- `Marshaler` — results to JSON and back, functions only.
- `Query` — composes `Client`, `PromQL` and `Marshaler`: a query from the client's
  `Do` (`Issue`, `Authenticate`) through the proxy or the gateway (`Proxy`,
  `Gateway`), the reads of `Select` (`ReadSource`), the engine (`Respond`) and back
  (`Return`, `GiveUp`). `MCQuery` is its instance.
- `StoreProofs` (of `MCStore`), `WalkProofs` (of `StorageTree` and `Walk`),
  `SchedulingProofs` (of `MCScheduling`), `EgressProofs`, `AuthProofs` (of
  `AuthProxy`), `QueryProofs`, `IngressProofs` and `IngressOnceProofs` (of `Ingress`)
  — theorems.

Operators whose comment begins with "Mutant" are plausible bugs: put in the
place of the definition they follow, they make TLC find a property violated.

## What is external or abstracted

- github.com/emirpasic/gods' AVL tree is modelled in `AvlTree` from its use.
- What to move in a term is decided by go-orchestrator, which is not part of
  the repository. `Goals` allows every assignment that `scheduler_test.go`
  expects: each range on `replicationFactor` nodes, spread evenly, nothing moved
  without a reason. `NextTerm` removes before it adds. That exactly one scheduler
  is told it is the leader is up to the election service.
- The leadership check and the call it guards are one step of `Act`; a call on
  its way while leadership changes is one that timed out and is handled late.
- Time passes in ticks in `AuthProxy`, `Egress` and `Walk`. What a goroutine does
  between two network calls takes no time, a call takes as many ticks as its
  time-out or a named bound (`UAATimeout`, `CAPITimeout`, `MaxLatency`) allows.
- UAA, CAPI, the OAuth2 server and HTTP are what their clients see of them: an
  answer that was true at some moment of the call, or an error. JWT verification
  is a comparison of keys.
- gRPC delivers a call once or not at all. A caller whose deadline passes does not
  know which, and the handler goes on.
- The Prometheus library parses and evaluates. `Query` has of it what decides
  which points of a series are taken (`Seek`, `AtInstant`, `InRange`) and a union
  of selectors; its operators and functions are left out.
- A string of which the code looks at characters or separators is a sequence in
  `PromQL`; all others are model values or members of small sets.
- Envelopes are told apart by timestamp (and type in `StorageTree`). The gauge
  of the cache period is left out. `QuantitiesToPrune` are the shares of the
  store that memory pressure may ask for, rounded down as the consultant does.
- `LastSlot`, what the raw `Pop` of the heap's slice may return, is any entry
  that can be last in a heap of that size; with four entries or more this allows
  some a particular history of pushes would not.
- `Get` only reads, so that `Store` does not have it; it holds the tree's read
  lock for the whole of its walk, which makes it one step of `StorageTree`.
- The marshalling of the slice `ListRanges` returns after its lock is released
  is below the step size of `Scheduling`.

## Runs

| Run | Question | Bounds |
|---|---|---|
| `store_safety` | Do counters, metadata, heap and trees agree under two concurrent Puts and truncations? Is the oldest evicted first? Is the store a bounded cache? | two sources, two timestamps, capacity 3, fudge 1, five Puts |
| `store_progress` | Do calls and truncations that began end? | two Puts, one reader, a Meta call at any time |
| `store_panics` | Can a goroutine of the store panic? Yes: see below | the smallest that shows it |
| `tree_get` | What does `Get` promise over every tree? | six insertions, five kept, fudge 3, three timestamps, every window, filter and limit |
| `tree_split` | Does an ascending `Get` keep groups together? No | four insertions |
| `scheduling` | Can hand-overs of leadership, crashes and late calls over-assign a range? | two nodes, two schedulers, one range; two of a crash, a time-out and an election |
| `scheduling_progress` | Are the tables a quiet round sets complete, and does routing converge after a crash and a late call? | two nodes, three ranges over eight hashes, one crash, one time-out |
| `auth` | Is anybody authorized from a stale listing, or shut out for good? | one key id, two keys, one user, one app with a name; two requests and one refresh in the background; one fault; entries live two ticks, calls take up to one |
| `ingress` | Does every envelope get once to every store of its route? | two nodes whose tables differ, two streamed envelopes and one syslog message, two writers, two handlers, diodes of one and two, batches of two, a channel of one; one fault |
| `walk` | Does `Walk` pass over an envelope, show one twice, or go on for ever? | three timestamps, capacity 3, four Puts, delay 2, reads of up to one tick, clock to 5, one failing read, six ways to call it |
| `egress` | How old and how complete is `Meta`, and how far does a `Read` travel? | two nodes, one source, two calls at a time, caches of one tick, calls of up to one, two changes, one fault |
| `query` | Is a PromQL query answered right? | two requests, one of them any of 56, four stores, three tokens, one fault; a second has two units of time |

The bounds suffice for the cases that matter: in `store_safety` a source fills
up and swaps, keys run out and overwrite, both sources are emptied and come
back under new storages, and a truncation meets every point of a Put. Trees of
up to five nodes have every rotation and every position of a group relative
to its ancestors and descendants. In `scheduling_progress` eight hashes do not
divide evenly into three ranges, so that the last range differs. A late request
may be an addition, a removal or a table. A single range in `scheduling` is
enough because moves of different ranges only meet in the share of a node, which
`scheduling_progress` has.

A source in `egress` stands for any: caches treat each by itself, and two changes
let it arrive and expire, or two tables differ in both directions. Caches of one
tick and calls of one make every order of fetch, store and expiry of two calls
possible. In `ingress` two streamed envelopes share a batch and a syslog message
competes with them, so that the diode of one, at the stream, and the diode of two,
at a peer, are both overrun. A channel of one is full when the timer flushes twice;
in the code it has as many places as a batch, and nothing compares the two. The
two nodes route the second source to each other, so that a second lookup at a peer
would show. In
`auth` two requests and a background refresh race for one key, and one fault of
any kind at any moment is what each property has to withstand; further keys and
users do not meet in any state. In `walk` three envelopes fill the tree and the
fourth swaps one out; one timestamp may come several times. The stores of
`query` have two instances of a source, two spellings of a metric, two envelopes
in one second, one at the end of the window and one of a type that has no value.

What the properties say:

- `CountCoversStored`, `IngressAccounted`: the numbers that decide how much to
  prune, and the metrics, agree with the trees although they change under
  different locks. The count may exceed what is stored, see below.
- `HeapEntriesLive`: what makes it safe that `removeOldestEnvelope` deletes the
  index entry of a source without asking which storage it has.
- `MetaDescribesTree`: the metadata users see agrees with the envelopes.
- `OldestFirst`: a removal never takes an envelope newer than one elsewhere,
  among the storages no Put has changed since truncate looked at them.
- `ImplementsCache`: refinement of `BoundedCache`, by the contents a reader finds.
- `GetSound`, `GetComplete`, `DescKeepsGroups`, `AscSplitsBehindFirst`: what `Get`
  returns. The last three suppose that fudged keys did not overtake later
  timestamps; otherwise the walk's shortcuts do skip envelopes.
- `NeverOverAssigned`: `AddRange` appends without a look, so only the order of
  the scheduler's calls and the leadership check keep a range from being held
  too often.
- `PublishedComplete`: why the loop runs two terms before it sets the tables.
- `Converges`: after the last fault every running node routes each hash to
  exactly as many running nodes as there should be, and all tables are equal.
- `StoredOncePerNode`, `StoredWhereRouted`: whatever fails, and whatever is handled
  after its caller gave up, no envelope is put twice on a node, or on a node its
  source was never routed to. The first holds since nothing in the code retries a
  batch, and because a batch sent to a peer is not routed again.
- `Accounting`: the nozzle's metrics account for what is still in it.
- `DeliveredUnlessMishap`: an envelope is lost only where the code accepts it. The
  list of mishaps is the point of the property: a diode that is overrun, a full
  channel, a failed call, two handlers in one `Set`, a changed table.
- `MetaFresh`: `Meta` is at most twice the sum of latency and cache duration behind,
  because the answer of a peer may come from a cache and is cached again, and a
  cache's age counts from the end of a gathering. It is complete as of
  that time unless a peer failed or a caller left: such an answer is cached, too.
- `OneHop`: a peer looks up the route of a `Read` again, so only tables that agree
  keep it from being passed on.
- `AuthorizesFromRecentListing`: permissions are used for no longer than a listing
  takes and its entry lives. `SteadyKeysStay`: no race of refreshes removes a key
  that UAA has never ceased to list. `EventuallyServed`: who may see a source and
  keeps asking for it is served, though refreshes are throttled, retries are
  limited and failed listings are cached. `ExpiredEntriesLeave`: the cache does not
  keep what it no longer uses.
- `NothingPassedOver`, `EachVisitedOnce`, `WalkReturns`: what `Walk`'s delay, its
  position and its backoffs are for. The first two suppose that fudged keys did
  not overtake timestamps; the first leaves out envelopes later than the delay
  covers, which is by `MaxLatency` less than configured, as `Walk` reads the clock
  when the answer is back; what `AscKeepsGroups` says is split off; and walks to an
  end that have seen nothing once, which no longer wait.
- `AnswersRight`: from the sources allowed (`OnlyAllowedRead`) to the JSON the client
  decodes. It supposes sources, ids and selectors of which the instance has examples
  (`StoresOrderly`, `SeriesToldApart`, `SelectorsApart`).
  `FetchesBounded`: concurrent requests do not each fetch a token.

What does not hold (the runs that expect a violation):

- `NeverPanics` against "All functions are thread safe" (store.go:34): there are
  three races that end the process. A truncation meets a storage that is indexed
  and still empty, and takes the key of a nil node (store.go:194), which is
  the counterexample TLC gives. `Meta` loads a source that truncate has just
  deleted and converts nil (store.go:497). And an envelope put into a storage that
  truncate has dropped from the index stays counted, so that a later truncation
  asks for more than the heap has (store.go:223), against "Just make sure we
  don't try to prune more entries than we have" (store.go:215).
- `AscKeepsGroups` against store_test.go:112: an ascending `Get` may end behind
  the first envelope of a group. `Walk` goes on at the next timestamp, so the
  others of the group are not visited.

Also noticed while translating, and modelled as the code has it:

- "grab the next oldest timestamp" (store.go:245) takes the last slot of the heap's
  slice, which is not its minimum (`LastSlot`). Only the cache period metric uses it.
- oauth2_http_client.go:14 says that a new token is fetched on a 401; the code
  throws the token away on every status that is not 2xx (`Answered` of `Client`).
- `Select` takes every matcher but those of source_id for an equality, and looks for
  instance_id among the tags only (`HasLabels`).
- Two series whose tags have dashes may share an id (`SeriesID`).
- A walk that fails five times ends without an error, so that a query is answered
  from part of what there is (`partial` in `Query`).
- `CompareAndSwap` in `RefreshTokenKeys` does not throttle callers that loaded the
  same time (`SwapQueryTime`); nothing breaks but the rate of requests.

## Fairness

`store_progress`: each goroutine's steps, once a call has begun, under strong
fairness, because a lock may be taken and released for ever by others; Go's
scheduler is preemptive and its mutexes hand over to a starving waiter. Calls
need not begin. `scheduling_progress`: weak fairness of each scheduler's loop,
whose calls all have a deadline of five seconds. A crashed node need not restart
and a late request need not be handled.

`ingress`: weak fairness of the nozzle's batcher and writers, the batchers of
peers, the handlers and the syslog connection that has parsed a message. Both
branches of a batcher, timer fired and not, are fair: the loop runs without end and
sleeps a millisecond at most. The stream and the client need not send anything.
`walk`: weak fairness of the loop and of the clock. `auth`: weak fairness of handlers,
listings, refreshes, pruner and clock, since every HTTP client has a time-out; that
requests go on is a premise of `EventuallyServed`, not assumed.

Every run but `walk` checks for deadlock. A walk that has returned is done, and its
clock and the envelopes that arrive are bounded, so that `walk` stops.

## Theorems

Proved by the TLA+ proof system, for every value of the constants that the
named assumptions of each module allow (`StoreAssumption`, `StorageTreeAssumption`,
`WalkAssumption`, `HashRangesAssumption`, `SchedulingAssumption`; `NozzleAssumption`,
`SyslogAssumption`, `IngressProxyAssumption` and `IngressAssumption`;
`EgressProxyAssumption` and `EgressAssumption`; `TokenKeysAssumption`,
`SourceIdCacheAssumption` and `AuthProxyAssumption`; `ClientAssumption` and
`QueryAssumption`). They ask for well-formed queries and lists of strings, for
finite sets where the code has collections, and for sizes and durations that are
positive or natural numbers. Each theorem is one of safety, and is proved from an
invariant that every step keeps:

- `StoreProofs`. `TypeOK` is not inductive by itself: that a Put has a storage
  exactly while it runs, that a lock is held exactly between insertion and
  return, that no two sources share a storage and that heap entries are live all
  depend on one another. Their conjunction `Inv` is (`Structure`), and gives
  `TypeCorrect`, `LocksCorrect` and `HeapCorrect`. `CountCorrect` needs that
  envelopes a reader can find are finite and counted one by one (`CountInv`),
  `MetricsCorrect` and `MetaCorrect` are inductive relative to `Inv`.
  `SourcesBounded`: no storage ever has more than `maxPerSource` envelopes.
  `OldestGoesFirst`: a storage that truncate has visited, that has envelopes and that
  no Put has changed since, is on the heap under the key of its oldest envelope
  (`HeapCovers`), so that the least entry of the heap stands for an envelope no
  newer than any of these. A storage made while truncate runs is empty until a Put
  changes it, and the storages truncate itself takes from go back on the heap.
  `Refinement`: `Spec => Cache!Spec`. The insertion is the
  linearization point of a Put; a Put into a storage that has lost its source
  is a stutter, as is everything else but a removal. It needs in addition that
  every timestamp in a Put is one of `Timestamps`.
- `WalkProofs`. `TreeCorrect`: what `Put` and `Remove` make of a tree that is
  balanced, ordered by its keys and right about its heights is such a tree again,
  by induction over its strict subtrees (`TreeInduction`), with what an insertion
  or a removal does to the height (`AddsNode`). `StorageInv` adds that no key is less
  than its timestamp. From it `TreeRefinement`, and what `Get` returns over any such
  tree: a traversal from a node goes on from what it has got so far
  (`GoesOnFrom`), and when keys and timestamps agree, what it leaves out is not
  wanted or behind the envelope at which the limit stopped it (`Completes`,
  `TreeCollects`). That that envelope has its own timestamp for a key, and so has
  what is to its far side, is what `isNodeAFudgeSequenceMember` is for; `GetIs` says
  it all in one place, for any query. `GetReturnsWanted`, `GetReturnsFirst`,
  `DescendingKeepsGroups` and `AscendingSplitsBehindFirst` are its corollaries.
  `WalkTypeCorrect` for `Walk`. `EachOnce`: the walk stands right behind the last
  envelope it has shown, and what it has read is in order (`OrderInv`).
  `NonePassedOver`: while a read is under way each envelope in the store is in it, is
  before or behind all it has, is split off by the limit, or is too late or too new
  (`AllCovered`); what was shown is older than the delay (`Settled`), so that an
  envelope that comes in time comes behind it; and a walk with an end that has
  once seen nothing is over (`NotEmptied`). TLC finds these three to hold as well.
- `SchedulingProofs`. `HashInOneRange`: the ranges are a partition of the hashes,
  for every size of the hash space and count that does not make `start` wrap
  around (about 2^32 for uint64). `TypeCorrect` for `Scheduling`. Two theorems
  say what a term's plan is good for. Both relate, for every range and node, what
  the node holds to what the listing and the moves made since come to
  (`Expected`: the removals not yet made, and one if the goal has the range there and
  no addition is due). That removals come first is what makes this a number an
  addition never takes beyond one. `NoneOverAssigned`: nodes hold at most that
  (`OverInv`), as crashes only take away and other schedulers only pretend, so an
  addition gives a range no more holders than the goal has, which is at most
  `replicationFactor`. `PublishesComplete`: in a round nothing came between, nodes
  hold exactly that (`RoundInv`); the first term ends with its goal reached, the
  second lists it.
- `IngressProofs`. `TypeCorrect` needs what a handler in each state has left to do
  (`CallOK`) and that the nozzle's channel has no empty batch. `StoresWhatIsRouted`:
  not only what is stored at a node but all that is in the parts, diodes, batches and
  calls on its way there was once routed to it (`RoutedInv`).
- `IngressOnceProofs`. `StoredOnce`: for each envelope and node the envelope is in at
  most one place (`OnceInv`): not yet sent, in a batch that is looked up, in a part,
  in the client for the node, stored. `OnePlace` says so as "any two places where it
  is are the same", and `PlaceChanges` is the one argument for every step. A diode
  needs more: two handlers in one `Set` may each store an envelope, and a
  reader may be overrun, without any being in two slots. `NozzleAccounts`: with no
  mishap the nozzle's ring holds all between its two indexes (`RingFull`), so that
  the counters differ by the lengths of four sequences that share nothing
  (`CountInv`).
- `EgressProofs`. `TypeCorrect`; `ReadsHopOnce`: a forwarded `Read` is at a node that
  has the source, as long as tables agree (`HopsOK`). `MetaStaysFresh`: what a cache or
  a gathering under way names was there, and what it misses was not, at some moment
  no longer ago than its age and what its calls took (`FreshInv`).
- `AuthProofs`. `TypeCorrect`; `AuthorizedRecently`: entries and listings under way
  come from a moment their age bounds (`AuthInv`). `KeysStay`: no
  refresh has in hand a listing, or a key to delete, that contradicts what UAA has
  listed all the time (`KeysSteady`).
- `QueryProofs`. `QueriesTypeCorrect`: until it is answered a query has a series for
  each of its selectors before the one it reads, and a selector that has nothing left
  to read has failed (`JobTyped`). `FetchesStayBounded` and `OneFetchAtATime`: whoever fetches holds the
  mutex and there is no token, and each token that was fetched but one was thrown
  away by an answer (`FetchInv`). `FailuresAreTold`, a conjunct of `AnswersRight`: from
  the read that failed to what the client decodes an error stays one (`ToldInv`).
  `OnlyAllowedIsRead`, another: the query that is run is the one asked, with the
  proxy's lists in the place of its sources (`ReadsInv`), so that the sources of each
  selector are the lists' for those it asks for (`SelectorIDs`). For this the lists are
  put one behind the other, which is induction over data: `FlattenRange` proves it of
  the recursion by `SetInduction`, which rests on the strict subsets of finite sets
  being well-founded. `MarshaledIsDecoded`: results come to the client as they were.
  `AnswersAreRight`: all of `AnswersRight`. Until a query is answered the selectors
  before the one it reads have the series of exactly the envelopes due to them, and
  of that one it has what the store holds of the sources that are not left to read,
  the envelopes of each source in order (`Gathered` in `JobRight`); the rewritten query
  means what was asked (`Meant`); and of such series the engine's samples and ranges
  are right (`SamplesAreRight`, `SeriesAreRight`), as a binary search by `Seek` finds
  the last point until a moment among points that ascend. It supposes, in the words of
  `Query`, what the code does not see to: that a source's envelopes are in the order of
  their times, as they are unless a fudged key overtook one (`StoresOrderly`); that no
  dashes in labels make one id of two series (`SeriesToldApart`); and that the
  selectors of a query ask for different sources, for which the proxy has lists with
  nothing in common, and one with a range is alone (`SelectorsApart`). `MCQuery` assumes
  the three of its instance, where TLC evaluates them.

Only model-checked:

- all liveness, as the prover has no ENABLED: `TruncationEnds`, `PutReturns`,
  `MetaReturns`, `Converges`, `DeliveredUnlessMishap`, `WalkReturns`,
  `EventuallyServed` and `ExpiredEntriesLeave`.

## Not modelled

Though it could be: the slice `ListRanges` shares with a marshaling
under way and the routing of unknown addresses to index 0 (nodes know the same
addresses here); the version lookup a client makes before `Read` and `Meta`, and
its gRPC forms; the parsing of times and steps; operators and functions of
PromQL; numeric edges: `Timestamp + maxTimestampFudge` near the largest int64
(store.go:127), a count of 0 or beyond 2^32 ranges (scheduler.go:122).

Left out for good: formatting (access log, syslog messages), HTTP plumbing and TLS
(gateway, proxies' listeners), configuration and start-up (commands, the assembly of
a node), the blackbox client, which is sequential, generated code, and the
libraries below them.
