# A verification project for Naveen_System_Design

TLA+ models of the stateful parts of this repository, the TLC configurations
that check them on small instances, and TLAPS proofs of the properties that
matter most for every instance. `PROJECT.json` lists the runs, the source lines
each definition stands for, the hazards, and for each property a plausible slip
in the code that would violate it. Paths below are relative to `src/`.

    tlc -config LeaderElection.cfg LeaderElection.tla     # one run
    tlapm LeaderElectionProofs.tla                        # one proof

1. [The system](#1-the-system)
2. [Modules](#2-modules)
3. [Runs](#3-runs)
4. [Bounds](#4-bounds)
5. [Fairness](#5-fairness)
6. [Where the code departs from what it says](#6-where-the-code-departs-from-what-it-says)
7. [Proofs](#7-proofs)
8. [Abstractions, and what is not modelled](#8-abstractions-and-what-is-not-modelled)
9. [Plan](#9-plan)

## 1. The system

The repository is a collection of TypeScript services and building blocks
(`shared/`). All of it runs on Node.js: one thread per process, so code between
two `await`s is atomic and everything hard sits at the awaits, in the callbacks
of timers and sockets, and between processes that share Redis or PostgreSQL.

| Component | State | Operations | Interacts with | What is hard | What makes it correct |
|---|---|---|---|---|---|
| Consensus, `08-consensus/src/raft-lite-demo.ts` | per node: `state`, `currentTerm`, `log`, `votedFor`, `peers` | `connect`, `startElection`, `requestVote`, `executeCommand`, `appendEntries`, `sendHeartbeats` | nodes call each other synchronously | stale leaders, elections in any order, no log comparison, rewiring | one winner per term; a stale leader commits nothing; logs ordered by term and written by winners; a majority keeps what was committed; identical logs in the full mesh |
| Leader election, `shared/leader-election/redis.ts` | the Redis key; `isLeader`, `timer` per elector | `start`, `campaign` (SET NX, GET, SET), `stop` | electors race on one Redis key | awaits between commands, expiry between them, overlapping campaigns, crash | a leader holds the lock; the lock changes hands only by expiry; a crashed leader is replaced |
| Circuit breaker and retries, `shared/circuitBreaker.ts`, `retry.ts`, `resilienceProvider.ts` | `state`, `failureCount`, `lastFailureTime`; the attempt of each call | `execute`, `updateState`, `onSuccess`, `onFailure`, the retry loop | many calls share one breaker | verdicts of calls admitted long ago | the count and the state agree; load is shed; the breaker recovers |
| Outbox worker, `04-chat_app/src/worker.ts` | outbox rows, row locks, transactions; the batch of each run | `processOutbox`: BEGIN, SELECT … SKIP LOCKED, publish, UPDATE, COMMIT or ROLLBACK | PostgreSQL, Redis, other workers | overlapping runs on one connection, crash after publish, lock waits and deadlocks | at-least-once delivery, no leftover lock, every row published in the end |
| Chat gateway, `04-chat_app/src/index.ts`, `broadcast.ts` | `presenceMap`, `clientRegistry`, `clients`, per-client buffers | connect, join, message from Redis, flush, close, shutdown | WebSocket clients, Redis pub/sub | close events after a reconnect, overflow and flush together | nothing lost without a gap event, the newest kept; open connections are routed to and served |
| LRU cache, `shared/cache/lru.ts` | `Map`, doubly linked list, expiry | `get`, `set`, `moveToHead`, `removeNode` | used by the cache server | pointer surgery, expiry, capacity boundary | list and Map agree, least recently used goes first |
| Cache cluster, `shared/consistentHash.ts`, `03-distributed_cache/src/clusterManager.ts`, `health.ts`, `replication.ts` | ring, node set, failure counts | `addNode`, `removeNode`, `getNodeForKey`, `checkNodes`, `getReplicaSet` | health checks remove nodes from the cluster that others use | overlapping checks over stale snapshots, pings that never end, binary search with wrap-around | keys at the clockwise successor, a membership change moves no other keys, replicas survive, dead nodes leave |
| Cache server, `03-distributed_cache/src/server.ts` | the LRU cache | text protocol | LRU cache | none beyond the cache | answers are the cache's |
| Rate limiter service, `02-rate-limiter/src/**` | a bucket per client in Redis, a bucket per client in each server | `GET /limit/check`, `POST /limit/incr`, the Lua script, the fallback to memory | servers share the bucket; each reads its own clock | lost replies and repeated commands, clocks that differ or step back, expiry, tiers with different capacities | no interval grants more than a bucket and its refill; a refused client's reset time holds |
| Window limiters, `shared/rate-limit/*.ts`, `02-rate-limiter/src/limiters/slidingWindow.ts`, `rateLimit` of `01_url_shortener/src/middleware.ts` | tokens; time stamps; a counter with an expiry | `consume`, `checkLimit`, `allow`, INCR and EXPIRE | callers | the edges of a window, requests refused in between, Redis commands that fail | no interval admits more than the limiter's bound |
| Shared outbox demo and queue simulation, `shared/outbox/*`, `shared/queue-sim/basic.ts` | outbox array, queue, processed ids | poll, publish, consume, acknowledge | producer and consumer | resends after lost acknowledgements, processing that fails | an event is applied once |
| Idempotency middleware, `shared/examples/Idempotency/server.ts` | key to processing flag or cached response | request, patched `json()` | handlers behind it | a second request at any await of the first | one order, one outcome per key |
| Checkout saga, `05-ecommerce/src/orchestrator.ts`, `reliability.ts` | order status, reservations, charges | reserve, charge once or with retries, release, finalize, abort | mock services | compensation after a partial failure, lost answers | a finalized order is paid and has its stock, a failed one holds none |
| Stale-while-revalidate, `shared/examples/swr-server.ts`, `05-ecommerce/src/middleware/swr.ts` | entries with a fresh and a stale age | read, background fetch | the database | overlapping fetches, eviction or a failed fetch in between | a stale answer is followed by a refresh in time |
| URL shortener, `01_url_shortener/src/*` | codes with URL and expiry | shorten, stats, redirect | its store (Redis or memory) | drawn codes that are taken, expiry at every read | a code leads to its URL till its time is over |
| Social feed, `06-social-feed/src/*` | the ranked feed of a user | rank and cache, `GET /feed` | fan-out and sharding are mocks without state | pages over a ranking with equal scores | a client that pages sees every post once |
| Event store, `07-event-store/src/*` | append-only log, view, audit log | publish, read, replay up to a time | the view is updated on publication | order of time stamps against order of publication | a replay of the whole log equals the view; a late event changes the past from its time on |
| Logical clocks, `09-time-clocks/src/*`, `04-chat_app/src/logical-chat-integration.ts` | Lamport counters; the room's messages | local event, send, receive | nodes exchange delayed messages | order under skewed clocks and delays | cause before effect |
| Load balancers, `shared/load-balancer/*` | next index; queue lengths | `getNextServer`, `simulateRequest`, drain | simulated servers | equal loads, full queues, servers of any speed | even spread; nothing dropped while a queue has room |
| Older gateway and clients, authentication | – | – | superseded by `index.ts`, library calls | – | – |
| Observability, demos, test scripts | – | logging, metrics, drivers | – | – | – |

Every hazard found while reading, with its line and the properties that cover
it, is under `hazards` in `PROJECT.json`.

## 2. Modules

| Module | Models | State and actions against the code |
|---|---|---|
| `RaftLite` (+ `MCRaftLite`, `RaftLiteProofs`) | `RaftNode` | The five fields are variables. Methods call peers synchronously, so `Connect`, `StartElection`, `ExecuteCommand` and `SendHeartbeats` are each one action, including what `requestVote` and `appendEntries` do on every peer. `elected`, `committed` and `partial` are history variables. |
| `LeaderElection` (+ `LeaderElectionProofs`) | `RedisLeaderElector` | `Start`, `Campaign` (the interval), `Stop`; `ExecSetNX/Get/Set` execute a command in Redis; `OnSetNX/Get/Set` resume the campaign after each await. The campaign has no other local state, so the connection's request and reply queues are its program counter, and campaigns may overlap. `Tick` ages the key and the timers. |
| `LeaderLease` | what an elector promises | A lease: the owner changes only through a lapse at which nobody acts as leader. `LeaderElection` implements it. |
| `Resilience` (+ `ResilienceProofs`) | `CircuitBreaker` around `withRetry` | `Call` is `execute()` up to the first await (admission by `updateState()`, or refusal), `Succeed`, `Fail` and `Backoff` are what an attempt's end does, `Retry` the next attempt. `Tick` is the clock, `Downstream` the service breaking or recovering. |
| `ChatOutbox` (+ `ChatOutboxProofs`) | `processOutbox()` | One action per query a connection executes (`Begin`, `Select`, `Update`, `Commit`, `Rollback`), in the order in which the runs sent them; `Refused` is a query in an aborted transaction, `DeadlockVictim` PostgreSQL's choice, `Publish`/`PublishFails` one `redis.publish`, `Crash` the process. |
| `AtLeastOnce` | what an outbox promises | A row is accepted, delivered at least once, and only then closed. `ChatOutbox` implements it. |
| `ChatGateway` (+ `ChatGatewayProofs`) | `index.ts` with `BroadcastService` | The three maps are three variables. `Connect`, `Join`, `Lose` (the network) followed by `Close` (the event), `Receive` (a Redis message routed to the room, with the overflow), `Flush` (the batching interval over all clients), `Stop` (shutdown). |
| `LossyFeed` | what the gateway promises a client (`docs/ADRs/ADR-026 …`) | Numbered messages wait and are sent together; the oldest give way, never the newest half, only when the buffer is full, and the client is warned. `ChatGateway` implements one per connection, reading the waiting messages and the warning off its buffer. |
| `LRUCache` (+ `DistributedCacheProofs`) | `LRUCache` | `get` is `Miss`, `Expire` or `Hit`; `set` is `Overwrite` or `Insert` with the eviction. `removeNode`, `addNodeToHead` and `moveToHead` are operators on the list record, pointer by pointer. `Tick` is the clock. |
| `RecencyCache` | what an LRU cache promises | A sequence of entries in recency order. `LRUCache` implements it, reading `Order` off the pointers. |
| `Arrays` | `Array.prototype.filter`, `Array.prototype.sort` | What they put at each place: `Filtered` the k-th of the places to keep, `SortedBy` the element with k no later than it. Without recursion or folds, so that proofs can use them. `HashRing`, `EventStore` and `Feed` extend it. |
| `HashRing` | `ConsistentHash` | `addNode`, `removeNode`, the binary search and `getNode` as operators on a ring; `Clockwise` is the reference definition. |
| `ClusterManager` (+ `DistributedCacheProofs`) | `ClusterManager`, `getReplicaSet()` | `Adds` and `Removes` are `addNode()` and `removeNode()`, `Primary` is `getNodeForKey()`, `ReplicaSet` takes the primary and then the first of the others in order of insertion. |
| `CacheCluster` | `HealthMonitor` over a `ClusterManager` | `AddNode`/`RemoveNode` are joins and removals by hand; `StartCheck` takes `checkNodes()`'s snapshot, `Recovered`/`Missed` resume it with the verdict on its next node, `Hangs` is a ping nobody resolves, because the server closes the connection without an answer: the check is lost, and the interval starts others. `Turns` is a cache server going down, closing connections, or coming back. |
| `DistributedCache` (+ `MCDistributedCache`) | a cache server's cache and the cluster's monitor | `LRUCache` and an instance of `CacheCluster`; `side` says which of them a behaviour is of, since they share no state. |
| `RateLimiter` (+ `RateLimiterProofs`) | 02-rate-limiter | A request is two steps: `LimitCheck` or `LimitIncr` reads the clock, `Execute` is the script in Redis, whose reply may be lost so that ioredis sends it again; `FallBack` and `CheckFails` are the two `catch` blocks. `Tick` ages everything, expires the key, refills nothing: a refill is computed when a bucket is read. |
| `Checkout` | idempotency middleware, saga, payment retries | One action per stretch between two awaits: `Arrive` (the middleware up to the saga's first await), `Reserve`, `Mark`, `ChargeOnce` or `TryCharge`, `Release`, `Abort`, `Finalize`, `Respond` (the patched `json()`). |
| `Delivery` | outbox demo, its consumer, queue simulation | `CreateOrder`; `Tick` is the worker's interval over the pending events; `Send` one attempt of the producer, whose acknowledgement may be lost; `Processes` the consumer's test. |
| `LogicalClocks` | `DistributedNode` | `performLocalAction`, `sendMessage`, `receiveMessage`; messages are delivered late, and in the order sent, by the one timer of each. `past` records what each event knows of. |
| `ChatRoom` | the chat room over Lamport clocks | `SendMessage` and `ReceiveMessage` with messages that overtake each other. `causes` records what the sender of each message knew of: the room's messages and all of its own, those on their way included. |
| `EventStore` | `EventStore` with `OrderView`; the audit log | `publishEvent` (log and view), `append`; `getEventsUpTo` and `buildState` are operators. `EventsOf` filters and sorts, `viewOf` is a replay through `handleEvent`. The stamps are the callers', in any order. |
| `SWRServer`, `EdgeCache` | the two stale-while-revalidate caches | A read is `FreshHit`, `StaleHit` or `Miss`; `Answered` is a fetch that ends. `owed` is the time since a stale answer that no fetch has followed yet. |
| `WindowLimiters` | token bucket, sliding windows, INCR with EXPIRE | `Consume`, `CheckLimit`, `Allow`, `Incr`, `Expire`; `FailsOpen` is a request that `catch` lets through because its INCR, or the TTL that was to refuse it, failed. `granted` and `failed` record the grants and those failures of the last window. |
| `UrlShortener` | code creation, statistics, redirects | `Shorten`, `Stats`, `Redirect` over the in-memory store. `issued` is what clients were told. |
| `LoadBalancer` | both policies | `simulateRequest` on the server the policy chooses, `drainQueues` on any servers. |
| `Feed` | ranking and `GET /feed` | `rankAndCacheFeed` with any scores, `GetFeed` with the client's cursor, `StartOver`. `seen` and `breaks` record the pages a client has read of one ranking. |
| `SmallServices` (+ `MCSmallServices`, `SmallServicesProofs`) | the ten modules from `Checkout` to `Feed`, without `ChatRoom` | Instances of each; `part` says which of them a behaviour is of. They share no state, so their states add up instead of multiplying. |

Each module begins with plausible slips in the code (an off-by-one, a dropped
guard, a missing reset), named for what they get wrong. They take no part in
the specification; each shows that some property would notice.

## 3. Runs

| Run | Question it answers | States |
|---|---|---|
| `raft` (`MCRaftLite.cfg`) | Can two nodes win a term, a stale leader commit, a log run backwards or hold an entry nobody elected wrote, or a committed entry lose its majority, whatever the order of elections, writes, heartbeats and rewirings? No: `ElectionSafety`, `StaleLeaderCannotCommit`, `LogsFollowElections`, `CommittedSurvives`; and `MeshAgreement` in the demo's own wiring. | 229 449 |
| `leader_election` (`LeaderElection.cfg`) | Is an elector that acts as leader the holder of the lock, does no renewal take another's lock, and is a crashed leader replaced, when a campaign takes less than half the TTL? Yes: `LeaderHoldsLock`, `ImplementsLease`, `NoRenewalStealsTheLock`, `Failover`. | 268 993 |
| `resilience` (`Resilience.cfg`) | Can late verdicts corrupt the breaker's count, keep it open, or let load through? No: `ClosedBelowThreshold`, `ShedsLoad`, `Recovers`. | 13 372 |
| `chat_outbox` (`ChatOutbox.cfg`) | Do overlapping runs on one connection, deadlocks, a failed publish or a crash lose a message, leave a lock, or stop the outbox? No: `ImplementsAtLeastOnce`, `IdleHoldsNothing`, `Drains`. | 326 890 |
| `chat_gateway` (`ChatGateway.cfg`) | Is anything lost without a gap event or too early, or an open connection cut off by an old one's close event? No: `ImplementsLossyFeed`, `NoSilentLoss`, `OpenIsRouted`, `Delivers`. | 253 132 |
| `distributed_cache` (`MCDistributedCache.cfg`) | Do the pointers of a server's cache keep the recency order with expiry and eviction anywhere? Do keys follow the ring, stay where they are unless their own node joins or leaves, and keep replicas, and do dead nodes leave, while checks overlap and hang? Yes: `WellLinked`, `ImplementsRecencyCache`; `RoutesClockwise`, `OnlyItsKeysMove`, `ReplicasSurvive`; and `DeadNodesLeave`, with the exception section 6 is about. | 210 409 |
| `rate_limiter` (`RateLimiter.cfg`) | Do drifting clocks, lost replies, repeated commands, expiry or the fallback grant more than a bucket and its refill, or push a reset time away? No: `WithinBurst`, `RetryAfterHolds`. | 2 265 368 |
| `small_services` (`MCSmallServices.cfg`) | Does each small program keep its promise in every order of its steps? Yes: `OneTrueOutcomePerKey`, `ExactlyOnce`, `ClockCondition`, `ReplayAgrees`, `TimeTravel`, `RefreshInTime`, `WindowBound`, `LinksHold`, `SpreadsLoad`, `PagesComplete`. | 429 317 |
| `leader_renewal_race`, `outbox_shared_batch`, `dead_nodes_hidden`, `chat_room_order` | Section 6. TLC is expected to find each of these violated. | |

`raft`, `chat_gateway`, `small_services` and `chat_room_order` switch deadlock checking
off: their bounds on terms, connections, messages and log lengths stop the model, and a
checkout is simply over. All other passing runs check it. The type invariants
of `RaftLite`, `LeaderElection`, `Resilience`, `ChatGateway`, `LRUCache` and
`CacheCluster` are not among the runs' properties because they are proved.

## 4. Bounds

- `raft`: three nodes, the smallest cluster with a majority of two, four terms
  and two log entries. `a` and `c` may be wired to everybody or only to `b`, so
  that an election or a write can bypass one node and a deposed leader keeps
  its state for several terms. Two commands tell entries apart.
- `leader_election`: three electors, TTL of four ticks (a renewal every two),
  delay of at most one tick, the largest that keeps `RenewEvery + MaxLag < TTL`.
  Overlapping campaigns cannot occur under it, so the slow run raises the
  delay to three ticks, where they do.
- `resilience`: a threshold of three and three callers with three attempts each
  leave room for several late verdicts after the breaker has opened, and for
  successes and failures to interleave in `HALF_OPEN`.
- `chat_outbox`: two workers with two runs each, two rows and a batch of one:
  a run with a row and a run without one overlap on both connections, which is
  what makes a foreign COMMIT possible; one fault, at any point.
- `chat_gateway`: two users, two rooms, two connections (one user may make
  both) and five messages over a buffer of two, so a buffer overflows more than
  once between two flushes and a connection can change rooms in between.
- `distributed_cache`: four keys over a capacity of three: removal at the head, the
  tail, the middle and of the only node, and eviction with expired entries. Three nodes
  with two points each, interleaved on the ring so that a node's successors differ from
  point to point; a key on a point, one between two, one past the last; a threshold of
  two and two overlapping checks, besides any number that hang. One node may also be taken
  out by hand, and the checks remove any of them. One node (`Closing`) may close
  connections without an answer, for as long and as often as it likes: that is enough to
  hide the two others, and `dead_nodes_hidden` shows that it does.
- `rate_limiter`: two requests under way, each with a time of its own, which is
  all that tells servers apart in Redis; one server, whose bucket in memory no other
  one touches; tiers of one and three tokens and a check with a capacity of two, so
  that a check can both raise and cut a bucket; a token worth two ticks in Redis, so
  that a refill can be partial; a drift of one tick in either direction, so that a
  request's time may be before, at or after the bucket's last refill; the shortest
  lifetime of a key that the assumption allows.
- `small_services`: three checkout requests of which two carry one key and three
  payment attempts; two orders and five sends; three nodes and six events, enough
  for a chain of messages through all of them while another message is on its way;
  three events with stamps in any order; three
  products over two cache entries; a window of three ticks in which two INCRs or TTLs
  may fail; two codes that are
  drawn again and again; three servers with queues of three; five posts with three
  scores over a cache of four, so that pages end inside runs of equal scores.
- `chat_room_order`: three messages of two clients whose wall clocks disagree; two of
  one client would do.

Counters that only grow (terms, rows, connections, messages, faults)
stop at their bound through a guard. `failureCount` and `age` of the breaker,
read only through `>=`, stop at the value they are compared with.

## 5. Fairness

- `LeaderElection`: time passes, Redis executes what it is sent, the event loop
  runs due timers and replies. Nobody is obliged to start or stop, and
  `Failover` asks for a leader only while some elector keeps running.
- `Resilience`: an attempt ends, by the timeout of `retry.ts` at the latest; a
  backoff ends; somebody keeps calling. Nothing makes the service recover:
  `Recovers` is conditional on it.
- `ChatOutbox`: per worker, the interval keeps firing, the connection's next
  query is executed, a publish under way ends. PostgreSQL resolves deadlocks by
  itself and a fair `Execute` includes that.
- `ChatGateway`: the batching interval fires; a lost connection's close event
  arrives. No client has to connect, and no message has to arrive.
- `CacheCluster`, in `DistributedCache`'s `SidesSpec`: the interval keeps firing and,
  of the pings under way, some one ends: with an answer, an error, its timeout, or a close
  that nobody handles. There is no fairness per check: `DeadNodesLeave` holds even if one of
  two checks is always the one that makes progress, and nothing forces a node to come
  back, to stay up, or to stop closing connections.

`RaftLite`, `LRUCache`, `RateLimiter` and the small services have none: nothing in
the first two happens by itself, and what is promised of the others is safety
(`RefreshInTime` bounds a time instead of asking for something eventually).

## 6. Where the code departs from what it says

Four runs end in a counterexample; each states a comment of the code or a decision
of the ADRs.

- `leader_renewal_race`: `redis.ts:48` takes the plain SET of a renewal to be
  safe because "We are the leader". The key can expire and be taken between the
  GET and the SET, which then overwrites the new leader's lock. `leader_election`
  checks, and `NoStolenLockWhenPrompt` proves, that this cannot happen while a
  campaign takes less than the half TTL a renewal leaves (`Prompt`).
- `outbox_shared_batch`: `worker.ts:13` relies on row locks "so multiple workers
  don't grab the same messages". Runs started by `setInterval` share a
  connection, so a COMMIT of a run that found nothing releases the rows another
  run is publishing. Delivery stays at-least-once (`chat_outbox`), and
  `NoSharedBatchAlone` proves that the comment is right of workers whose runs do not
  overlap, however many there are.
- `dead_nodes_hidden`: ADR-023 has the monitor "remove nodes after 3 consecutive failures
  to prevent routing traffic to a black hole". `ping()` (`health.ts:64`-`79`) resolves on data,
  timeout and error. A server that accepts the connection and closes it without an answer
  causes none of them: the check waits for ever, the server is not counted as failed, and the
  members after it in the node list are not pinged, by this check or by any later one,
  since each comes to the same server first. A dead member behind it stays. What remains
  true is `DeadNodesLeave`: no member stays down for ever unless a member before it closes
  connections again and again.
- `chat_room_order`: `logical-chat-integration.ts:41` sorts "to guarantee causality", and
  `logical-clock-integration-notes.md:16` says that the order no longer relies on
  arrival. The room replaces the sender's stamp by its own clock (line 36), which by then is
  ahead of every stamp in the room, so the sort leaves the order of arrival. A client's second
  message that overtakes its first is shown before it. The demo of the same file shows it
  of a reply: "Replying to your first message" precedes the message it answers.

Further departures, found while modelling, that no run checks:

- `08-consensus/docs/design/raft-deep.md:28` promises Leader Completeness: a committed entry is
  in the log of every later leader. `requestVote` (`raft-lite-demo.ts:51`) compares no
  logs, so a node that was not connected when the entry was committed can win without
  it. What remains true is `CommittedSurvives`: a majority of the leader's cluster keeps
  the entry, and in a cluster that always was the full mesh every node does.
- `04-chat_app/src/index.ts:112` unregisters a closed client only if the user still
  has a registry entry. After a reconnect that precedes the old close event, the
  second connection's close event finds none, and its client and buffer stay.
- `02-rate-limiter/src/index.ts:76` calls `GET /limit/check` read-only, but its cost of 0
  runs the script that saves the bucket (`redisLimiter.ts:41`), with a capacity of 10
  whatever the client's tier. A check gives a new free client 10 tokens instead of 5
  and cuts a pro client's 50 to 10; `LimitCheck` models it, and `WithinBurst` therefore counts
  with the larger of the two capacities.
- `07-event-store/design/es-cqrs.md:12` promises that a view can be rebuilt "perfectly" by
  replaying every event. The view is updated in the order of publication and a replay is sorted
  by the callers' stamps (`demo.ts:20`). The two agree (`ReplayAgrees`) unless one of an
  `OrderCreated` and another event was published first and is stamped later:
  `handleEvent` ignores what comes before the creation, and a creation starts the order anew. A
  late stamp on an item or a shipment does no harm.
- `01_url_shortener/src/middleware.ts:80`, as ADR-008 and ADR-015 say, lets every request
  through whose INCR, EXPIRE or TTL fails. While Redis is down the fixed window has no
  bound at all; `WindowBound` says that nobody profits but the requests whose own
  commands failed.
- `03-distributed_cache/src/health.ts:47` says a removed node is no longer tracked.
  A check that pinged it before its removal counts a failure afterwards, so a
  node that rejoins starts with failures against it.
- `replication.ts:71` asks for a majority; `ceil(replicas / 2)` is half of an even
  number. The writes it counts are mocks that never fail.
- `shared/rate-limit/redisLimiter.ts:30` reads `KEYS[3]` and `ARGV[3]` of a call that
  passes one key: every call fails and is let through.
- `01_url_shortener/src/middleware.ts:65`: if EXPIRE fails after the first INCR, or that
  INCR's reply is lost, the counter never expires and the address stays blocked once it
  reached the limit.
- `middleware.ts` of the rate limiter asks `getPolicy()` for a capacity and a refill
  rate and passes only the capacity on.
- `shared/load-balancer/verify.ts:29` calls `reportRequestStart()`, which neither
  balancer has.

## 7. Proofs

Each theorem holds for every value of the constants that satisfies the named
assumptions of its module, and states a property that a run checks on one instance,
except `FullMeshQuorumsMeet`, which justifies an assumption, the type invariants no run
lists, and `NoSharedBatchAlone`, which gives the condition missing from the property that
`outbox_shared_batch` refutes. Every `IInv` was itself an invariant of such a run before it was proved
inductive.

**`RaftLiteProofs`** (`NodeAssumption`, `QuorumAssumption`). The inductive
invariant is `ElectionInv`: types, `ElectionSafety`, `LeaderWonItsTerm`, and
`WinnersHeld`: behind each election won stands a quorum whose members have all
reached its term. Because a vote requires a term *strictly* greater than
the voter's own, a second winner of the term would need a quorum disjoint from
that one, which `QuorumAssumption` excludes; `votedFor` plays no part.
`WinnersHeld` is needed because `ElectionSafety` alone says nothing of the
voters. From it follow `ElectionSafetyHolds` and `StaleLeaderFenced` (a write
of an older term would need a quorum of nodes at that term or below), and with
the log invariants `LogsFollowElectionsHolds` and `MeshAgreementHolds`. `CommittedSurvivesHolds`
rests on two facts: a log only grows at its end (`LogsGrow`), so what a majority holds it
goes on holding (`EntriesStay`); and whoever acknowledged a command has appended it by the
time it is reported, in the full mesh at the same index, since all logs were equal before
(`ReportHolds`). `FullMeshQuorumsMeet` shows that the demo's wiring, a full
mesh of any size, satisfies the assumption.

**`LeaderElectionProofs`** (`LeaseAssumption`, and `Prompt`:
`RenewEvery + MaxLag < TTL`, the hypothesis of three theorems). `LeaderHoldsLock`
is not inductive: whether a flag is backed by the lock depends on commands in
flight and on clocks. `IInv` adds `Pipe(n)`, that an elector has at most one
command or reply outstanding and where its timer stands then, and `HolderInv(n)`,
that for an elector that leads or is about to, the key is its own and has
more time to live than its next renewal can take. `LeaderHoldsLockWhenPrompt`
and `ImplementsLeaseWhenPrompt` (every step is a step of the lease or a stutter)
follow, and so does `NoStolenLockWhenPrompt`: an elector that sends a renewal is one
`HolderInv` speaks of, so the key is its own when Redis executes the SET.

**`ResilienceProofs`** (`ResilienceAssumption`). `IInv` is the type invariant,
`ClosedBelowThreshold`, `RetriesLeft` (a call in its backoff has an attempt left)
and `LoadInv`: while the breaker is open, a call under way has sent at most one
attempt for each it has used, and a caller between calls at most its retries.
`ShedsLoad` alone does not say how much a call under way may still send.
`ClosedBelowThresholdHolds` and `ShedsLoadHolds` follow.

**`RateLimiterProofs`** (`LimiterAssumption`: a token is worth some time in Redis and in
memory, and a key lives at least as long as a full bucket and the drift of two
clocks). `WithinBurst` bounds what some interval granted beyond its refill; it is not
inductive, since it says nothing of what the bucket still holds. `IInv` adds `Backed`:
what was granted, what is in the bucket and the time it may still refill from never
exceed one full bucket and one drift (`RedisInv`, `MemoryInv`). The other drift is the
next reader's. `RedisInv` also says that a key outlives its debt, so that a bucket
which expires has been repaid; this is where the lifetime of the key is needed.
`CallInv` ties the capacity a request passes to the client's tier, and `PromiseInv`
says that the bucket holds a token or has refilled one by the time the client was
told. `WithinBurstHolds` and `RetryAfterHoldsAlways` follow.

**`ChatGatewayProofs`** (`GatewayAssumption`: a buffer of an even, positive size).
`NoSilentLoss` says that a buffer is in order, not what happens when it overflows
between two flushes. `BufferInv` gives its closed form (`InOrder`): a buffer ends with
the last message routed to its client, counts up to it, and begins either right after
the last message delivered or with a gap that stands for at least one message.
`EnqueueKeeps` shows that this survives a message that fits and one that makes the
older half give way. `OpenIsRouted` is inductive once `OwnerInv` says whose a
connection is; the events that could break it are the close of an old connection after
its user's next one, and a room change between the two. `NoSilentLossHolds` and
`OpenIsRoutedHolds` follow. For `ImplementsLossyFeedHolds`, `NewestWait` reads the abstract
state off the closed form: the messages that wait are the newest ones without a hole, and
there is one event more if there is a gap. By `EnqueueIs` a routed message joins them, or
the buffer was full and the newest half stays behind a gap; either is a step `Route` of the feed
(`EnqueueRoutes`), and a batch is `Send`.

**`ChatOutboxProofs`** (`OutboxAssumption`). Runs on one connection share its
transaction, so a COMMIT closes the rows whichever run has marked: what must hold of them
is that somebody published them, not that the committing run did. `ConnectionInv` says
that what a transaction marked is published, that no lock outlives the transaction, and
that there is none while no run got beyond BEGIN; `RunInv` says of each run what it
has published of its batch. `IdleHoldsNothingHolds` follows, and
`ImplementsAtLeastOnceHolds`: inserting a row is the abstract acceptance, a publication is the
delivery of the least row left, a COMMIT or an UPDATE outside any transaction closes
rows already delivered, and everything else, deadlocks and crashes included, stutters.
`NoSharedBatchAlone` has the hypothesis `OneRun`, that a worker has one run at a time. Then
nobody else's COMMIT can end a run's transaction, and `BatchLocked`, that the rows a run has
yet to publish are locked by its connection, is inductive; two connections hold no lock
together.

**`DistributedCacheProofs`** is about the two parts of the distributed cache. Its first
theorems are about the specification of `LRUCache`, its last about that of `CacheCluster`,
of which `DistributedCache` has an instance, `Monitor`: a behaviour of `SidesSpec` is one of
the first or of the second.

The list (`CacheAssumption`; `Capacity` may be any number, zero included). `WellLinked` is stated with `Nth`, which follows `next` from the head, and says too
little of the nodes between. `IInv` says that the pointers are those of *some* enumeration `o` of
the Map (`Walk`): `o[i]` is a node exactly for `i` in `1..n`, no node twice, and `next`,
`prev`, `head` and `tail` are the neighbours in `o`, `Null` before the first and after the
last. `removeNode` then drops a position (`RemoveNodeWalk`), `addNodeToHead` puts a
node in front (`AddNodeWalk`), and every operation is one or both. `NthWalks` shows that
`Nth` is that enumeration: `o` satisfies the recursion, and of two functions that do
none can be the first to differ. `WellLinkedHolds` follows, and
`ImplementsRecencyCacheHolds`: the entries read off the pointers move as those of
`RecencyCache` (`RefineHit`, `RefineExpire`, `RefineOverwrite`, `RefineInsert`).

The cluster (`ClusterAssumption`: hashes do not collide, every node has a point).
`RoutesClockwise` speaks of lookups only; what makes it inductive is `RingInv`: the node
list repeats nobody, and the ring lists exactly the members' points, in ascending order,
with the owner of each. That joins and leaves preserve it (`AddsRing`, `RemovesRing`) rests on
what the code computes. The members of a finite set of numbers can be listed in order
(`KthInOrder`, from their ranks), which says what the sort and the filter return (`SortedIs`,
`FilteredIs`). The binary search is a recursion on the two ends of a window:
exactly one function satisfies it, since a smallest window on which two of them differ would
halve into a smaller one, and its value is the place of the first key that is not behind
(`LowHalves`, `SearchIs`). Taken modulo the length this is the clockwise successor
(`RingFinds`, `RingRoutes`), and `SameRing` and `MonitorSteps` show that whatever the monitor does,
late verdicts included, is a join, a leave, or no change of the ring. For
`ReplicasSurviveHolds`, a node that joins is the last of the list, and one that leaves
lets at most one other move up (`Leading`, `LeadingCount`, `PickedJoin`, `PickedLeave`); a
new primary is the node that joined or takes the place of the one that left
(`OwnerOfFewer`, `PrimaryMoves`), so the two changes never add up (`ReplicasKept`).
`PrimaryMoves` is also what `OnlyItsKeysMoveHolds` says of every step of the monitor: keys whose
node neither joined nor left stay where they were.
`ClusterTypeCorrect` assumes, as `MonitorAssumption` does, that the threshold is
positive: a failure count stays below it, however many checks hang.

**`SmallServicesProofs`** (`PartsAssumption`, the conjunction of the parts' own). The
theorems are about `SmallServices`' `Spec`. `PartsStep` says that a step is one of some part
and leaves the variables of the others alone, so each part has an inductive invariant
of its own.

- `PayInv` (checkout). What makes one request place an order is the processing flag,
  and what an outcome is worth depends on where its handler stands, so it says for each
  stage of the handler what it has done so far (`HandlerInv`), for an order what its
  status is worth and whom it was told (`OrderInv`), and for a key that two requests
  with an order and the same key are one (`KeyInv`). `OthersKeep` is the lemma that
  carries it: a handler whose key has no answer yet leaves all of this as it is for
  every other request. `OneTrueOutcomePerKeyHolds` follows.
- `DeliveryInv` (outbox demo, queue). `ExactlyOnce` bounds the effects; what makes it
  inductive is that they equal what the consumer remembers: an order was applied as often
  as it is in `processed`, and with deduplication a message as often as it was seen.
- `ClocksInv` (Lamport clocks). `ClockCondition` compares events only; a new event gets
  its stamp from its node's clock and a message, so it says of nodes and messages, too,
  that nobody knows of an event before it has happened (`Happened`) and that whoever
  knows of one has a time no smaller than its stamp (`UpToDate`). Both are stated with
  the one component of a past that counts the event's own node. `EventKeeps` shows that
  an event with a larger stamp than its node and its message keeps all of it.
- `RefreshInv` (both stale-while-revalidate servers). `InTime` says that fetches answer
  in the order in which they started and that for each stale answer one of them is under
  way that will answer in time. `FetchStarts`, `FetchAnswers` and `TimePasses` are shared by
  the two servers, which differ in eviction and failing fetches. `RefreshInTimeHolds`
  follows.
- `LinksInv` (URL shortener). `LinksHold` becomes inductive with `IssuedInv`, that a
  client is told of a code only while the code has a second left: such a code is neither
  free to be drawn nor one that a read deletes (`IssuedIsTaken`).
- `BalancerInv` (load balancers). `TurnsTaken` says what round robin's index stands for:
  exactly the servers before it are one request ahead. For least connections, a full
  server is chosen only if all are (`FullestIsLast`).
- `WindowInv` (the limiters of one key). `WindowBound` counts the grants of the last
  window; each limiter remembers something else, so each has an invariant of its own that
  ties its memory to that record, whose entries are in order of age (`Recent`). For the
  bucket, the `i` youngest grants and the tokens left never exceed its capacity and a
  token for each tick since the `i`-th (`BucketInv`). A sliding log, filtered, *is* the record
  (`LogInv`), for which `YoungIsOne` says that the young of an ordered log are the only prefix
  with none old in it and none young after it. For the fixed window, a bound on the number of
  grants is not inductive once requests are let through uncounted: a failure leaves the
  record when it is a window old, and the grant it caused must leave with it. `CounterInv`
  therefore bounds every prefix of the record: the `i` youngest grants are no more than the
  limit, what the key in Redis has granted, and the failures since the `i`-th (`Within`), and
  for those too young to leave before the key expires the limit is not needed. A grant, counted
  or not, moves each bound on by one (`CounterGrows`). Between INCR and EXPIRE the key has no
  lifetime that could run out. `WindowBoundHolds` follows.

- `StoreInv` (event store). Both properties compare recursive functions of a filtered, sorted
  log before and after an event is appended to it, with any stamp. `FilteredIs` and
  `SortedIs` say what the two array methods return; `SortInserts` that appending an event to a
  list inserts it into the sorted one, behind all that are no later, and `UntilInserts` that the
  replay up to a time then gains it or stays the same. `ViewOf` and `BuildOf` say that *some*
  function on `0..Len(s)` satisfies the recursion and is the replay, since of two that do
  none is the first to differ (`SameReplay`). What an insertion does to a replay is
  `RunInserts`, for any step that commutes with the new event: it comes out as if the
  event had come last. `handleEvent` commutes unless one of the two events creates the order
  (`EitherOrder`), which is where the condition of `ReplayAgrees` comes from; `Applied`
  commutes in the sums, and the status is that of the last event (`ViewInserts`,
  `BuildInserts`). `ReplayAgreesHolds` follows from the invariant, and `TimeTravelHolds` from
  `AsOfIs` and `Travels`, step by step.
- `FeedInv` (feed). `PagesComplete` says which posts were shown; what a page adds depends on
  where in the ranking the client stands. `Passed` gives those places: the posts shown stand
  at rising places of the ranking, none below the cursor, and every other place at or above the
  cursor has the score of some page's end. `RankedRanks` shows that sorting any scores gives each
  post once, by falling score, and `PassesOn` that a page, the first few places beyond
  the cursor, begins right after the last place passed and skips only equal scores. A page
  shorter than asked for has reached the end (`AllPassed`). `PagesCompleteHolds` follows.
- `PartsInv` (types) is the conjunction of these with what the types need besides:
  a producer has sent at most `MaxSends` times and its message was processed no more often
  (`SendsInv`), and the caches keep to their sizes and ages (`EntriesInv`, `EdgeInv`).
  `TypeCorrect` follows.

The proof of `ReplayAgrees` found a slip in the model. `handleEvent` was a `CASE` whose guards
overlapped for an event of an order that was never created. TLC takes the first guard that
holds, which is what the code's `if (order)` does; TLA+ leaves the choice open. The guards
are disjoint now.

Only model-checked: every liveness property (`Failover`, `Recovers`, `Drains`, `Delivers`,
`DeadNodesLeave`), since TLAPS does not reason about fairness here. Every safety property of
a passing run is proved.

## 8. Abstractions, and what is not modelled

- `votesReceived` is a local of one election: nothing reads it afterwards.
- A log entry, message, command or value is a member of a small set.
- Time is counted in ticks; exponential backoff lasts some time; an attempt
  that timed out and one that failed are one event to the caller.
- PostgreSQL (row locks, aborted transactions, deadlock detection) and Redis
  (NX, EX, expiry, ordered replies on a connection) are modelled by what the
  code relies on.
- Gateway: authentication, presence broadcasts and the process exit after the
  last socket closes are left out; `ws.send` to an open socket arrives.
- Cluster: hash collisions are excluded by `ClusterAssumption`; `initialNodes` is
  never passed by a caller and stays empty; a slow ping is a failed ping, so a
  ping may fail at any time; awaiting a verdict and acting on it are one step.
  `set()` and `get()` of `ReplicationManager` only log and return mock values.
- A half-open breaker admits every call until a verdict; no property bounds
  the number of trials.
- `MeshAgreement`, and the second half of `CommittedSurvives`, are restricted to the
  cluster that always was the full mesh, since no log is ever compared or repaired.
- `initialNodes` of `ClusterManager`, were it passed, would be in the node set and
  not on the ring.
- `WindowLimiters`: `MaxFailures` bounds the INCRs and TTLs that fail in one window, for TLC;
  the theorem is for any number.
- `RateLimiter`: clients have keys of their own, so one client of any tier stands
  for all. A bucket counts in the time its refill takes, which keeps it in
  integers; clock error and delay together are bounded by `MaxDrift`, without
  which no limit would hold.
- `Checkout`: nothing in the repository calls the middleware, the saga and the
  retries together; `05-ecommerce/docs/reliability-notes.md` says that one key
  guards the saga and the payment. The gateway charges a key once, as a payment
  provider does. A first charge that throws (`orchestrator.ts:49`) would end in `catch` with
  the reservation kept; the repository's mock only answers, so it is left out. A handler that answers without `json()` would leave its key in
  processing; the saga's does not. `checkOrderIdempotency()` and
  `saveOrderResponse()` are called by nothing.
- `UrlShortener`: the in-memory store, between whose test and store of a code no
  other request runs. With Redis two requests that draw the same code within a
  round trip would share it.
- `LoadBalancer`: `activeConnections` stays 0, since nothing in the simulation
  changes it. `Feed`: one user; fan-out, sharding and the databases are mocks
  without state.
- Not modelled: the cache server's text protocol (its state is the LRU cache's),
  `gateway.ts`, which `index.ts` supersedes, chat clients, authentication, logging,
  tracing, metrics, header checks, demos and test drivers: I/O around the modelled
  parts.

## 9. Plan

Done: every component that keeps state has a module and a run. Every safety property that a
passing run checks is proved for all values of the constants, and so are four
refinements (`LeaderLease`, `AtLeastOnce`, `RecencyCache`, `LossyFeed`). Of two of the four
properties that a run refutes, the condition under which the code satisfies them is proved
(`Prompt`, `OneRun`); of the third, `DeadNodesLeave` checks what remains true when a server
hangs checks; the order of the chat room keeps no promise of the kind.

Left open: liveness stays with TLC. Hash collisions on the ring, the number of trials of a
half-open breaker, the URL shortener over Redis and the limiter whose every Redis call fails
(sections 6 and 8) are recorded as hazards that no property covers.
