# Verification of nestjs-amqp

TLA+ models of `@open-rlb/nestjs-amqp` (`src/libs/rlb-nestjs-amqp/src`), the TLC
runs that check them on small instances and the TLAPS proofs about them.  The
library connects NestJS services through RabbitMQ: consumers with a bounded retry
policy, RPC, an HTTP and WebSocket gateway that forwards to the broker, an access
control list with two cache tiers, an admin module that stores the gateway's
routes and discovers them from the services, metrics with hourly rollups, and
schematics that write the configuration all of it is started from.

Paths below are relative to `src/libs/rlb-nestjs-amqp/src` unless they begin with
`src/`.

## 1. The system

| Component | State | Operations | Talks to |
|---|---|---|---|
| Consume callback and retry policy (`amqp-lib/amqp/connection.ts`, `retry-policy.ts`, `errorBehaviors.ts`) | `outstandingMessageProcessing`, `assertedRetryWaitQueues`, the `x-retry-count` header of a copy | run the handler, reply, ack; on failure republish a copy (through a TTL wait-queue), dead-letter or drop, error reply; legacy ACK/NACK/REQUEUE | RabbitMQ, RPC callers |
| Subscription and shutdown (`connection.ts`, `broker.service.ts`, `shutdown-state.service.ts`, `handler-registry.service.ts`) | `_consumers`, `consumersCanceled`, `handlersPool`, `rpcsPool`, the handler registry | register, set up again after a reconnect, `unregisterAll`, `close` | connection manager, consume callback |
| Calls: RPC request and publishing (`connection.ts`, `broker.service.ts`) | one correlation id and timer per request | `request`, `processDirectReplyToMessage`, `requestData`, `publishMessage` | consumers, gateway |
| Topology (`connection.ts`) | the setup functions of each channel | assert exchanges, queues and bindings on every connect | RabbitMQ, calls, subscriptions |
| ACL checks and caches (`modules/acl/services/acl.service.ts`, `cache/acl-cache.service.ts`, `acl-invalidation.service.ts`) | RAM tier with generation, shared store (L2), roles memo | `checkAction`, `get`, `set`, `invalidate`, `broadcast`, `apply` | database, store, peers |
| ACL management (`acl-management.service.ts`) | grant and role documents | `grant`, `revoke`, admin variants, role and action mutations | database, ACL caches |
| Gateway route table (`modules/proxy/services/http-handler.service.ts`) | `dynamicRouter`, `reloadInFlight`, `reloadPending` | `onModuleInit`, `reload`, `doReload`, control handler | admin service (export), broadcast topic |
| Gateway requests and authentication (`http-handler.service.ts`, `http-auth-handler.service.ts`, `auth-provider-registry.service.ts`) | `inFlight`, the registry's `current` providers | admit, authenticate, parse a body, authorize, call, answer; reload the providers | calls, ACL |
| WebSocket gateway (`websocket.service.ts`) | `subscriptions`, `isAlive`, `tokenExp`, `authByProvider` of each client | handshake, subscribe, unsubscribe, heartbeat, expire, close | providers, ACL, broker events |
| Route auto-discovery (`modules/gateway-admin/services/route-sync.service.ts`, `util/route-diff.ts`, `gateway-path.service.ts`) | stored rows with owner, lock and overrides | process a manifest; create, update, remove by users; `triggerReload` | repository, gateways |
| Metrics jobs (`gateway-metrics-rollup.service.ts`, `gateway-retention.service.ts`, the sample's `influx-point.store.ts`) | buffer and flush of each instance, lock with a lease, points and rollups | record, flush, hourly rollup and boot catch-up, pruning | Influx, Mongo, lock |
| Schematics (`schematics/`) and the boot checks (`broker.service.ts`, `metadata-scanner.service.ts`) | config.yaml, the wiring in app.module.ts and main.ts | upsert exchanges, queues, topics, routes, providers; boot | the application's configuration |

Metadata reflection, decorators and module wiring keep no state after boot.

### What is hard

* The process is JavaScript: code runs uninterrupted to its next `await`, and
  everything may happen at an `await`.  Every module takes the code between two
  awaits as one action.
* Runs of the consume callback overlap (prefetch) and outlive their channel.  The
  broker requeues what a lost channel had not acked while the run goes on; acks,
  copies and dead letters meet redelivered originals.
* Setup functions run again on every reconnect, also during a shutdown.
* A cached decision, a snapshot of rows or a grant record is read before an await
  and used after it; peers hear of changes by messages that arrive later.
* Reload signals overlap a reload that has already read the paths; their queue goes with
  the connection.
* The timer of a request runs while its publish waits for a connection; replies come
  late, twice or for someone else; the connection manager publishes again what was not
  confirmed.
* On a reconnect the setup functions of a channel start together and their commands
  interleave on one wire.
* HTTP clients go away at any moment; a WebSocket closes while a subscription is being
  authorized, and the set of providers is reloaded under both.
* A lease may expire, or its backend fail, while the holder still works.
* Writes come one by one, and any of them may fail after the earlier ones.

### What makes the components correct

* A message a producer had confirmed is never lost, is given up only after the
  configured number of attempts, and leaves the consumer in the end; an RPC caller is
  told.
* What is consumed has a handler; a drain stops consumption for good and a close
  cuts no handler off; registration and shutdown come to their end.
* No cache keeps a decision that a mutation has overtaken; a caller is answered
  although the database stalls.
* Grants and revokes add up, in a single record.
* A call returns once, with its own answer or none; nothing is used on a channel before
  it is declared.
* A 2xx means done; the slots held are those of the open responses; every admitted request
  is answered, unless its call waits for a channel the broker has refused.
* A client is subscribed only to what the event's own provider and the ACL allow, and a
  session ends when its peer or its token does.
* A rollup counts each point of a completed hour at most once and never shrinks.
* Running a schematic again changes nothing, and a project that booted still boots.
* A gateway's table is never older than the last signal it could hear, and never
  gives way to an older one.
* Discovery touches only rows of the announcing service, respects a user's edits
  and makes the gateways reload.

## 2. The modules

An action is the code between two awaits; `\E` in an action or a quantifier in
`Next` stands for inputs and for answers of the outside world.  Definitions named
like the code (`retryProperties`, `scheduleRetry`, `exhaust`, `findGrant`,
`invalidateLocalRam`, `reload` ...) translate the function of that name;
`PROJECT.json` has the lines of each.  Operators commented "Mutant" are wrong
variants of a definition; nothing refers to them.  They show that a property can
fail: put in place of the definition they vary, they make TLC report the property
that `PROJECT.json` lists with them.

**RetryConsumer** - one work queue and its consumer.  `place` and `body` are the
broker's copies of a message, `pc`, `live`, `on` and `work` the runs of the callback
(a *slot* is a run in progress; `live` says whether its channel is still the one the
message came from).  The actions follow a run from `Deliver` over the routing-key
check of RPC consumers (`RejectMisrouted`), deserialization, the handler and the
reply to the ack, or through the error handler: `scheduleRetry` asserts the
wait-queue and republishes with the counter advanced, `exhaust` dead-letters or drops
and answers the caller, the fallback nacks with requeue.  `ConnectionLost` requeues
every unacked copy, lets the runs go on without a channel and repeats unconfirmed
publishes after the reconnect.  What `RejectMisrouted` discards came under a key its
consumer does not name: a retry copy (`QueueNameMatches = FALSE`), or a message of
`Misaddressed`, published under another key the queue is bound to.  `WaitQueueExpires` is RabbitMQ's `expires` argument,
`...Refused` a publish that rejects.  A copy name can be used again when the copy is
gone.

**ConsumerLifecycle** - registration, setup functions, deliveries, lost connections,
`unregisterAll` and `close`, for all topics of one process.  `serving` is what the
broker delivers to the present channel, `tags` what the code knows about it; the time
between the two (`ConsumeAccepted`, `ConsumeOk`) is where most of the races are.
What becomes of a failing message is left to RetryConsumer.

**CallContract**, **BrokerCalls**, **BrokerProcess** - CallContract is the abstract
specification of what `requestData` and `publishMessage` promise: one outcome for each
call, "done" for a request only if a service has executed it, no timeout for an event.
BrokerCalls is the code: the `race` of the reply stream and the timer, the `publish`
that `Promise.all` waits for as well, the manager's buffer of what is not confirmed, and
the requests, executions and replies at the services, with replies that are lost,
doubled, late or meant for another instance that consumes the same reply queue
(`shared`).  It implements CallContract with `told <- Knows` and `done <-` the requests
executed at least once.  BrokerProcess puts the channels under it: `wire` holds the
commands of the setup functions that run together, `Declare` lets the broker carry out
or refuse the next one, `Lose` may forget what is not `Durable`, and `Install` is a
subscription made at run time.  Calls are written only when the default channel's setup
is over.

**HttpGate** - requests of one gateway from the cap (`Arrive`) over authentication,
multipart body and authorization to the call and its answer; `Prepare`
is the next stretch of the handler before the call, `Conclude` the one after it.
`Throws` is an exception outside the handler's try blocks, which Express answers.
`Finish` and `Close` are the two events of a response, either of which gives the slot
back, once.  The call is a CallContract; `channelClosed` says that the broker has closed
the channel it goes over.  `ReloadProviders` is the registry's reload, at any moment.

**WebSocketSession** - one client: handshake, frames of `subscribe` and `unsubscribe`,
each subscription in a *slot* while it awaits `verifyToken` (`Verified`) and the ACL
(`Checked`), the memo per provider, the expiry taken from the first token that has one,
`Heartbeat`, which ends dead and expired sessions, and `CloseEvent`.  `racing` records the events that
were being authorized when the socket closed.

**AclCache** - one action on one resource, decided for each user from a grant and a
role.  `check` holds the calls of `checkAction` with the await they are at and their
snapshot of the generation, `mutation` the mutations on their way through
invalidation, deletion in the store and broadcast.  A read takes its value at one step
(`GrantsListed`) and is used at a later one.  `Deadline` is `withTimeout`: the call is
answered, the resolution goes on.  `StoreFails` and `BroadcastMisses` are the errors
the code logs and swallows.

**AclGrants** - the records of one user and resource under overlapping `grant` and
`revoke`: a permission check, a read, a write.  `expected` records the roles the calls
add up to, `overlapped` that a call was between its read and its write when another
one read.

**RouteTable**, **GatewayReload** - RouteTable is the abstract specification: a table
that is a snapshot of the stored paths, never gives way to an older one and, once
settled, is not older than the last signal, unless that signal did not reach the
instance (`missed`) or the paths could not be read.
GatewayReload is `onModuleInit`, `reload` with its coalescing and `doReload`.  It
implements RouteTable with `table <- router` and `settled <- Settled`, where *settled*
means booted, no signal on the queue and no reload in flight.  The stored paths are
abstracted to a version number.  A signal may be sent at any moment.  `queue` says that
there is a control queue to take it: from `Listen`, the end of `onModuleInit`, to
`ConnectionLost`, which deletes the queue with the signals on it, and again from
`Resubscribe`, the setup function that runs on the reconnect.

**RouteSync** - `RouteSyncService.handle` in one or more gateways, the diff with user
overrides and locks, the conflict path after a refused insert, and
`GatewayPathService` create, update and remove.  A row has its key, one field whose
edit locks the row (`hard`), one that is kept as an override (`soft`) and `enabled`.
`disturbed` records the consumers during whose work someone else changed a row.
Manifests carry keys in no particular order; upserts of one manifest are written in
any order.

**MetricsJobs** - the points of one route in a cluster: `Track` puts a point into an
instance's buffer, `Flush` and `Flushed` are the batched write with its guard, `Boot`
and `Tick` begin a rollup run (of the last hours, or the last one), which reads, writes
and releases the lock in separate steps.  `LeaseExpires`, a lock that errs, a late
point, a failed query, a failed write and `Stop` may come anywhere between.  A stop may be
a crash or a shutdown: what is buffered or in flight may still be written or is lost, the
run ends where it is, and the lease stays until it expires.

**ProjectConfig** - the schematics as functions from configuration to configuration,
built from `upsertSeqItemByKey`, `ensureExchange`, `ensureQueue`, `ensureTopic` and
`wireAppModule` as in the code, and the boot (`Boots`): the exceptions of
`BrokerService.onModuleInit` and the metadata scanner on what they wrote.

**Gateway** - one gateway process: the calls over its broker connection
(BrokerProcess), its HTTP side and its WebSocket side.  HttpGate has the calls as
CallContract promises them, and the two sides share the registry of providers and
nothing else, which both see change at any moment.  So `part` chooses the side that
moves, the others stand still in an initial state, and the product of independent
behaviours, which would show nothing more, is not built.  **Operations** does the same
with AclGrants, MetricsJobs and ProjectConfig, which share no state at all.

**MC...** modules give the constants their small values.  **...Proofs** modules hold
the theorems; those of GatewayProofs and OperationsProofs are about the specifications
`GwSpec` and `OpsSpec` that the runs check.

How they compose: BrokerProcess extends BrokerCalls, so that calls and topology share
the channel.  HttpGate instantiates CallContract, which BrokerCalls implements, and assumes
of the end of a call no more than `CallReturns` says of the real ones: that it returns
if its channel does not stay closed meanwhile.  What HttpGate shows of requests therefore
holds over the real calls.  AclCache takes the
mutations of ACL management through the caches, and its `CallerAnswered` is what
HttpGate assumes of an authorization.  ConsumerLifecycle leaves a failing message to
RetryConsumer.  GatewayProofs proves that the calls of the composed process keep the
contract HttpGate is built on.

Definitions marked external in `PROJECT.json` model what is not in the repository,
from how the code uses it: RabbitMQ, amqp-connection-manager, the repositories and the
cache store.

## 3. The runs

All runs set `CHECK_DEADLOCK FALSE`: every model has a bounded number of faults, edits
or messages and may come to rest with nothing left to do, as a process without input
does.

| Run | Instance | Checks | States |
|---|---|---|---|
| `retry_delayed` | 1 message, 3 copies, 2 overlapping runs, delayed retry, 2 attempts, DLX declared, 1 lost connection, 1 refused publish; fair | `TypeOK`, `NoLoss`, `OneFate`, `EventuallySettled` | 46 k |
| `retry_rpc` | 2 requests (one malformed, one with an expiration), 3 attempts without delay, 2 lost connections, 1 refused publish | `RpcAnswered`, `NoLoss` | 1.25 M |
| `retry_attempts` | 3 messages at an RPC consumer: one that may fail every time, one malformed, one misaddressed; 2 attempts, delayed retry, DLX declared, wait-queue that expires, 1 lost connection, 2 refused publishes | `AttemptsRespected` | 972 k |
| `retry_wait_queue_expiry` | delayed retry, wait-queue that expires, no other fault | `NoLoss`, violated | |
| `lifecycle` | 2 topics (one RPC), 2 messages, 1 lost connection; fair | `ServedByHandler`, `OnlyRacingSetupsSurvive`, `CloseIsClean`, `ShutdownCompletes`, `RegistrationReturns` | 55 k |
| `lifecycle_startup` | the same, no lost connection | `NoSilentLoss`, violated | |
| `gateway` | calls: 1 request and 1 event, 2 executions of each, 1 lost connection, 1 exchange with or without an alternate, 1 queue, 1 consumer; HTTP: 1 request and 1 event, cap 1, 1 provider, an open and a guarded path; WebSocket: 3 events, 2 providers, 2 frames in flight, 2 subscriptions; fair | `DeclaredBeforeUse`, `OwnAnswer`, `InFlightExact`, `SuccessMeansDone`, `SubscriptionsEntitled`, `ImplementsContract`, `CallReturns`, `RequestsAnswered`, `SessionsEnd` | 400 k |
| `acl_local` | 2 instances, 2 checks, 2 mutations, no store | `TypeOK`, `RamFreshWhenQuiet` | 2.5 M |
| `acl_shared` | 1 instance with the store, 2 checks, 1 mutation of grants or roles, 1 fault; fair | `L2FreshWhenQuiet`, `CallerAnswered` | 370 k |
| `operations` | grants: 2 roles, 2 calls at a time, 3 documents; jobs: 2 instances, 2 points (one an error, one that may fall into the last millisecond), hours 0 to 2, catch-up of 2, retention of 1, 1 restart; scaffold: 3 schematics in a row, 15 of them with a few option sets each; flushes fair | `NoEmptyRecord`, `RolesAddUp`, `SingleRecord`, `RollupsSound`, `RollupsOnlyGrow`, `BufferDrains`, `RerunChangesNothing`, `BootKept` | 404 k |
| `reload` | 3 calls of `reload`, 3 writes, 2 signals waiting, 1 failed pull, 1 lost connection; fair | `TypeOK`, `ImplementsRouteTable`, `SignalTakesEffect` | 197 k |
| `sync` | 2 services, 2 keys, 2 values, 2 consumers, 2 manifests, 2 user calls, 1 failed call | `ManifestApplied`, `ReloadAfterChange`, `LockedContentKept`, `OwnRowsOnly` | 2.9 M |

### Why the bounds are enough

* Two overlapping runs and three copies hold the hard case of the retry policy: an
  original and its retry copy being processed at once after a lost connection, each
  about to ack.  Three attempts give a retry of a retry.  `retry_delayed` stops at two
  because the fairness of `Deliver` is per copy: with more attempts the copies need more
  names than the state space allows, and a name shortage would look like starvation.
  In `retry_attempts` two attempts are what it takes: the second failure exhausts the
  message, is answered and dead-lettered, and a refused publish or the lost connection
  has the exhausted copy delivered again.
  The proofs hold for any number.  The legacy behaviours are covered by the proofs
  only (they are for every `Policy`), no run instantiates them.
* Two topics let one be set up while another is drained; one lost connection may fall
  between any two steps of either.
* The races of the caches need one mutation that falls into one check; the second
  check and the second mutation let an old generation meet a new one.
* Two calls are the smallest overlap of a read-modify-write; three documents let a
  duplicate be revoked and granted again.
* One request and one event are all kinds of call; replies of other instances come from
  outside the set.  Two executions of a request give the doubled and the late reply, one
  lost connection the second round of setup functions.  More calls only add independent
  timers: the proofs hold for any number.
* A cap of one with two requests has one request refused while the other holds the slot,
  and admitted when it has gone.
* Three events with two providers: one that a wrong provider's memo would let in, one
  without a required token, one with actions; two frames in flight race each other for
  the memo and for the limit.
* An hour that is over, one that ends during a run and one after it; a retention of one
  hour lets prunes overtake the catch-up of two.  The model counts retention in hours
  where the configuration has days: what matters is whether it is shorter than the
  catch-up.
* Three schematics in a row: one that declares, one that changes what the first declared,
  and one that relies on both.
* Three calls of `reload`: one that runs, one that leaves the note and one that comes
  while the first goes round.  One lost connection may fall into any of them; signals
  before `Listen` are lost as well, so a signal can be missed twice and heard in between.
* Two manifests and two calls by users: a discovered row is edited, then announced
  again; and the two edits it takes to make an update after a conflict meet a second
  conflict.  The set of YAML routes is empty in this run: such a key is reserved like
  one that another owner's row has taken, and those are there.

### Fairness

* RetryConsumer: weak fairness of a run's next step (handlers return, the broker
  confirms or refuses), of the TTL of the wait-queue, and strong fairness of the
  delivery of a copy, because a slot is free again and again while other messages
  take it.  No fairness of faults.  Handlers that never end or ask for a requeue every
  time are outside: the code leaves both to the application.
* ConsumerLifecycle: setup functions, runs, cancels and the sequence of the shutdown
  hooks go on, and the connection manager reconnects, which it tries without end.
  Nothing forces a registration or a shutdown to start.
* AclCache: the store answers (its client has its own timeouts) and timers fire.
  The database has no fairness: `CallerAnswered` is about the deadline alone.
* GatewayReload: boot goes on, a signal on the queue is delivered, a request is
  answered.  A connection need not come back (`Resubscribe` has no fairness).  Without the last one the timeout of the request (`PullFails`) takes its
  place, which `SignalTakesEffect` excuses.
* The calls: timers fire, the manager writes what it has buffered and the broker confirms
  or refuses, connecting and declaring go on.  Services have no fairness: a request that
  nobody executes times out.
* HttpGate: the next stretch of a handler is run.  Its awaits end because decisions are
  answered (`CallerAnswered`) and HTTP clients of providers have timeouts.  A call is
  assumed to return only if its channel does not stay closed: that is `CallReturns`, with
  the exception it has.
* WebSocketSession: only the heartbeat's timer, and ws, which destroys a socket whose
  closing handshake is not answered.  Nothing is assumed of the client.
* MetricsJobs: the flush timer of an instance and the end of its POST, which has a
  timeout.
* AclGrants, ProjectConfig and RouteSync are checked for safety only.

## 4. What is proved

TLAPS checks these for every value of the constants that satisfies the module's
`ASSUME`; the bounds on faults and writes are constants like any other.  The assumptions
say what the constants are: numbers are natural, names of one kind are not those of
another (a queue is no consumer, "manual" no service, `NoProvider` no provider, `NoRow`
no row), there is at least one user, the points are finitely many.  Where a
theorem takes more than that it is stated with the theorem.

Every safety property that a passing run checks is proved, except `RerunChangesNothing`
and `BootKept`.

| Property | Theorem | Under |
|---|---|---|
| `TypeOK`, `AttemptsRespected`, `OneFate` (RetryConsumer) | `TypeCorrect`, `AttemptsAreRespected`, `MessagesEndOnce` | |
| `NoLoss` | `NothingIsLost` | `Dependable` |
| `RpcAnswered` | `RequestsAreAnswered` | `Dependable`, an RPC consumer with the retry policy |
| `ServedByHandler`, `OnlyRacingSetupsSurvive`, `CloseIsClean` | `HandlersServe`, `DrainStopsTheRest`, `CloseWaitsForHandlers` | |
| `OwnAnswer`, `ImplementsContract` | `AnswersAreOwn`, `CallsKeepTheContract`, `ProcessKeepsTheContract`, `GatewayKeepsTheContract` | |
| `DeclaredBeforeUse` | `DeclarationsPrecedeUse`, `GatewayDeclaresBeforeUse` | |
| `InFlightExact`, `SuccessMeansDone`, `SubscriptionsEntitled` | `SlotsAreExact`, `SuccessIsEarned`, `SubscribersAreEntitled` | |
| `TypeOK`, `RamFreshWhenQuiet`, `L2FreshWhenQuiet` (AclCache) | `TypeCorrect`, `RamIsFresh`, `L2IsFresh` | no store; one instance |
| `NoEmptyRecord`, `RolesAddUp`, `SingleRecord` | `RecordsHaveRoles`, `CallsAddUp`, `OneRecord` | |
| `RollupsSound`, `RollupsOnlyGrow` | `RollupsAreSound`, `RollupsGrow` | |
| `TypeOK`, `ImplementsRouteTable` (GatewayReload) | `TypeCorrect`, `CoalescingLosesNothing` | |
| `OwnRowsOnly`, `LockedContentKept`, `ManifestApplied`, `ReloadAfterChange` | `SyncTouchesOwnRows`, `LockedRowsSurvive`, `ManifestsApply`, `WritesReload` | |

**RetryConsumerProofs**

* `TypeCorrect`: `Spec => []TypeOK`, for every policy and with all faults.  It contains
  the bound on the retry counter, so it needs `AttemptsLeft` (a run on its way to a
  retry has attempts left) and, because an ack frees a copy, `LiveRunsOwn`,
  `LiveRunsDiffer` and `Contentful`: a run whose channel is open owns the unacked copy
  it works on.  Together they are `TInv`.
* `NothingIsLost`: `Spec => []NoLoss`, if the broker keeps the wait-queue and an RPC
  consumer accepts the name of its own queue and every key the queue is bound to
  (`Dependable`).  `NoLoss` is not inductive.
  An original is acked when its retry copy was confirmed, long before; what must be
  known then is that something of the message is still there.  That *some other* copy
  exists is not enough: after a lost connection two runs may be about to ack the copies
  the other one relies on.  `Superseded` asks for a copy with a *larger* counter, so
  that the copy with the largest one is never acked as superseded.  `WaitQueueReady`
  and `DeadIsKept` say the same for the wait-queue and the dead-letter exchange.
  `LInv` is their conjunction with `NoLoss`, inductive relative to `TInv`.  Both
  assumptions are needed: without the first `retry_wait_queue_expiry` is the
  counterexample, without the second the deviation of section 5 about `connection.ts:282`.
* `AttemptsAreRespected`: `[]AttemptsRespected` without any assumption.  All a run knows of
  the attempts before it is the counter in its copy.  `CountsRuns` says that the counter
  of a copy, and of a run, is never ahead of the handler runs the message has had.
* `RequestsAreAnswered`: `[]RpcAnswered`.  `AnsweredFirst` orders reply and settlement: what
  a caller has been told stays, and whoever is about to settle a request has told it
  before.  That a settled request has a fate at all is `NoLoss`.
* `MessagesEndOnce`: `[]OneFate`.  `OneOpenCopy` says that while no connection is lost at
  most one copy of a message is *open*, that is neither replaced by a confirmed copy nor
  settled: a run closes its own copy when the broker confirms what takes its place, and
  only then.

**ConsumerLifecycleProofs** - `HandlersServe`, `DrainStopsTheRest` and
`CloseWaitsForHandlers` from one inductive invariant, `LifecycleInv`.  `Subscriptions` says
who knows of a consumer: the broker serves a topic only while its setup function waits
for the answer, or with a tag of the present channel.  From it follows `Drained`: what is
served when the drain begins has a tag that `unregisterAll` is cancelling, or a setup that
was past the latch.  `Handled` and `Waited` carry this to the handlers and to `close`,
which waits for the runs there are and need not expect others.

**BrokerCallsProofs** - for any calls, lost connections and replies.  The inductive
invariant `IInv` is `CallsTypeOK`, `Traced` (whatever is on its way belongs to a request
that was made, a reply to one that was worked on), `Raced` (a race is run for requests
only, and what it took is their own reply) and `Told` (the outcome is there as soon as
race and publish settle it, and not before).

* `TypeCorrect`: `[]CallsTypeOK`, which contains the bound on executions.
* `AnswersAreOwn`: `[]OwnAnswer`.  It does not follow from the filter on the correlation
  id alone: the reply must have come from an execution, which `Traced` follows back
  through queue and service.
* `CallsKeepTheContract`: `Spec => ImplementsContract`.  Most actions stutter
  (`OtherwiseStutters`); sending is `Make`, settling is `Tell`, and the executions that
  happen after the caller's timeout are what CallContract's `Execute` allows.
* `ProcessKeepsTheContract`: the calls of BrokerProcess, which are written only when the
  default channel is set up, are calls of BrokerCalls (`ProcessStepIsCallStep`: each step
  is one of it or leaves the calls alone).  So `GwSpec` refines BrokerProcess, that
  refines BrokerCalls, and that CallContract.
* `DeclarationsPrecedeUse`: `ProcessSpec => []DeclaredBeforeUse` for every topology, any
  number of channels and connections.  `DeclaredBeforeUse` looks at one refused command;
  what makes it true is the order of all commands on a channel.  `Awaited` says that
  what is on a wire has had what its function waited for, `Kept` that the broker has
  what it has answered for, and `ExchangesFirst` that, without alternate exchanges, the
  declaration of every exchange is answered or stands in an earlier turn of the default
  channel's wire than any binding.  Answering a command shortens the wire and may
  append a turn, on which all of this has to be followed (`NextTurns`, `AnswerKeepsOrder`,
  `AppendKeepsOrder`).

**GatewayProofs**, about `GwSpec`

* `SlotsAreExact`: `[]InFlightExact` for any number of requests.  `Slots` says that an
  admitted request has given its slot back iff its response is no longer open, `Counted`
  that `inFlight` is the number of the others.
* `SuccessIsEarned`: `[]SuccessMeansDone`.  `EarnedInv` carries what each check has
  established through the later stages, while the registry is reloaded.
* `SubscribersAreEntitled`: `[]SubscriptionsEntitled` for any events, providers and frames
  in flight.  The memo of a provider says what *that* provider made of the token, a frame
  that waits for the ACL has good claims, and the property itself with the finiteness of
  `subs`, which its cardinality needs.
* `GatewayKeepsTheContract` and `GatewayDeclaresBeforeUse` carry the results of
  BrokerCallsProofs to the process.

**AclCacheProofs**

* `TypeCorrect`: `[]TypeOK`, and with it that no check has seen a generation that is still
  to come.
* `RamIsFresh`: `[]RamFreshWhenQuiet` for any number of instances, if there is no shared
  store.  A wrong decision in RAM is not excluded on the way; `RamWillBeRight` says that
  it is owed an invalidation (`Pending`: by a mutation on its way or a message in the
  instance's inbox), and so is a check that is about to put one there with a generation
  that still counts.  `RolesAreRight` is the half of a decision that grants do not touch.
* `L2IsFresh`: `[]L2FreshWhenQuiet` if there is one instance.  What is wrong in the store
  will be listed and deleted, or is among the keys being deleted; a check that would put
  it back meets a mutation that has not bumped the generation yet.
* Both assumptions are needed: items 8 and 3 of section 5 are the counterexamples.  Both
  theorems are about grants and revokes, as the properties are (item 9).

**OperationsProofs**, about `OpsSpec`

* `RecordsHaveRoles`: `[]NoEmptyRecord` however calls overlap: a write goes by what it
  read, and deletes the record with its last role, even if that is another's.
* `CallsAddUp` and `OneRecord`: `Serial` says that until two calls overlap at most one is
  about to write and what it has read is what there is.
* `RollupsAreSound`: `[]RollupsSound`, whether or not the lock keeps the runs apart.  A run
  holds only hours that are over and what it has read is of its hour (`JobsAreRight`),
  points keep their hour (`TypesAreRight`), and a rollup counts distinct points of it
  (`RollupsAreRight`).
* `RollupsGrow`: `OpsSpec => RollupsOnlyGrow`.  As long as the lock holds, the run that
  goes on is the holder's (`OneAtATime`), and the points a rollup has counted are there
  until the retention takes them (`CountsStand`); so a reading that is about to be written
  is no smaller than what it replaces (`ReadsStand`).

**RouteSyncProofs**

* `SyncTouchesOwnRows`: `Spec => OwnRowsOnly` for any services, consumers and users.
  `Targets` says that every row the sync is about to write is still one of its service or
  is gone for good, which holds because no row changes its owner and no id is used again
  (`OwnersKept`).
* `LockedRowsSurvive` and `ManifestsApply`: `Spec => LockedContentKept` and
  `[]ManifestApplied`, from `FreshInv`: for a consumer under whose work nobody else has
  changed a row, what it has read is what is stored (`ReadsCurrent`), no pending write
  meets a conflict or a locked row (`WritesApply`), and what differs from the manifest is
  about to be written (`WritesComplete`).  That two writes of one manifest do not hinder
  each other rests on the unique index (`Unique`).
* `WritesReload`: `[]ReloadAfterChange`, however the consumers overlap.  `ReloadDue`
  says that writes are pending only where the diff has found a change, and that what has
  been written is followed by somebody's reload as long as no call fails.

**GatewayReloadProofs** - the inductive invariant `IInv` is `TypeOK`, `OneAtATime`,
`Ordered` (no version is ahead of the stored paths, an answer under way is not older
than the table), `NothingOwed` (without a signal on the queue or a note to go round,
the answer under way, or the table, is as new as the last signal, if that one
was heard) and `Queued` (signals are on a queue that is there).

* `TypeCorrect` and `ReloadsDoNotOverlap`: `[]TypeOK` and `[]OneAtATime`, for any number
  of overlapping calls.
* `CoalescingLosesNothing`: `Spec => ImplementsRouteTable`, for any number of calls,
  signals and lost connections and without an assumption.  `StepSimulation` maps each
  action to a step of RouteTable or a stutter; the step that settles needs `NothingOwed`,
  the swap needs `Ordered`.  What RouteTable allows after a signal that was not heard
  (`Miss`, `Lose`) is the gap of item 11 in section 5.

Only model-checked:

* Liveness (`EventuallySettled`, `ShutdownCompletes`, `RegistrationReturns`,
  `CallReturns`, `RequestsAnswered`, `SessionsEnd`, `BufferDrains`, `CallerAnswered`,
  `SignalTakesEffect`), which is out of the prover's reach here, as `ENABLED` is.
* `RerunChangesNothing` and `BootKept`: the schematics are folds over the entries of a
  configuration, and what a fold computes for every sequence needs an induction with an
  operator as parameter, which none of the installed provers can instantiate.


## 5. Where the code and its own statements part

Two have a run that shows them; their findings are in `PROJECT.json`.

1. `connection.ts:692`: a wait-queue that the broker deletes under the code loses a
   confirmed retry copy (`retry_wait_queue_expiry`).
2. `broker.service.ts:275`: the handler is registered after the consumer; a message in
   between is acked unhandled (`lifecycle_startup`).

The others limit what the properties say.  First those reached in a model when the
constant or the premise named with them is changed.

3. `acl-cache.service.ts:86`: the generation is per instance; a peer writes an old
   decision into the shared store after the deletion.  `acl-invalidation.service.ts:18-19`
   says the peers need to drop their RAM only.  `L2FreshWhenQuiet` fails with two
   instances and the store.
4. `connection.ts:282`: a retry copy arrives under the queue's name, and an RPC consumer
   whose routing key does not match that name discards it.  The second attempt never
   runs and the caller is not answered; `retry-policy.ts:153`: "A waiting RPC caller must
   fail fast".  A request published under another key the queue is bound to fares the
   same at its first delivery.  `RpcAnswered` and `NoLoss` fail with `Rpc = TRUE` and
   `QueueNameMatches = FALSE` or a message in `Misaddressed`.
5. `retry-policy.ts:177`: a dead letter is published under `msg.fields.routingKey`, which
   after a retry is the queue's name; `retry-policy.ts:36`: "Defaults to the message's
   original routing key."
6. `retry-policy.ts:118`: with the dead-letter exchange missing, an exhausted message is
   requeued with an unchanged counter, for ever; `retry-policy.ts:8-9`: "so a poison
   message can never hot-loop a consumer forever".  `EventuallySettled` fails with
   `DlxDeclared = FALSE`.
7. `connection.ts:652`: the latch of the drain is read before an await; a subscription
   that is past it when the drain begins gets its consumer afterwards;
   `connection.ts:980`: "Cancels every live consumer AND prevents their resurrection".
   This is the exception `racing` in `OnlyRacingSetupsSurvive` and `ServedByHandler`.
8. `acl-cache.service.ts:74`: a hit of the shared store is put into RAM after an await
   without comparing generations; lines 20-24 say the generation closes that race.
   `RamFreshWhenQuiet` fails with `HasL2 = TRUE` and one instance.
9. `acl-management.service.ts:66`: the roles memo is dropped after the decisions, and
   filled by reads made before; `acl.service.ts:54-56` promises the memo's TTL, but a
   decision made from it goes into the shared store for `l2TtlSec`.  The reason why `Quiet` asks for
   `roleChanges = 0`.
10. `acl-management.service.ts:133`: two grants that find no record insert two; line 127:
    "re-granting the same roles never produces a duplicate doc".  And line 137: of two
    calls that read the same record the second write undoes the first.  `SingleRecord`
    and `RolesAddUp` fail without `~overlapped`.
11. `http-handler.service.ts:119`: the first table is read before the instance
    subscribes; a signal in between is not heard.  `broker.service.ts:203`: the control
    queue is `{ durable: false, autoDelete: true }`; a lost connection deletes it with the
    signals on it, those sent before the setup function has declared it again reach nobody,
    and nothing reads the paths again on a reconnect.  The instance serves an old table
    until the next signal it hears; `src/docs/gateway.md:107-108`: "so **every** gateway
    instance reloads".  `missed` in RouteTable and `SignalTakesEffect`, which both fail
    without it.
12. `route-sync.service.ts:105`: the rows were read several awaits earlier; a user's edit
    in between is overwritten, lock included; `src/docs/gateway-admin.md:377`:
    "auto-discovery never overwrites it again".  `LockedContentKept` fails without
    `disturbed`.
13. `route-diff.ts:75`: a row that a user has moved to another path is switched off by
    the next manifest, although it is locked; `http-path.repository.ts:14-15`: "SKIPS
    the whole route (the user's version wins)".  The exception in `LockedContentKept`.
14. `route-sync.service.ts:112`: a write that fails ends the work before the reload is
    asked for; `src/docs/gateway-admin.md:371`: "**Triggers a reload** when anything
    changed".  The premise `failures = 0` of `ReloadAfterChange`.
15. `broker.service.ts:318-321`: "a request still sitting in a backed-up queue must NOT be
    executed later".  The expiration counts from the queue; a publish the manager has
    buffered while disconnected is written after the caller's timeout, and executed.
    CallContract allows `Execute` after a timeout for this reason.
16. `connection.ts:206`: the timer only ends the race; `Promise.all` waits for the publish
    too.  With the channel's setup refused a call never returns: the exception in
    `CallReturns`, and in `RequestsAnswered`, as the client of such a call has no answer
    either.  And an event has no timer at all, so that in a gateway whose broker is
    down events hold their slots.
17. `connection.ts:558`: a reply queue that several instances consume hands an instance the
    replies of another, which it drops; the caller times out although it was served.
    `shared` in BrokerCalls.
18. `connection.ts:647`: the setup functions of a channel start together.  With alternate
    exchanges, or on a channel of its own, a consumer's binding may come before the
    exchange it names is declared again: the exception in `DeclaredBeforeUse`.
19. `http-handler.service.ts:89`: an aborted request gives its slot back while its call goes
    on: the cap is of open responses, the comment at lines 89-91 speaks of requests that are
    "each an outstanding RPC".  `InFlightExact` says it the way the code has it.
20. `gateway-metrics-rollup.service.ts:46`: "Idempotent (upsert-by-bucket), so overlapping a
    peer is safe", and `scheduler-lock.ts:9`.  Of two overlapping runs the one that read
    first may write last and replace a rollup by an older one.  The premise `~unlocked` of
    `RollupsOnlyGrow`.
21. The sample's `influx-point.store.ts:144`: the end of Influx's range is exclusive and the
    rollup asks up to the last millisecond of the hour; a point stamped in it is in no
    rollup.  `Edge` in MetricsJobs; the reason why `RollupsSound` has `<=`.
22. `broker-yaml.util.ts:10-15`: the helpers "encode the cross-reference invariants"; the
    cases in which they do not are the four exceptions of `BootKept`: a queue is added before
    its exchange is declared a topic exchange; `add-exchange --with-queue` and the route-sync
    queue of `add-gateway` on an exchange that is there with another type; a topic without its
    queue or any exchange (`add-topic` without dependencies, `add-metrics-topic`); and
    `add-gateway` drops a `routeDiscovery` whose service name was the connection's name.
23. `acl-cache.service.ts:107`: a deletion in the shared store that fails is logged and
    swallowed, like a broadcast that fails or meets a lost connection; the old decision stays
    for its TTL; line 99: "so the next check is forced to read from the database".  The reason
    why `Quiet` asks for `faults = 0`.

Then what was met while reading and lies beside the models.

* `auth-provider-registry.service.ts:57`: two reloads may apply their reads in the other
  order; unlike the route table's they are not coalesced.
* `websocket.service.ts:274`: a provider that is missing once is remembered as a refusal for
  the whole session, although the registry may be reloaded with it.  Line 154: an
  unsubscribe that comes while the subscription is being authorized has no effect.  Lines
  203-209: a subscription that completes after the close stays; `racing` in `SessionsEnd`.
* `http-handler.service.ts:270-271`: "an async Express handler that rejects sends NO
  response" is what Express 4 did; with the Express 5 of the lock file, the rejection
  goes to its error handler, as `Throws` has it.
* `connection.ts:185`: with `reject` false the `EMPTY` of an unreachable broker makes
  `lastValueFrom` reject all the same.
* `connection.ts:220`: a serializer that throws does so before `Promise.all` is called and
  after the race has begun; nobody handles the timeout that follows.
* `influx-point.store.ts:24-25` (sample): the sequence that makes timestamps unique is each
  instance's own.  A flush that is under way at shutdown makes the final one a no-op.  The
  timer of the rollup drifts and can pass over an hour, and an hour whose run failed is not
  tried again before the next boot.  A tracking event that is delivered twice counts twice.
* `broker.service.ts:90` and `:94` read `queue.name` where `queue` is undefined, two and eight
  lines after the warning that it may be.
* `add-gateway` run again with more features does not rewire modules that are there, and
  `configureMainForGateway` replaces the options of `NestFactory.create`; `harden-gateway`
  before it keeps the heartbeat default from being written.

## 6. What is not modelled

* Metadata reflection, parameter binding and the pairing of decorators with routes:
  functions of one input without state.  The part of the scanner that refuses to boot is in
  ProjectConfig.
* The route discovery publisher: it sends one manifest at bootstrap; RouteSync has any
  manifest arrive at any time.
* DrainableStream: exported, and used by none of the services.
* Path ordering, route counters, percentiles and the dashboard's queries; CRUD of auth
  providers and health: single repository calls or comparisons, with no state in between.
* Module wiring and configuration types; the rewriting of TypeScript sources and
  package.json by the schematics, of which only what is wired in the end is kept; the
  generators under `src/scripts`.
* In the modelled parts: a setup function that fails for another reason than a lost
  connection or a refused declaration; declarations that disagree with what the broker has;
  exchange-to-exchange bindings; whether a credential is good, which is chosen; WebSocket
  events of type http and payload filters; an `owner` in the payload of a user's call; the
  route-sync journal; the forced exit 25 s after a signal (`shutdown-state.service.ts:31`),
  before which `ShutdownCompletes` would have to come (a handler it cuts off is redelivered
  like one whose connection is lost); control messages with another action than reload; a
  gateway without `loadConfig.paths`, which has nothing to reload.
* Contents: payloads, headers other than the retry counter, YAML routes, hashes.

## 7. Plan

Done: RetryConsumer, ConsumerLifecycle, AclCache, AclGrants, RouteTable and GatewayReload,
RouteSync, CallContract with BrokerCalls and BrokerProcess, HttpGate, WebSocketSession,
MetricsJobs, ProjectConfig; proofs of the safety properties of all of them but
ProjectConfig.

What would come next:

1. RouteSync composed with GatewayReload: an announced route is served in the end; the
   proof would join `WritesReload` and `CoalescingLosesNothing`.
2. The provider registry's own reload with its overlap, in HttpGate.
3. The freshness of the caches with roles: what a changed role may leave behind, and for
   how long.
4. Pure functions against a reference definition: `matchesRoutingKey`, path ordering,
   percentiles.
