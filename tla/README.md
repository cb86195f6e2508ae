# A TLA+ model of study-tech

study-tech is a collection of small Java programs about middleware: locks on
Redis and ZooKeeper, listeners for message brokers, clients that register
themselves somewhere. Most of its classes call a library once and print the
result. A few are protocols written by hand, with several threads, leases,
watches, retries and failures: those are what this directory models, checks
with TLC and, for the most important claims, proves with TLAPS.

Paths below are relative to `src/main/java/com/ljt/study/` of the repository.

## Inventory

| Part | State | Operations | Interaction |
|---|---|---|---|
| `redis/lock/custom/RedisLock` | key with TTL in Redis, uuid per object, renewal thread | `lock`, `tryLock`, timed `tryLock`, `unlock`, `renew` | callers in several processes and one thread per successful lock meet at the key |
| `redis/lock/service/OrderService` | `CACHE`, a static map order -> grabbed | `grabOrder`, `grab` | runs its read-sleep-write inside a `Lock` of `LockService` |
| `zk/lock/ZkLock` | `/lock` and its children, `selfPath`, `waitPath`, `latch` | `lock`, `tryLock`, `unLock`, `isMinPath`, `process` | caller thread and event thread of a session share fields; sessions meet at the children |
| `zk/rmi/Provider`, `Consumer` | `/rmi` and its children, `urls` | `resister`, `publish`, `createNode`, `watchNode`, `lookup` | one-shot child watch from ZooKeeper to the consumer; constructor and event thread share `urls` |
| `rocketmq/core` | reconsumeTimes per message, repeat keys in Redis, the batch of a call | `onMessage`, `consumeMessage` (ordered, concurrent), `before`, `after`, `error` | the push consumer delivers, the reply decides for a whole batch |
| `mqtt/spring` | client key with TTL in Redis, connection, renewal executor | `connectServer`, `renew`, `disconnected`, connect callbacks | scheduler, callback and renewal threads |
| `dingtalk` | token cache, user cache | `sendNotice`, `createChat`, `addCharUser`, `refreshUser`, `addUser` | batches of web calls, asynchronous pages and members; callers share the caches |
| `rabbitmq` | map of unconfirmed messages; what a consumer holds | publishing, confirm listeners, three ways to acknowledge by hand | publisher and confirm listener share the map; the broker redelivers what is not acknowledged |
| `canal` | position of the binlog client | the receive loop | `getWithoutAck` / `ack` |
| Library wrappers (`CuratorLock`, Redisson, `RedisLockRegistry`, Curator recipes, jetcache) | in the library | delegation | - |
| drools, querydsl, shiro, liteflow, es, mongo, kafka, tools | little or none | single calls | - |
| `note/`, kubeblog | documents, a third-party sample | - | quoted where they say what the code does |

The hard behaviour is in the first eight rows. What makes each correct:

- **RedisLock**: nobody is inside with somebody else, although the lease may end
  during a critical section of any length; `unlock` frees only one's own key; a
  dead holder's key goes away; callers are served.
- **OrderService**: one winner per order; the flag read before the sleep is still
  right after it.
- **ZkLock**: mutual exclusion, first come first served, and the chain of
  hand-overs does not break.
- **zk/rmi**: a provider is found while it lives, the copy follows the registry, a
  lookup picks one of the list.
- **rocketmq/core**: nothing is dropped, given up early or dead-lettered unseen;
  order is kept; a poison message does not block a queue; repeats are rejected.
- **mqtt**: the key is there while the client is connected, is gone when it tries
  again, and the client ends connected, registered and subscribed.
- **dingtalk**: nobody is told twice, the answer says what happened, and a cached
  token is never too old.
- **rabbitmq**: the map is what is outstanding; nothing confirmed is lost; a message
  goes only after somebody has dealt with it.

## Modules

| Module | Models | Checked by |
|---|---|---|
| `Mutex` | what a lock promises: ask, enter when nobody is inside, leave | refined by `RedisLock` and, one lock per name, by `ZkLock` |
| `Delivery` | what at-least-once delivery promises: waiting, handled, gone, in this order | refined by `RocketListener` and `RabbitQueue` |
| `Broadcast` | what an operation in batches promises | refined by `DingTalk` |
| `RedisLock`, `RedisLockProof` | the lease lock | `MCRedisLock`, `RedisLock*.cfg`; tlapm |
| `OrderService`, `OrderServiceProof` | the service, EXTENDS `RedisLock`, whose theorems carry over | `MCOrderService`, `OrderService.cfg`; tlapm |
| `ZkLock`, `ZkLockProof` | the ZooKeeper lock | `MCZkLock`, `ZkLock*.cfg`; tlapm |
| `RmiRegistry`, `RmiRegistryProof` | providers and a consumer | `MCRmiRegistry`, `RmiRegistry.cfg`; tlapm |
| `RocketListener`, `RocketListenerProof` | the listener, push consumer and broker | `MCRocketListener`, `Rocket*.cfg`; tlapm |
| `MqttClient`, `MqttClientProof` | the client with its key and threads, in seconds | `MCMqttClient`, `Mqtt.cfg`; tlapm |
| `DingTalk`, `DingTalkProof` | operations, caches and late batches | `MCDingTalk`, `DingTalk.cfg`; tlapm |
| `RabbitQueue`, `RabbitQueueProof` | publisher, queue and consumers | `MCRabbitQueue`, `Rabbit.cfg`; tlapm |

Definitions marked *Mutant* in a comment are not part of any specification: each
is the form a plausible mistake would give to the definition below it, kept to
show that the properties can fail.

### RedisLock

One action per Redis command of a caller (`Acquire`, `Refuse`, `UnlockGet`,
`UnlockDelete`) and of the renewal thread (`RenewGet`, `RenewExpire`); `Retry` is the
100 ms sleep of `lock()`. A client is one `RedisLock` object; `LockService` builds
one per call, so it locks once, and it is its own uuid. `key` and `ttl` are the
Redis entry. `Tick` is one second. `timer[c]` is how long a renewal thread may
still take before its next command; `Tick` stops when one has run out, which is how
`MaxLag`, the only assumption about scheduling, enters. `CallerFault` and
`RenewerFault` are Redis commands that throw (for a caller's SETNX, executed or
not), `Crash(j)` kills a process with its callers and renewal threads. The loop in
`renew` tests a value it read once, so in the model a thread leaves the loop only
by failing or dying.

### OrderService

`Lock`, `GrabRead`, `GrabWrite`, `GrabInterrupted`, `Unlock` are the lines of
`grabOrder` and `grab`; the four seconds between read and write are the `Tick`s the
scheduler puts there. `sold` is kept per process, as `CACHE` is a static map: two
processes each sell an order once, which `OneWinner` does not forbid.

### ZkLock

Every ZooKeeper call is a step; the caller thread (`pc`) and the event thread (`cb`)
interleave. `IsMinPath` is `getChildren` with the decision that follows, `SetWatch`
the `getData` that sets the watch or, on a node that has gone, sends `isMinPath`
back to the list. `latch` is null, up or zero. `Lost` loses an answer (and perhaps
the request), `Expire` closes a session on the server, `Closed` is every later call
of its client, `Crash` stops a client, `Interrupt` makes `lock()` return without the
lock. Names are compared by rank first and sequence number second, as the sorted
strings of one length are; names of which one is a prefix of the other are left out.
Plain fields shared by the two threads are read sequentially consistently.

### RmiRegistry

The consumer's constructor and its event thread run the same `WatchNode` actions
with private `todo` and `list` and the shared `urls`. `Change` fires the one-shot
watch. A provider registers (`Publish`, `RootCheck`, `RootCreate`, `CreateNode`), dies,
comes back; its node outlives it until `Expire`. `deaf` is a history variable: some
`getChildren` has thrown. The end of the consumer's own session is not modelled.

### RocketListener

`Before`, `HandleReturns` / `HandleThrows` / `HandleGivesUp`, `After`, `Error` are
`onMessage`; `Advance` and the two replies are the loop of `consumeMessage`.
`MayRetry` is the comparison of line 76. The broker is external: delivery of a prefix
of an ordered queue or of any ready messages, redelivery of the whole batch with one
more reconsume time, dead-lettering at `ConsumerMax`, `Rebalance` and `Crash`, after
which the old consumer's reply counts for nothing. What is acknowledged is never delivered
again: an offset that is not committed in time, and an `Error` that `onMessage` does not
catch, are left out. In the code `after()` calls
`beforeHandle`, so `seen`, the repeat keys, stays empty; `afterHandle` is never
called and has no action. Broadcasting mode switches the repeat check off and is not
modelled.

### MqttClient

`Wake`, `Get`, `Connect`, `Register` are `connectServer`, on the main thread (`run` is
"init") and then on the scheduler; `Throw` is an exception out of it. `Renew` and
`Subscribe` are `connectComplete`, `Delete` and `Shutdown` are `disconnected`; they belong
to a connection, but act on the one field `current` (`scheduledExecutorService`) and on
whatever connection there is. `RenewCheck`, `RenewExpire`, `RenewFails` are the task of an
executor, which a `shutdown()` lets finish; an EXPIRE that fails may have been executed.
`timer` bounds how late callbacks and renewals run (`MaxLag`). The lock around `connectServer` has a random name per process,
so `tryLock` succeeds and is part of `Get`. v3 and v5 differ only in names.

### DingTalk

An operation goes from `Token` / `Fetch` / `Store` through `Lookup`, one number at a time, to
`Send` or `Create`, one call to the server at a time. `Answers` is every return and every
exception. `Add` is a batch of `createChat` that the client library sends after the
return, `AddUser` a page of `refreshUser`: both carry the token the operation got, and
`due` and `pageDue` say how long they may still take. That an operation with the batches
and pages it leaves behind takes at most `MaxCall` is an assumption; no code enforces it.
`refreshUser` is called once, when the application starts, so one refresh is enough.
A thread that waits for another's fetch of the token, which fails, fails in a step of
its own (`NoToken`) and is counted as one more failure. `Put` keeps what was just put
and may drop anything else at any time: Guava's `maximumSize` is divided among segments,
each of which drops when its own share is used up. Numbers, not ids, are what callers pass:
`UserOf` is the server's directory, in which a user may have two numbers and a number
nobody. `Count` is the code's `size / N + 1`; the empty batch it makes when `N` divides the
size may be accepted or refused. The token cache is a duration that runs down beside
the server's.

### RabbitQueue

`Put` and `Publish` are the two lines of `AckTest`'s loop, `HandleConfirm` its listener,
`Close` the end of the try block, after which confirms are dropped. `mode` chooses how
consumers acknowledge: after the listener has returned (`Config`), in a finally block
(`WorkTest`), never (`AckTest`). `EndChannel` is a connection that is lost and comes back:
it puts what a consumer had not acknowledged back in its place, for the queue is the set
of messages that are ready, delivered in the order they were published. `Throw` is an
exception out of the listener. Spring's container goes on after it. On the plain channels
of the clients it reaches amqp-client, after the acknowledgement if that is in a finally
block (`channel` is failing), and its default handler closes the channel (`CloseChannel`)
for good: nothing subscribes again. The message `AckTest` publishes without a queue is
taken in, confirmed and dropped by the broker: `Routable`.

## Runs

| Run | Question | Instance and why it is enough |
|---|---|---|
| `redis_safety` | mutual exclusion, own deletes, refinement of `Mutex` | 3 callers, 2 in one process; 10 s lease, lag up to 3 s, the largest for which `Prompt` holds; 2 failing commands, both processes may die. Three callers give a holder, a successor and a zombie thread of an earlier holder |
| `redis_live` | every caller is served unless one fails; a dead holder's key expires if no renewal thread is in its loop | 3 callers in 2 processes that may die, 6 s lease (`RenewEvery` 2, lag 1: the same proportions), a failing command, failing renewals |
| `order` | the flag read before the sleep stays true; one winner | 3 calls in 2 processes, lease of 6 s extended during the sleep |
| `zk_safety` | refinement of `Mutex` per name, order of grants, the chain of waiters | 3 clients, 3 calls, root missing, an interrupt, one lost answer, one client that may lose its session or die |
| `zk_handover` | waiters of two names in one directory are granted the lock | 3 clients, 2 of one name, 4 calls (one client asks twice); one may die in the queue: a chain with a gap |
| `rmi_registry` | watch chain; without overlap or loss the copy is wrong only while news is on its way, and becomes and stays current | 2 providers, 2 nodes (a restart is a second node of one provider), 1 lost call, root missing at first |
| `rocket_concurrent` | refinement of `Delivery`; nothing dead-lettered unseen or given up early; all settled | 2 threads, 2 messages, batches of 1 (the container's default), limits 2 and 2, 2 rebalances or crashes |
| `rocket_orderly` | order, and no blocked queue | 2 consumers, 3 messages, batches up to 2, limit 1 of a consumer's 2, 1 rebalance or crash |
| `rocket_repeat` | the repeat check: **violated** | 1 thread, 2 messages, batches of 2 |
| `mqtt` | the key while connected, the key gone at the next attempt, one executor, the client comes online | the code's seconds; 2 connections, of which the first may break at any moment, so that its late callbacks meet the second; lag 1 s, 2 failing calls |
| `dingtalk` | refinement of `Broadcast`, what true and false mean, no call with an ended token, late batches and pages included; chats fill, every number of every page gets into the cache | 2 callers, 2 operations; 3 users, one of whom has 2 numbers, and a number nobody has. The lists name two people and nobody, and an owner makes them longer: 0 to 3 people in batches of 2 and 1, some of which divide evenly; a user cache of 2 numbers, which overflows, with 2 pages; a token of 3 cached for 1 with calls of 1, the tightest that is `Prompt`; 1 failing call |
| `rabbit` | map, confirms, refinement of `Delivery`, the queue drains | 3 messages, one without a queue; prefetch 1 or 2 as in the code, all three modes; 2 consumers, of which one takes over what the other gives back, also for good; 2 refusals, lost connections or exceptions |

Bounds: `MaxFaults`, `MaxAsks`, `MaxMoves`, `MaxNodes`, `MaxConns` count failures, calls,
rebalances, nodes and connections; sequence numbers and reconsume times are bounded through them. Nothing
else is cut off: no state constraint is used. Deadlock is not checked, for in each
model the clients, providers or messages come to an end. Symmetry is not used, for
most runs check liveness or distinguish processes.

### Fairness

Weak fairness of the threads that run code (callers past their request, renewal
and event threads, consuming threads), of time, of the server closing a dead
session, of brokers delivering, and of what has been handed to a client library
(callbacks, late batches, pages). Nobody has to ask for a lock, and no failure
has to happen. Weak fairness is enough everywhere: a polling caller of `RedisLock`
that loses every race is served because the others run out of requests. In
`RabbitQueue` nobody has to publish or to close the channel; in `MqttClient`
connections need not break, but those that remain do not break for ever.

### What the checks found

`rocket_repeat` is violated: line 156 of `AbstractRocketMQListener` calls `beforeHandle`
instead of `afterHandle`, so the repeat check never rejects anything.

Four properties hold only with a condition, and the condition is the window in which
the code goes wrong. TLC finds the counterexample as soon as it is dropped. So none of
these properties covers its window; it says that there is no other.

1. `OrphanExpires` asks that no renewal thread is in its loop. `renew` reads the key
   once (RedisLock.java:93) and loops on that value: the thread of a caller that has
   long unlocked extends the key of whoever holds it, also of a process that died.
2. `OnlyRaceStrands` excepts a caller between `getData` and `new CountDownLatch(1)`
   (ZkLock.java:81): the deletion's event finds no latch, and the caller waits for
   ever. The property says that this is the only break in the chain.
3. `CacheFollows` excepts an event thread that starts while the constructor holds its
   list: of two lists the one read first may be stored last (Consumer.java:61).
4. `OneRenewal` excepts callbacks that overlap: `connectComplete` after or during
   `connectionLost` makes an executor that nobody shuts down (AbstractClientService.java:41).

`Kept` holds with a lag of one second and not with two: then the key of a lost
connection may run out before its DEL comes, and the DEL takes the next
connection's key, which no EXPIRE brings back. `OnlyEmptyBatchRefused` says when
`sendNotice` answers false to a notice everybody got: the number of people is a
multiple of the batch.

The models also contain what no run asks about, because nothing in the code
prevents it: an EXPIRE that throws ends the renewal unseen, after which `unlock` may
delete the next holder's key (`RenewalMayFail` is TRUE in `redis_live` and FALSE in
`redis_safety`, and `Prompt` excludes it); `lookup` may index a list that has been
replaced by a shorter one; two clients may both create the root, and the second
leaves with NodeExists; in a batch of two a failing message costs the one behind it
its attempts (`RetryBudget` is checked for the container's default of one); an MQTT
client whose SETNX was refused stays connected, for `disconnect()` disconnects only a
client that is not connected; two RabbitMQ messages whose listener threw fill the
prefetch and stop their consumer, and one exception closes the channel of a `WorkTest`
consumer for good (`Blocked` in `Drains`).

## Proofs

| Theorem | Says | Assumes |
|---|---|---|
| `RedisLockProof!TypeCorrect` | `[]TypeOK` | the constants' assumptions |
| `RedisLockProof!LeaseOutlastsRenewal` | `[]LeaseInv` | `Prompt` |
| `RedisLockProof!Exclusive`, `DeletesOwn`, `Implements` | mutual exclusion, own deletes, refinement of `Mutex` | `Prompt` |
| `OrderServiceProof!GrabbedOnce`, `FlagStaysFresh` | `[]OneWinner`, `[]NoStaleRead` | `Prompt` |
| `ZkLockProof!TypeCorrect`, `GrantedIsFirst`, `Exclusive`, `Fair`, `Implements`, `ChainHolds` | types, granted callers are first, exclusion, order of grants, refinement of `Mutex`, `ChainKept` | the constants' assumptions |
| `RmiRegistryProof!TypeCorrect`, `ChainUnbroken`, `CopyIsCurrent` | types, `[]Listening`, `CopyCurrent` | the constants' assumptions |
| `RocketListenerProof!TypeCorrect`, `NothingDropped`, `InTurn` | types, only settled messages are acknowledged, order | the constants' assumptions |
| `RocketListenerProof!NoneDead`, `Implements` | no dead letter, refinement of `Delivery` | `Single`: ordered, or batches of one |
| `RocketListenerProof!FailedOften` | `[]RetryBudget` | batches of one |
| `MqttClientProof!TypeCorrect`, `ExecutorsDoNotPileUp` | types, `OneRenewal` | the constants' assumptions |
| `MqttClientProof!KeyStays`, `NoKeyLeft` | `[]Kept`, `[]RetryFindsKeyGone` | `MaxLag <= 1` |
| `DingTalkProof!TokenStaysGood` | `[]TokenGood` | `Prompt` |
| `DingTalkProof!TypeCorrect`, `TrueForEverybody`, `FalseForEmptyBatch`, `Implements` | types, what true and false mean, refinement of `Broadcast` | the constants' assumptions: above all that the directory is finite |
| `RabbitQueueProof!TypeCorrect`, `MapStaysOutstanding`, `NothingConfirmedIsLost`, `Implements` | types, `[]MapIsOutstanding`, `[]ConfirmedNotLost`, refinement of `Delivery` | the constants' assumptions |

**RedisLock.** Mutual exclusion is not inductive: that the key is mine says nothing
about the next second. `LeaseInv` adds that a holder's renewal thread is alive and
that `ttl` exceeds the time this thread may still take (while it is starting, that
time plus one whole period), and that a caller that was never let in does not own
the key. `Tick` lowers both sides by one; `Acquire` and `RenewExpire` restore them,
which needs `Prompt`: renewals do not fail and `MaxLag + RenewEvery + MaxLag < TTL`. With
the real numbers (10 s, every 3 s) that is a lag of at most 3 s; at 4 s TLC finds
two holders. Refinement follows because a step into `held` is `Acquire`, which finds
no key, and `LeaseInv` then leaves nobody inside.

**OrderService.** Every step is a step of the lock or leaves it alone, so
`OrderSpec => Spec` and `LeaseInv` carries over. `OrderInv` is both properties, that a
winner's order is sold, and that who is not inside has not started. The types
(`OrderTypeOK`) are a lemma of the proof: beyond the lock's own they hold by the shape
of the assignments.

**ZkLock.** `FirstInv`: a granted caller's node exists and is first of its name; it
covers callers whose latch was counted down but who have not woken up. New nodes
have larger numbers and only a session's owner or its end deletes its nodes, so
being first is stable. `Fifo` is the same fact about the step of being granted, and
the refinement follows: two callers of one name cannot both be first.
`ChainKept` is the safety half of `OnlyRaceStrands`, per caller: what will count a latch
down (`Linked`) is lost in no step. The two threads write `waitPath` as they please, so
the proof needs `Path`: from `getChildren` on the caller's node exists, and what the field
names is before that node, whoever wrote it. Then `isMinPath` on the event thread ends in
a watch, another look or a count-down, and others' steps only turn a watch into an event
(`Aside`). Because the watched node is before one's own, the chain has no circle.

**RmiRegistry.** `Listening` is inductive with the range of `pc`: a change moves the
watch to a coming event, the event to the thread, the thread to the new watch, and
only a throwing `getChildren` leaves the circle, which `deaf` records. That a copy holds
at most `MaxNodes` urls, though it mixes nodes read at different times, is the one type
that is not obvious. `RoomInv`: a provider on its way to a node has room for it, and no
two nodes share a sequence number. `ReadInv`: neither do two nodes that a thread has in
hand or that `urls` keeps, so there are no more of them than sequence numbers.
`CopyCurrent` is the safety half of `CacheFollows`. `OneNotice`: a set watch, a coming event
and a thread about to call `getChildren` exclude each other. `WatchCovers`: while the watch
is set, what a thread has read and has yet to read is what the registry holds. So a child
that goes during a read has disarmed the watch, and giving up loses nothing. Both need
that the threads do not overlap.

**RocketListener.** Four invariants, each on top of the one before. `WorkInv`: what a
call has passed in its batch is settled. `OwnInv`: under `Single` a message is in at
most one live call, whose retries are under the listener's limit, which is why the
broker never reaches its own. `BudgetInv` relates the reconsume times the broker
counts, the copy a call holds and the attempts really made. `OrderInv`: a batch is a
piece of the queue and nothing behind an unsettled message has been started.

**MqttClient.** `Kept` needs that some executor renews, which is a matter of counting:
`connectionLost` shuts down *whatever* executor the field holds, so no executor
belongs to its connection. `KeyInv` keeps `Cardinality(Stopped) <= Cardinality(Finished)`:
every executor that was stopped has used up a finished `connectionLost`, of which there
are fewer than connections while one is up, so one executor is alive or about to be
made (`SomebodyRenews`). `Renewed` ties `ttl` to that executor's timer with a margin of
`9 - 6 - MaxLag` seconds; when the connection breaks this margin must exceed `MaxLag`,
so that the DEL comes before the key can run out (`DeletedFirst`): hence one second.
`RetryFindsKeyGone` is about the other end: `GoneInv` says that, with no connection and no
DEL to come, the key has no more left than the pause, also when a task that has passed
`isConnected()` is yet to call EXPIRE (`EndsInTime`: the pause then covers the task's
lag and a whole expiry). No such task starts without a connection (`RunningStep`).
`OneRenewal` has a history as its hypothesis, and is proved as an invariant of the steps
that satisfy it (`Orderly`: callbacks do not overlap and no call fails): the only executor
that can renew is the one in the field, and none whose `connectionLost` is done
(`OnlyCurrent`), so that there is at most one (`AtMostOne`).

**DingTalk.** `TokenInv`: the server's token outlasts the cached one by `MaxCall`, an
operation by what it may still take, the batches it leaves behind by what they may
still take, the pages of a refresh likewise (`PagesInv`), and a fetched token that is yet to be stored loses no more than the fetch
has taken, which is why `Prompt` counts `MaxCall` twice.
The batches rest on `OpInv`. Lemmas about `Count` and `Batch` say where batch i begins
and ends, that it has no more members than the limit and that `Count` of them cover the
list. An operation's ids are distinct, and as long as it has not ended by throwing those told
are exactly the ones at the first `batch * Size` positions (`Match`): so the next batch
meets nobody who was told, and after the last everybody was. A lost answer is the only
step that may break `Match`, and after it the operation tells nobody. "False" leaves
batches unsent, so everybody was told only if the list ended with an earlier batch,
which is `FalseForEmptyBatch`. `FoundInv` relates the ids to the numbers: without a failed
call each number looked up has its user among them, for a hit in the shared cache and a
call agree. The refinement needs `OpInv` only: a caller's steps are seen as `Ask`, `Tell`,
`Answer` or nothing, and nobody else is seen to move (`OneSeen`).

**RabbitQueue.** `AckInv`: who acknowledges has dealt with the message. `MapInv`: the
confirms on their way name disjoint messages in order, and a confirm for many names
only what is confirmed, so clearing the head of the map clears nothing outstanding.
`LoadInv`: what a consumer has in its inbox and at work is distinct and unacknowledged, and
within the prefetch. `ConfirmedNotLost` is not inductive, for it says nothing of a message
the map still has, of which the broker may already have disposed. `SafeInv` splits it in
two that meet at the broker: what left the map has had its confirm, ack or nack, and what the
broker has taken in and can route is refused, ready, unacknowledged or dealt with
(`Somewhere`), confirmed or not. An ended channel moves a message from the third place to
the second.

Model-checked only: everything under fairness (`EveryCallerServed`, `OrphanExpires`,
`OnlyRaceStrands`, `CacheFollows`, `EveryMessageSettled`, `Reconnects`, `ComesOnline`,
`ChatFills`, `WarmsUp`, `Drains`), which is beyond the prover. Every invariant, action
property and refinement of a passing run is stated by a theorem. One property is left
to its theorem, for what a run checks implies what matters of it: a message that is
dead-lettered unseen (`NoDeadLetter`) would be gone without having been dealt with,
against `AtLeastOnce`.

## Plan

Done: all modules above, and a theorem for every safety property. Left:

1. The safety half of the other liveness properties, with theorems, as `ChainKept` is of
   `OnlyRaceStrands` and `CopyCurrent` of `CacheFollows`: what `ChatFills` and `Reconnects`
   rest on (a batch is sent or still to be sent; a client without a connection is going to
   try again).
2. The end of the consumer's own session in `RmiRegistry`.

## Not modelled, and why

- Library locks and recipes (Curator, Redisson, `RedisLockRegistry`, jetcache): the
  wrappers only delegate.
- Two processes sharing `OrderService`'s map: they do not.
- `RedisLock` locked twice by one object, and `unlock` by a caller whose `lock` threw:
  no code of the repository does it.
- `sendChatMsg`: one call, no state. Changes of DingTalk's directory: the user cache
  never expires, and the code promises nothing about it.
- The MQTT profile that only sends, and the messages themselves.
- RabbitMQ's delay queues: TTL and dead letter exchange are the broker's.
- `canal`: one sequential loop that acknowledges whatever happened; it is in the list
  of hazards, but nothing in the code or its notes promises more.
- RPC over RabbitMQ, transactions, Kafka's and Mongo's configuration: single calls.
- The JavaScript below `note/linux/kubeblog`: editor.md and CodeMirror, copied into a
  sample application's static files. It is third-party code for the browser that
  nothing else here uses, though it is most of the repository's source by lines.
- Clients started once to print something (most of `rabbitmq/client`, `zk/curator`,
  `es`, `kafka`, `tools`), framework configuration, formatting and file output.
- Weak memory: shared plain fields are read in order.
