# Formal models of the service template

TLA+ specifications of the parts of this repository in which interleaving, failure and time decide
whether the code is right, the TLC configurations that check them, and TLAPS proofs of their most
important properties. Paths below are relative to the repository's root (`src/...` is the Python
code, `docs/...` its documentation). `PROJECT.json` maps each definition to the lines it models.

## 1. The system

| Component | State it keeps | Operations | What is hard about it | What makes it correct |
|---|---|---|---|---|
| Batch consumer under a lock (`share/kafka/consumer_maker.py`, `consumer.py`) | fetch position, `_processed_offsets`, the group's committed offset | enter, poll, checkpoint, exit | every await can fail, be cancelled or be the last one; commits lag behind batches; the lock can expire under a running batch | no record lost, bounded redelivery, sessions exclude each other, progress |
| Direct consumer with a threshold (`consumer.py`) | the same, and an offset limit | `get_batches(threshold)`, `commit` | the limit is found once, records arrive meanwhile | young records wait, none is skipped, old ones are reached |
| Redis lock (`share/redis/lock.py`) | owner token and time to live of a key | acquire, extend, release | expiry at any time, lost replies, orphaned keys | one holder; bounded lifetime of what is left behind |
| Accounts and tokens (`app/auth_context`) | user table, tokens handed out | register, login, refresh, verify | check-then-insert in two transactions; commit before enqueue | one account per email; tokens name users; a mail names an account |
| Background tasks (`share/dramatiq/facade.py`, e-mail task) | messages in the broker | send, take, retry, acknowledge, dead-letter | redelivery, worker death, age limit | bounded attempts, every message settles |
| Unit of work (`config/databases/postgres.py`, closers) | sessions per asyncio task, open transactions | `Atomic`, statements, closing | nesting, swallowed exceptions, several tasks at a time, closers that raise | atomic blocks, nothing left behind |
| Middlewares (`share/fastapi`, `share/dramatiq/actor_middlewares`, log properties) | log properties per task, what was sent and logged | open, log, run, close, log, clear | nesting order, exceptions through `finally` | logs carry the right properties and tell the outcome |
| Request and response logging (`share/fastapi/middlewares/request_response_logging.py`, `share/fastapi/utils`) | a trie of routes; what was read and sent of one exchange | insert, resolve; observe, receive, send, record | greedy walk; streams that end early, a `receive` called again | a mask is the route that matches; observing an exchange does not disturb it |
| Kafka producer (`share/kafka/producer.py`) | one producer per class | lazy start, send | start race, fire and forget | one producer, no silent loss |
| Redis cache (`share/redis/cache.py`) | cached objects with a time to live | get, create, update, delete | suppressed errors, populate race | bounded staleness |
| Pagination (`share/pagination`, `share/sqlmodel/filter_set.py`) | none | select, count | ties, rows that move between pages | pages partition an unchanged table; insertions hide nothing, deletions repeat nothing |
| Raw SQL adapters and probes, body formatter | none | one statement, one conversion | | partly modelled (section 8) |
| SQLModel bases, settings, logging and Sentry configuration, scheduler, commands, migrations | none, or configuration | | | not modelled (section 8) |

How they interact: an HTTP request runs the middlewares around the auth application, which uses
`Atomic` for each repository call and the task facade to enqueue the e-mail. A dramatiq worker runs
actors inside the actor middlewares. A consuming task holds a `RedisLock` through the
`KafkaConsumerRepositoryMaker` and drives a consumer repository, which reads what the producers of
any process have sent. All of it runs on asyncio: code between two awaits is atomic, and every await is a place where another task, another process, a
failure or a cancellation comes in between. One action of a model is what happens up to and
including one await.

## 2. Modules

| Module | Models | State and actions against the code |
|---|---|---|
| `RedisLock` | the key behind `RedisLock` | `owner`, `ttl`; `SetKey`/`ExtendKey`/`DeleteKey` are `acquire`/`extend`/`release`; `Tick`, `Expire` the server's clock. A key whose session is gone is owned by `Orphan`. |
| `ConsumerMaker` (extends `RedisLock`) | `consumer_maker.py` and the repository it drives, for one partition | `pc[w]` names the await of worker `w`: `Acquire`, `Start*` are `__aenter__`; `Poll*`, `Resume` are `get_batches`; `HandleBatch` is the caller's body; `Checkpoint*` is `checkpoint`; `ExitCommit*`, `Stop`, `Release*` are `__aexit__` and `_close`. `position`, `processed` are the fetch position and `_processed_offsets`, `committed` the group's offset. Failures, cancellation and death are alternatives of the await they hit. |
| `PartitionDelivery` | the promise of both consumers: at-least-once and in order (`Spec`), with an offset that only moves on (`ForwardSpec`), with a bound on redelivery as well (`WindowSpec`) | abstract specification, no code of its own |
| `Producer` | `BaseKafkaProducerRepository` in one process, as the source of the partition below | `GetProducer`, `Started`, `StartFails` are `_get_producer` up to, and behind, its await; `Send` is one `send` of `create` or `bulk_create`. `Deliver`, `GiveUp`, `ProcessDies` are aiokafka's sender task and the process |
| `DirectConsumer` (extends `Producer`) | the repository used without the maker, with a threshold | `Ask` finds `threshold` and `limit`; `Poll`, `HandleBatch`, `Resume` are the loop, its body and what follows the yield; `Commit` is the commit a body may make, `Leave` the one behind the loop |
| `TaskQueue` | the registration message in the broker | `SendTask` is `send_task`; `TakeMail`, `SendMail`, `Acknowledge`, `ActorRaises`, `Requeue`, `WorkerDies` the life of a message under the actor's options |
| `Accounts` (extends `TaskQueue`) | register, login, refresh, verify | `Lookup`, `Insert`, `Commit`, `Enqueue` are the awaits of `AuthApp.register`, with their failures; `users` is the table with its unique index. `TooLong` are the passwords bcrypt refuses |
| `AtomicBlocks` | the promise of `Atomic`: a block's writes are committed in one step or dropped | abstract specification, no code of its own |
| `UnitOfWork` | `Atomic` and the session registry | `stack[t]` holds `in_transaction` of the blocks task `t` is in; `EnterAtomic` is `__aenter__`; `ExitInner`, `ExitCommits`, `ExitCommitRaises`, `ExitRollsBack`, `ExitRollbackRaises` are `__aexit__`. `session`, `pending`, `db` are what SQLAlchemy and PostgreSQL make of it |
| `RequestScope` (extends `UnitOfWork`) | the middlewares around a task's work, for requests and actors | `WrapAll`, `SetupTasks` compute the layers of an actor as the facade wraps them, `AddedMiddlewares` those of a request; `Open`, `Tag`, `LogStart`, `RunWork`, `EndWork`, `Close*`, `LogOutcome`, `Clear` go through them from the outside in and out again; `LogStartRaises` turns round before the work, `LogOutcomeRaises` fails behind the answer |
| `UrlMask` | the trie of `UrlMaskResolver` | `Register` is the constructor, `Request`, `Resolve` the walk. It has no specification of its own: `RequestLogging` composes it |
| `RequestLogging` (extends `UrlMask`) | the logging middleware's exchange | `Arrive`, `ResolveMask`, `Observe`, `ObserveMessage` up to the REQUEST record; `Receive` is `receive_wrapper`, `Send` is `send_wrapper`; `LogResponse`, `ApplicationRaises`, `FormatRaises`, `Cancel` the ends |
| `Cache` | one entry of `GenericCache` before a row that changes | `GetHit`, `GetNone`, `Create`, `Delete` are the cache's methods, with the error that `suppress_redis_errors` swallows as an alternative of each; `Load`, `Change` are what the callers do with the database |
| `Listing` | `QueryParams` and `FilterSet` under a client that walks the pages | `Count`, `Select` are `count()` and `select()`; `Offset`, `Filtered`, `Searched`, `Pages` the statement they build; `Insert`, `Delete` come in between |
| `ConsumerMakerProofs`, `DirectConsumerProofs`, `AccountsProofs`, `RequestScopeProofs`, `RequestLayersProofs`, `RequestLoggingProofs`, `CacheProofs`, `ListingProofs` | | theorems about the modules they extend (section 6) |
| `MCConsumerMaker`, `MCDirectConsumer`, `MCAccounts`, `MCRequestScope`, `MCListing` | | definitions for TLC: symmetry, small sets |

Definitions marked "Mutant" in a module are wrong variants of the definition that follows them. No
specification uses them; each shows that a property would notice the bug it describes.

What is external and modelled only as this code uses it: Redis (keys, expiry), Kafka and aiokafka
(log, committed offset, `getmany`, `offsets_for_times`, the producer's buffer), PostgreSQL, asyncpg
and SQLAlchemy (session states, unique index, LIMIT and OFFSET), dramatiq (retries, age limit,
requeue), Starlette (exception and server error middleware), the ASGI server (messages of a
request). The assumptions made are in the comments at the head of each module.

## 3. Runs

| Run | Instance | Shows |
|---|---|---|
| `consumer_general` | 2 workers, 4 records in batches of 2, the last of which cannot be deserialized; any lock expiry, 1 fault | `AtLeastOnce`: nothing is committed unhandled, whatever happens. `PoisonBlocks`: nothing behind the poison record is handled. `LockHoldBound`: what `extend` adds up to is bounded. `ImplementsDelivery`: refinement of `PartitionDelivery!Spec`. |
| `consumer_prompt` | 2 workers, 6 records in batches of 2, 2 faults; no live session's lock expires | `MutualExclusion`, `RedeliveryWindow` (at most two batches come again), `CommitMonotone`, `ImplementsWindow`, and under fairness `EventuallyCommitted` |
| `consumer_duplicates` | expiry while a batch is handled | violation: section 5 |
| `direct_consumer` | 2 coroutines, one of which sends two events in bulk; batches of 2, fill ratio 75 %, clock 0..3, threshold 1, one fault of the producer, its delivery, its process or the consuming task | `OneProducer`, `BulkInOrder`; `NothingSkipped`, `OlderBelowLimit`; `ImplementsDelivery`: refinement of `PartitionDelivery!ForwardSpec`, whatever the limit filters out; and under fairness `EventuallyHandled` |
| `direct_threshold` | the same | violation: section 5 |
| `accounts_safety` | 3 requests, one email, 3 passwords, one of them too long, 2 faults | `OneAccountPerEmail`, `TokensNameUsers`, `MailNamesAccount`, `AccountHasMail`, `MailBudget`, `LoginAfterRegister` |
| `accounts_liveness` | 2 requests, 2 faults, fairness | `RequestsEnd`, `MailSettles` |
| `accounts_errors` | 2 requests, no fault, no long password | violation: section 5 |
| `request_scope` | 2 tasks: two requests, two actors, a request beside the lifespan; nesting 2, 2 blocks, 2 writes, 2 exceptions | `AllOrNothing`, `FailedBlocksLeaveNothing`, `CommittedUnlessSwallowed`, `LogsCarryProperties`, `NothingLeftBehind`, `LogTellsOutcome`; `ImplementsAtomicBlocks`: refinement of `AtomicBlocks!Spec` |
| `request_logging` | every 3 routes of up to 2 segments over 2 literals and 2 parameters, in every order, every path of that length; with one route, every body of 2 pieces, whole or cut off, and 3 calls of `receive` | `MaskMatches`, `ResolvesPreferred`: the walk computes its definition without the trie; `ExchangeUndisturbed` |
| `cache` | 2 callers, time to live 4, jitter 25 %, lag 1, 2 writes | `BoundedStaleness`, `StaleForAReason`, and under fairness `EventuallyFresh` |
| `listing` | 3 rows, 3 times, 2 states, 2 names, pages of 1 and 2, every combination of filter (the empty list too), search and ordering | `PagesPartition`, `InsertsHideNothing`, `DeletesRepeatNothing` |

Deadlock is checked except in the accounts runs, where each request is made once and the system
stops when all are answered, and in `listing`, which stops when the walk is over and no row is left to
come or go. In `request_scope` the end of all tasks is a step of its own.

### Bounds

Every bound is a named constant: `MaxLog`, `MaxFaults`, `MaxTime`, `MaxRetries`, `MaxDepth`,
`MaxBlocks`, `MaxWrites`, `MaxLag`, `MaxLength`, `MaxRoutes`, `MaxPieces`, `MaxReceives`,
`MaxLoggedRoutes`. `MaxLimit` and `MaxBodyLogSize` are the code's own. Why they are enough:

- *Consumer.* A conflict needs two sessions; redelivery of more than two batches needs three batches
  and a failure: `consumer_prompt` has three full batches and two failures, so that a session
  that follows a failed one can fail too. The proofs cover every value of these bounds.
- *Producer and direct consumer.* Two coroutines race for the producer; a bulk of two has an order to
  keep, and its repetition after a lost answer puts a fourth record behind the three. A batch of two
  can be astride the threshold, before it or behind it, and the clock reaches every order of "sent",
  "asked" and "polled". The proofs cover every value.
- *Accounts.* A race needs two requests for one email; the third logs in or refreshes with what the
  first two made. Two passwords tell the accounts' owners apart; the third one is refused.
- *Unit of work.* Partial commit needs two writes in one block or in two; a second block in a task
  meets what the first left behind in its session; two exceptions let one be swallowed and a
  second follow.
- *Request logging.* Two routes of two segments already hide one another; the third shows the order
  of registration of equal shapes. What happens behind the resolver does not depend on the routes, so
  one is enough there. Two pieces have an order and a middle to leave at, one of them is below
  the size limit and two above it; three calls of `receive` are one for the body and two behind it.
- *Cache.* One caller may hold a copy while the other changes the row; the second write overtakes
  what the first one left. Time to live and jitter give three lives, each longer than the lag.
- *Listing.* Three rows fill a page of two and begin a second, or make three pages of one, and one
  that comes or goes shifts the rest. The contents include equal times.

## 4. Fairness

- `ConsumerMaker!PromptFairSpec`: the event loop runs a task that can run, the scheduler starts the
  consuming task again and again, and the Redis clock goes on, so each worker's own steps, acquiring
  and the clock are weakly fair. A poll that returns records is strongly fair: `getmany` waits
  `poll_timeout_ms` (10 s), longer than a fetch takes, so it does not miss records that are there
  for ever. Faults, cancellation and production are not fair, and finitely many faults happen.
  `PromptSpec` adds that a body is done before its lock expires, which the code cannot enforce and a
  deployment must see to by its choice of `timeout` and `batch_size`.
- `DirectConsumer!FairSpec`: the clock; the task's own steps, the task being run periodically; and the
  producer's sender task, which goes on delivering as long as its process lives. The coroutines
  that send need not send, and faults are not fair.
- `Cache!FairSpec`: the clock, and each caller's next step once it is on its way. No command has to
  succeed, nobody has to begin, and reads are not fair: an entry that is stale goes by itself.
- `Accounts!FairSpec`: a request that has begun and a live worker go on; arrivals and faults are
  not fair.

## 5. Where the code and what is said of it differ

1. *Duplicate processing* (`consumer_duplicates`). `docs/databases/KAFKA.md:52` says the lock
   prevents duplicate processing. It is extended only after a batch has been handled: if handling
   outlasts it, a second worker handles the same records at the same time. At-least-once delivery is
   not affected.
2. *Errors as 4XX* (`accounts_errors`). `docs/conventions/ERRORS.md:3`. Two registrations of one
   email that both pass the lookup: the unique index keeps the second out, but its `IntegrityError`
   has no handler and becomes a 500.
3. *Threshold* (`direct_threshold`). `share/kafka/consumer.py:145` says only older messages are
   included. When no message is young at the moment the loop begins there is no offset limit at
   all, and messages produced while it polls on are included.

Worth knowing, though nothing in the repository says otherwise:

- `ExitCommits` of an aborted transaction commits nothing and says nothing (the exception of
  `CommittedUnlessSwallowed`).
- When the rollback of a block raises, its session may stay in a transaction that belongs to nobody: the
  next `Atomic` of the same task takes itself for an inner block and neither commits nor rolls back.
  Nothing is half committed by that, because such a session takes no statement any more
  (`LostBlock` in the proofs).
- The REQUEST record is made from a template that contains the path: braces in a path are
  taken for fields, and making the record raises before the application is called. A body nested
  too deeply for `json.loads` raises `RecursionError` in the same place, and the body of an answer does so
  behind the answer, in place of the RESPONSE record (`FormatRaises`, `LogStartRaises`,
  `LogOutcomeRaises`).
- When closing the ClickHouse client raises, the PostgreSQL session is not closed and a request that
  was answered 200 is logged as 500 (the exceptions of `NothingLeftBehind` and `LogTellsOutcome`).
- The walk through the trie prefers a literal segment and never turns back, so a path whose literal
  branch is a dead end is not resolved although a registered route matches it (`ResolvesPreferred`
  says which one it finds).
- To the application behind the logging middleware, a client that leaves in the middle of the body of a
  POST, PUT or PATCH looks like one that has sent it all (`ExchangeUndisturbed`).
- A password of more than 72 bytes makes bcrypt raise: a 500, not a validation error.
- A producer whose start failed stays in the class attribute: every later send of the process waits.
  The key serializer turns the key `None` into `b'None'`, one partition for all events without a key.
- Pages over an ordering with ties may repeat and skip rows of an unchanged table (the premise of
  `PagesPartition`), and NULL keys are ties.
- A time to live of 0 or less silently turns a cache off; a negative `batch_size` is accepted.
- `setup_tasks` is idempotent only once it has succeeded: called again after it raised, it wraps the
  actors it had reached a second time.

## 6. Proofs

The theorems hold for every value of the constants (workers, requests, tasks, callers, senders, batch
sizes, times to live, routes, faults), from the assumptions named in the modules that declare them.

| Module | Theorem | States |
|---|---|---|
| `ConsumerMakerProofs` | `TypeCorrect` | `Spec => []TypeOK` |
| | `NothingLost` | `Spec => []AtLeastOnce` |
| | `PoisonStops` | `Spec => []PoisonBlocks` |
| | `HoldIsBounded` | `Spec => []LockHoldBound` |
| | `Exclusive` | `PromptSpec => []MutualExclusion` |
| | `AtMostTwoBatchesAgain` | `PromptSpec => []RedeliveryWindow` |
| | `OffsetNeverBack` | `PromptSpec => CommitMonotone` |
| | `DeliversAtLeastOnce` | `Spec => ImplementsDelivery` |
| | `DeliversInWindow` | `PromptSpec => ImplementsWindow` |
| `DirectConsumerProofs` | `TypeCorrect` | `Spec => []TypeOK` |
| | `OneProducerEach`, `BulkArrivesInOrder` | `OneProducer`, `BulkInOrder` |
| | `NoneSkipped`, `OlderOnlyBelowLimit` | `NothingSkipped`, `OlderBelowLimit` |
| | `DeliversForward` | `Spec => ImplementsDelivery` |
| `AccountsProofs` | `TypeCorrect` | `Spec => []TypeOK` |
| | `OneAccount`, `TokensHaveUsers` | `OneAccountPerEmail`, `TokensNameUsers` |
| | `NoMailBeforeAccount`, `MailOrNoSuccess`, `MailsAreBudgeted` | `MailNamesAccount`, `AccountHasMail`, `MailBudget` |
| | `ReadYourWrites` | `Spec => LoginAfterRegister`, an action property |
| `RequestScopeProofs` | `BlocksAreAtomic`, `NothingOfFailedBlocks`, `ReturnedBlocksAreCommitted` | `AllOrNothing`, `FailedBlocksLeaveNothing`, `CommittedUnlessSwallowed` |
| | `BlocksTakeEffectAtOnce` | `Spec => ImplementsAtomicBlocks` |
| `RequestLayersProofs` | `TypeCorrect` | `Spec => []TypeOK` |
| | `PropertiesAreCarried`, `NoneLeftBehind`, `OutcomeIsTold` | `LogsCarryProperties`, `NothingLeftBehind`, `LogTellsOutcome` |
| `RequestLoggingProofs` | `TypeCorrect` | `Spec => []TypeOK` |
| | `MasksMatch`, `WalkIsPreference` | `MaskMatches`, `ResolvesPreferred` |
| | `Undisturbed` | `Spec => []ExchangeUndisturbed` |
| `CacheProofs` | `TypeCorrect`, `StalenessBounded`, `StalenessExplained` | `TypeOK`, `BoundedStaleness`, `StaleForAReason` |
| `ListingProofs` | `TypeCorrect` | `Spec => []TypeOK` |
| | `PagesPartitionRows` | `Spec => []PagesPartition` |
| | `NoneHiddenByInserts`, `NoneRepeatedByDeletes` | `InsertsHideNothing`, `DeletesRepeatNothing` |

The arguments:

- *Consumer.* `AtLeastOnce` (all offsets below `committed` are handled) is not inductive: a commit
  takes its offset from a session. `DeliveredInv` adds that what a session has recorded in
  `processed`, and the start of its batch, also have only handled records below them, and that a
  session that is past its body has handled its batch; every action either leaves these alone or
  establishes them from one another. `BlockedInv` keeps every session's position in front of the
  poison record. For the window, `PromptInv` adds that a session in progress owns the lock (so there
  is at most one), and `WindowInv` that what it has handled lies within two batches of what is
  committed: one recorded and not committed, one handled and not recorded. For `LockHoldBound`,
  `HoldInv` ties the key's life to the session's position: every extension has a batch behind it.
  The refinement theorems map the abstract state to `logEnd`, `committed` and `handled`; each
  concrete step is an abstract step or leaves these three unchanged.
- *Producer and direct consumer.* `MadeInv`: a producer is made only where there is none.
  `SendingInv`, `Whereabouts` and `OrderInv`: an event handed over is in the log, in the buffer or
  dropped, and what is in the buffer is behind what came before it. `LimitInv` and `PrefixInv`: what
  is handled below the fetch position is a prefix up to the first poll that meets the limit; from
  there on nothing is admitted, so the loop ends before the hole matters. For the refinement,
  `AheadInv`: neither the fetch position nor a recorded offset is ever behind the group's offset, so
  a commit only moves on, and `BatchInterval`: a batch is a gapless piece of what follows, however
  much the limit cuts off behind it. Only `HandleBatch`, `Commit`, `Leave` and a delivery change the
  abstract state; a death loses what was recorded and changes none of it.
- *Accounts.* `RequestInv`: the await a request is at tells what it has done. `RowsMatch`: a row is
  the row of the registration that inserted it. `OneInDoubt`: of the inserts of one email at most one
  is undecided, and none beside a committed row. `RegisteredHaveRows`, `MailIsSent`, `SentSoFar` and
  `LossesAreFaults` relate answers, mails and deaths to the rows.
- *Unit of work.* `StackInv`: only the last block of a task can be open, and blocks are open only
  while it works. `SessionInv`: the session is begun and holds that block's writes, or is aborted
  and the block has failed, or is what a COMMIT or a rollback that raised has left behind and takes no write.
  `OutcomeInv`: the writes of a block are all in the database or none is, as its outcome says.
  For the refinement, the abstract `blocks` and `db` are the history and the table: a task's last
  block is open as long as it is inside any, so entering and leaving inner blocks stutters, and by
  `SessionInv` what the outermost one commits is exactly the writes of that block, or nothing if a
  statement raised.
- *Layers.* `LayersInOrder`: the layers that `WrapAll` and the calls of `add_middleware` make are the
  same four in the same order; the recursion of `WrapAll` is unfolded level by level. `TaskInv` then
  says by the layer a task is in what has happened to it: whose log properties are open, what is
  closed, whether it was answered, and that a logged outcome agrees with the exception still on its way.
  A logging that raises records nothing, so what it does to the exception concerns no record; on the way
  in it meets a task that has nothing to close yet, which `ClosedInv` says of every layer before the work.
  The types of `UnitOfWork` bound the blocks and writes of all tasks together; `Bounded` counts them,
  and a task's share is a subset (`CountsKept`: a step adds at most one).
- *Resolver.* `TrieInv`: the nodes are the prefixes of the registered routes' keys, and a node's mask
  is the last route that ends there. Two routes that compete differ in a first segment, found by
  well-founded induction, where the walk took the literal.
- *Exchange.* How many messages the server has handed out (`Arrived`) decides what the middleware has
  observed (`StageInv`) and what the application has read (`ReadInv`): all or nothing of an observed
  body, what has arrived of another. What was read is a flattened sequence; `FlattenAppend` says
  what one more message adds to it: the recursive function behind it exists, and two of them agree as
  far as their sequences do, each by a least counterexample.
- *Cache.* The time for which an entry has been out of date and the life it has left never grow
  together: a tick takes from the one what it adds to the other. When it is stored its state is no
  older than the lag.
- *Listing.* The rank of a row is the number of selected rows before it. When no two rows have the
  same key its place on the pages is its rank (`RankInOrder`), and a page delivers the ranks from
  `Offset` on (`PageRanks`). A row that comes in lowers no rank, so a row that is still missing stays
  ahead of the walk (`NoneMissed`); one that goes raises none, so a row that was received stays behind
  it (`NoneTwice`). `Rows` may be infinite; the table a walk begins with is finite (`Init`).

Each invariant was checked with TLC on the instances of section 3. Every invariant, action property and
refinement of the passing runs is stated by a theorem. The `TypeOK` of `Cache`, `DirectConsumer`,
`Accounts`, `RequestScope`, `RequestLogging` and `Listing` are proved and in no run: there they would
repeat what the theorem says for every instance.

Only model-checked: liveness (`EventuallyCommitted`, `EventuallyHandled`, `RequestsEnd`, `MailSettles`,
`EventuallyFresh`), which with `ENABLED` is outside what the proof system handles, and the three
violations of section 5, which are not theorems.

## 7. Plan

In the order of importance, what is done marked with x:

1. [x] `RedisLock`, `ConsumerMaker`, `PartitionDelivery`: the partition consumer, its refinement and its proofs.
2. [x] `TaskQueue`, `Accounts`: accounts, tokens and the registration e-mail.
3. [x] `UnitOfWork`, `RequestScope`: transactions and the scope of a task.
4. [x] `Producer`, `DirectConsumer`: from the coroutine that sends to the task that handles.
5. [x] `UrlMask`, `RequestLogging`: the resolver and the exchange it is resolved for.
6. [x] `Cache`: `GenericCache` with suppressed errors against a row that changes.
7. [x] `Listing`: offset and limit under a client that walks pages while rows come and go.
8. [x] Proofs of every safety property and refinement these runs check (section 6).
9. [ ] An abstract registry of accounts, which `Accounts` implements: a registration takes effect in one step or not at all.

What is left besides: `run_task_sync`, delays, cron jobs and the scan of the directories of the facade;
a second `get_batches` on the same repository.

No module uses `RECURSIVE`, so that all of them can be proved about.

## 8. Not modelled

- *Raw SQL adapters, probes* (partly): one statement in an `Atomic` block or one ClickHouse query, both
  of which `UnitOfWork` and `RequestScope` have; the probes only run one of each.
- *Body formatter* (partly): its size limit is in `RequestLogging`; decoding and parsing keep no state, and no
  property here depends on them. The same goes for CORS, JSON and msgpack. A
  record that cannot be deserialized is modelled (`Poison`).
- *NULL in a listing* (partly): a row without a key sorts like one with the greatest key, ties included, and
  needs no value of its own in `Listing`; a filter or search over a column that is NULL, which
  matches no row, is left out.
- *Password hashing and JWT encoding*: a hash is its password, a token its type, subject and expiry.
- *Settings, logging and Sentry configuration, class validation in `__init_subclass__`, SQLModel
  bases*: evaluated once, at import; their outcomes are the assumptions on constants.
- *Scheduler, management commands, deployment script, migrations*: start-up and generated code that
  hands control to APScheduler, uvicorn, dramatiq or alembic.
- *Task discovery, `run_task_sync`, delays, cron* of the facade: start-up, or paths that bypass the
  broker.
