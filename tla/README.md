# A TLA+ model of frameless

This directory models the parts of `go.llib.dev/frameless` in which goroutines
meet or several resources have to change together: the synchronisation
primitives of `pkg/synckit`, the in-memory store, event log and queue of
`adapter/memory` that the other packages are tested and often run on, the
transactions of `pkg/txkit` with what is built on them, the runtime of
`pkg/workflow`, and `pkg/cache`. It holds TLA+ modules translated from the
source, TLC configurations that check them on small instances, and TLAPS proofs
for instances of any size. `PROJECT.json` lists components, runs, mutants, the map
from definitions to source lines, findings, hazards and theorems.

## The system

| Part | State | Operations | What is hard |
|---|---|---|---|
| `synckit.Limiter` | `held`, `limit`, a condition variable | Lock, TryLock, Unlock, SetLimit; a wrapper that moves the limit | a wake-up whose slot someone else takes; a limit lowered below `held` |
| `synckit.RWLockerFactory` | a table of reference-counted locks | RLock, Lock, RUnlock, Unlock per key | an entry that is removed while another goroutine comes for it |
| `synckit.Group`, `synckit.Go` | cancel functions by id, a WaitGroup, errors, a panic, a channel | Go, Wait, Done, Cancel | members ending in five ways while others wait and cancel; ids used again |
| `synckit.Phaser` | `done`, `len`, a `sync.Cond` with a changing Locker | Wait, Signal, Broadcast, Finish, Len | a signal between the notify list and sleep; the caller's own locks |
| `synckit.Fan`, `synckit.Broadcast` | channels, a buffer of returned messages, `closed` | Publish, Subscribe, ACK, NACK, Close, Cancel | unbuffered hand-over; redelivery; closing under publishers |
| `memory.Repository`, `Memory`, `MemoryTx` | tables; overlays of values and deletions | CRUD, Save, Batch, BeginTx, CommitTx, RollbackTx | commits that go key by key; nested transactions |
| `memory.Queue` | messages with the subscription that took them; buffers of transactions | Publish, Subscribe, ACK, NACK, Purge, transactions | one owner per message; replies in the message's transaction; blocking Publish |
| `memory.EventLog`, `EventLogRepository` | a log; the events of open transactions | CRUD, Save, BeginTx, CommitTx, RollbackTx, Compress | commits event by event; look, then append; a log rewritten under open transactions |
| `txkit`, `teardown`, `comproto` | nested transactions in a context, steps to undo | Begin, Commit, Rollback, OnRollback, Finish | a rollback of an inner level whose error is swallowed; contexts that expire on the way |
| `memory.FanOutExchange` | queues | Publish, Purge | several commits in a row |
| `migration` | recorded steps, and their effect, in two places | Migrate, MigrateDown | a crash between two commits |
| `workflow.Runtime`, with `memory.LockerFactory` | the history of each process, an execution queue, process locks | Bind, Schedule, execution, Replace, Sleep, Spawn, Join, Complete | double delivery, retries, locks that are busy for a moment, crashes between a step and its record |
| `cache` | hits and entities in a second repository | reads, writes through, refreshes, invalidation | two steps for everything and no lock |
| `tasker` | tasks; a scheduler with stored state | Sequence, Concurrence, Repeat, shutdown, Schedule | shutdown against running tasks; two schedulers |
| `resilience` | a window of events | RateLimit, Retry | the edge of the window |
| the rest | | | pure functions, I/O, or the behaviour of an external server; see `PROJECT.json` |

Calls between the parts: `workflow.Runtime` takes a process lock
(`memory.LockerFactory`), appends to an event repository (`memory.Repository`),
schedules through a queue (`memory.Queue`), spreads changes through
`synckit.Broadcast` and runs its workers in a `synckit.Group`. `memory.Queue`
keeps its transactions in contexts with `txkit`. `tasker` and `cache` use
repositories and locks through the ports.

## Modules

Each module takes the methods of one component and has one action for every
section of code that runs under one acquisition of the component's mutex (or is
one atomic operation), because that is where another goroutine can come in
between. What a goroutine does without touching shared state joins the section
before it. Definitions have the names of the source where that is possible.
Definitions whose comment begins with "A bug" are wrong versions that the
mutants of `PROJECT.json` put in place of the right ones; nothing else uses them.

* **Limiter** (with **Semaphore**, **SynckitProofs**, **MCSynckit**).
  `Lock` parks on the condition variable if there is no room and re-checks after
  each wake-up; a parked goroutine that is named by Signal is "woken" until it
  has the mutex again. `SetLimit` first compares without changing anything and
  then stores and broadcasts. `LimiterWithCeiling` sets the limit before every
  call. `Semaphore` is the abstract counting semaphore with a movable ceiling:
  a slot is granted only while there is room, and given back.
* **RWLockerFactory** (**SynckitProofs**, **MCSynckit**, **MCRWLockerFactory**). The
  table maps a key to a lock; `users` is its reference count. The count goes up
  under the table's mutex and down without it, and a goroutine that counted down
  to zero removes the entry of the key in a later step. `ReadOptimised` lets a
  reader of an unused key hold the table's read lock instead; a writer that
  waits for the table then keeps new readers out.
* **Group** (**SynckitProofs**, **MCGroup**). A member runs, returns in one of
  five ways, stores its outcome, cancels the others if it failed and the group
  is not isolated, removes its id, signals `Done` and leaves the WaitGroup.
  `Wait` has the fast path of an empty group and the slow path that takes the
  errors out. `Go` may come at any time in a group with members, also after it was
  cancelled: ids are then given a second time, and the epilogue of an earlier
  member deletes the entry of the later one (`lost`).
* **Phaser** (**PhaserProofs**, **MCSynckit**). `Wait` takes the mutex, looks at
  `done`, enters the notify list, gives up the caller's lockers and the mutex,
  sleeps, and takes the lockers again one by one.
* **Exchange** (**SynckitProofs**, **MCExchange**). A Fan or a Broadcast; a
  message goes over an unbuffered channel, is acknowledged or put back, and can
  come out of the buffer. `bufferShift` asks for the write lock with the read
  lock in its hands, as the code does: a consumer that finds a message in the
  buffer stops there. Specifications that are extended together have names of their
  own: `FactorySpec`, `GroupSpec`, `PhaserSpec`, `ExchangeSpec`, `MemorySpec`.
* **MemoryTx** (**MemoryTxProofs**, **MCCommits**). One table, clients with
  chains of overlays. Inside of a transaction an operation is one step; outside,
  and in a commit, each access to the table is a step. Values carry the client
  and whether they were written in a transaction, so that what leaks can be
  recognised.
* **Queue** (**QueueProofs**, **MCQueue**). The messages, the subscription that
  took each, and the buffer of the transaction that comes with a delivered
  message. `dbPublish` stamps a message before it locks the queue, so that a
  message may come in behind younger ones, and `rIter` sorts the queue in one
  critical section and walks through it in the next. A walk is one step: while
  it has the read lock nobody appends or releases a message. Next and Close NACK the
  message of the last round whether the handler has settled it or not (`drop`):
  `release` leaves it alone if another subscription has it by then. The commit in
  ACK fails when the handler has rolled back a transaction it began inside of the
  message's (`RollbackInside`, `AckFails`): the message is released.
* **EventLog** (**EventLogProofs**, **MCEventLog**). The log of an
  EventLogRepository and the events of the transactions of each client, nested
  ones included: one sequence for each client (`txs`), and where each of its
  transactions begins in it (`begins`), which is what `EventLogTx.Events` puts
  together from the parents. An operation looks and appends in two steps; a commit
  appends event by event and checks the context each time. Nobody looks into a
  transaction that is being committed, so that an event moves from it to its
  parent; a nested one moves when its transaction begins behind it. Compression
  replaces the log by one Create for each entity.
* **Transactions** (**TransactionsProofs**, **MCCommits**, **MCTransactions**). One goroutine with a stack of calls:
  use cases that call use cases, FanOutExchange.Publish, Migrate and MigrateDown.
  A transaction is found by its *type* in the context, its levels are the
  transactions of that type in the chain of contexts, and the outermost one holds
  the changes. Each deferred `FinishOnePhaseCommit` is one step. A context can be
  cancelled, a driver fail and a migration die between any two steps.
* **Workflow** (**WorkflowProofs**, **MCWorkflow**). The histories of processes, the free entries of
  the execution queue and what each worker does with the one it took: try to lock
  the process, go through the steps of its last definition, skip the ones in the
  history, do the first that is not, record it, unlock, and then acknowledge,
  retry or queue again. What a worker publishes goes out with the ACK of its
  entry, as in Queue. Spawn binds and schedules a child, after it has locked the
  child for a moment to see whether it runs. A Join scans the history, and stops at
  the event of any other Join. The history variable `withdrawn` has the children
  whose schedule went with the transaction of a cancelled worker.
* **Cache** (**CacheProofs**, **MCCache**). Source, cached entities and hits,
  and one step for each access to one of them, by clients and by the jobs of
  RefreshBehind. The history variable `raced` has the keys that an overlap of
  operations, a fault or a change outside of the cache may have left stale,
  until they are invalidated.

External code is modelled from its use: `sync.Mutex`, `sync.RWMutex`,
`sync.Cond`, `sync.WaitGroup`, channels and contexts.

## Runs

Each run checks the safety and the liveness properties of one module together.
Two runs take components that share no state, and in a behaviour of which one is
used, chosen at the start: interleaving what cannot meet would show nothing more.
These are `synckit` (MCSynckit: Limiter, RWLockerFactory, Phaser) and `commits`
(MCCommits: MemoryTx, Transactions). The type invariant of a module is the first
conjunct of one of its safety properties; those of Limiter and Phaser are proved
instead, and so is that `held` counts the holders of a Limiter.

| Run | Instance | What it shows |
|---|---|---|
| `synckit` | 3 goroutines. Limiter: limits -1, 0, 1, 2. RWLockerFactory: 1 key, both settings of ReadOptimised. Phaser: 2 lockers | Limiter: no goroutine sleeps while a slot is free that nobody was woken for; it implements `Semaphore`; a goroutine does not wait for ever for room that stays. RWLockerFactory: no entry outlives its last user; a lock counts exactly its users, all of one key; a lock that is asked for is granted. Phaser: nobody is left on the list when it is finished; `Len` counts only listeners; Wait returns with the caller's lockers; Finish releases everybody. |
| `rwlocker_exclusion` | 2 goroutines, 1 key, no ReadOptimised | **Violated**: two write locks of one key at once. |
| `group` | 2 members, 2 waiters, 1 receiver | Every error is reported by exactly one Wait; Cancel reaches every running member, and a failure stops the others, also in a group that was cancelled before, but for members whose entry another one deleted; Wait returns. |
| `group_cancel` | the same | **Violated**: a running member that Cancel no longer reaches. |
| `exchange` | 2 publishers, 2 consumers, 1 closer; Fan and Broadcast | No copy of a message is lost or doubled; nobody sends on a closed channel; Publish returns after Close; after Close a subscription ends unless a message was put back. |
| `commits` | MemoryTx: 2 clients, 2 keys, one nested transaction. Transactions: 1 goroutine, calls 3 deep, 4 transactions, 2 queues, 2 migration steps, 2 faults | MemoryTx: nothing of a transaction that is open or rolled back gets into the table; a transaction reads what it wrote; a commit leaves in the table what the transactions made of a key. Transactions: a use case has all of its registered changes or, when it fails, none; they are undone last in, first out; a fan-out that succeeded has reached all queues, and one that failed without a fault none; a recorded migration is in effect, and Migrate and MigrateDown leave recorded what they promise. |
| `fanout` | the Transactions of `commits` alone | **Violated**: a Publish that returns an error with the message in one of two queues. |
| `queue` | 2 publishers, 1 reply, 2 subscriptions; a FIFO, a Volatile sorted and a Blocking LIFO queue | A message is marked as taken exactly while one subscription has it, also when the NACK of an earlier round comes late; it leaves by ACK or Purge only; replies appear once and with the ACK; a blocking Publish returns after the message was handled; a message is handled in the end. |
| `eventlog` | 2 clients, each with transactions or one with nested ones; 2 ids, 3 events; with and without compression | A commit publishes all its events in order, or their first part when the context is cancelled meanwhile; a rollback leaves nothing; Create did not find and Update and DeleteByID did find their entity unless somebody else wrote in between; compression changes nobody's view. |
| `workflow` | 2 workers, a process and its child, 6 definitions, 1 fault, 1 retry | A step is recorded once; a participant runs again only after a fault; a first Join waits for its children, and a later one at least for an earlier one; a completed process has done everything; a scheduled process is not forgotten, and completes. |
| `workflow_stages` | 2 workers, a process and two children, each with a Join after it | **Violated**: a worker past the second Join while the second child has not completed. |
| `cache` | RefreshBehind with 1 client and 1 id; 2 clients and 1 id; 1 client and 2 ids; 2 writes, 1 or 2 faults | FindByID answers what the source has, apart from ids that a race or a fault touched since they were last invalidated; a hit has no ids without entities; RefreshBehind brings stale entities up to date. |

### Bounds

The races of these components are between two goroutines; a third one lets a
goroutine be overtaken, and be woken for a slot or an entry that is no longer
there. So two or three actors of each kind are used, and the only counters are
bounded by the actors: `Tasks` start once, `Publishers` and `Roots` publish once,
the identities in `Locks` are one per goroutine and one per key and are used
again when unreachable. Named bounds are `MaxChains` and `MaxNesting` (and `Nesting`,
per client) of MemoryTx: one top-level transaction for each client, two levels
for one of them, which is enough to have a merge into an outer transaction and a
rollback of an inner one next to a foreign commit. `MaxVersion` (EventLog, Cache)
bounds the changes: three events make a transaction with two of them and one of
somebody else's, two writes a stale and a fresh entity. Transactions has
`MaxData`, `MaxTx` and `MaxDepth`: three levels are the least with an outer, a
middle and an inner one.
Workflow has `MaxEntries` entries of a process told apart (two: one is being
worked on while another comes), `MaxSchedules`, `MaxRetries`, `MaxUses`
(definitions a process is given, the first one and those of its Replace steps) and
`MaxLen` (steps of a definition). The definitions of the run have a child that is
waited for by name, a Replace in front of a Spawn and its Join, and a Join in
front of that Replace, so that the later Join meets with the event of the earlier
one; those of `workflow_stages` are the ones of `TestJoin_multiStagesJoin`.
`MaxFaults` and `MaxCancels` bound the failures and cancellations; one or two of
them already make the paths in which the handling of an error fails too. Settings
of a component (`ReadOptimised`, the kind of exchange, the fields of a Queue,
`CompressEventLog`, `RefreshBehind`, the definition of a process) are variables that
Init chooses and no step changes, so that a run covers them all. Symmetry is used
for the keys of MemoryTx and EventLog only, where no liveness property is checked.

`CHECK_DEADLOCK FALSE` is set where the system may stop: a goroutine that
panicked in `Unlock`, members that have all been started, exchanges that are
closed (and the self-deadlock of `bufferShift`), processes that have completed,
bounds that are used up.

### Fairness

A goroutine that can go on does so in the end (Go's scheduler), and a user's
function, handler or critical section ends. Nobody has to call anything: the
actions that begin a call have no fairness. Strong fairness is assumed for a
goroutine that waits for a `sync.Mutex` or `sync.RWMutex` (RWLockerFactory,
Phaser), since Go's locks starve nobody; and in Queue for ACK, since without a
consumer that acknowledges in the end a message may be given back for ever.
Workflow assumes that workers go on and that the condition of a Sleep comes true;
`Completes` excepts behaviours in which entries meet with a locked process for
ever, because a parent locks its child for a moment each time it is executed and
nothing in the code keeps that from coinciding with the child's entries; and no
definition of the run has a Spawn behind a Join of all children (see below). Cache
assumes that operations and jobs go on and that every cached id is asked for again
and again, since RefreshBehind acts on requests only.

## Findings and known deviations

Four disagreements of the code with its tests and comments are the subject of a
run:

* `RWLockerFactory` counts users down outside of its mutex and then deletes
  whatever entry the key has: a lock that is held can be removed from the table,
  and the next caller gets a second one. In `rwlocker_exclusion` two goroutines
  hold the write lock of one key, where "write lockers for the same key will hang
  when they try to acquire the lock" (synckit_test.go:105).
* `Group.Cancel` forgets all ids while the members still run; when one of them
  ends it deletes its id, which a member started later may have got
  (synckit.go:690). That member runs on out of reach of Cancel and of the failure
  of others (`group_cancel`), although "If the Group is not empty, Go may happen at
  any time" (synckit.go:633). The properties of `group` except such members.
* After one Join any later Join of a process does not wait, because `joinAll`
  stops at, and `joinChild` takes for its own, the EventJoin of the first one
  (spawn.go:349, 293), although "the second Spawn+Join{} is reached, but bar is
  still blocked at stage2 -> suspend" (spawn_test.go:581; `workflow_stages`). That
  test passes because its first Join is executed again, and then waits for bar.
* `FanOutExchange.Publish` commits queue by queue (pubsub.go:540): one that is cut
  short leaves the message in the queues that committed first, where the comment
  says "It will either all succeed or all fail together" (pubsub.go:520; `fanout`).
  `FanOutCommits`, of the run `commits`, is what does hold.

The following came up while modelling. The models have the steps as the code has
them, and the passing runs say in their properties what they except.

* `Group.sigDone` offers a value to the receivers that are blocked at that moment
  and never closes the channel (synckit.go:728): one that is late waits for ever.
* `exchangeBase.bufferShift` locks for writing while it reads (exchange.go:100),
  so that the consumer that finds a message in the buffer blocks for ever, against
  "the message is redelivered until it is acknowledged" (exchange_test.go:388).
  What `exchange` shows of conservation and closing holds with this step.
* A cancelled subscriber of a Broadcast cannot leave while a Publish that holds
  the read lock of the register waits for it (exchange.go:55); Close frees both.
* A first Join of all children, executed again, also waits for the children that
  were spawned behind it. If a worker stops between the commit of such a Spawn and
  the schedule of the child (spawn.go:88-92), the child has no entry and nobody
  gets to its Spawn again: the process waits for ever. `Completes` is checked for
  definitions without a Spawn behind such a Join.
* Errors of Bind and forwardVars inside Spawn are in variables that shadow the one
  the deferred commit looks at (spawn.go:100): a child may be bound without its
  variables.
* A child that its parent does not join can be forgotten together with the
  parent's own entry: q3 spawns q, q spawns p without a Join and completes, and q's
  worker is cancelled before its ACK. The NACK takes back the schedule of p and
  gives back q's entry; if that is taken while q3 looks for a moment whether q
  runs, the lock is busy, and ErrBusy is answered with an ACK. The same happens to a
  child whose parent's definition is replaced right after the Spawn, as the replay
  of the new definition does not repeat it. `NotForgotten` excepts just these
  children (`withdrawn`), and only when no parent of theirs is uncompleted.
* A transaction in a context is found by its type (txkit.go:282): two queues of the
  same data share it, and a handler that publishes to another queue with its
  message's context publishes into the transaction of its own queue.
  `FanOutCommits` and `FanOutAllOrNone` are about calls outside of such a
  transaction.
* After an inner level was rolled back OnRollback refuses (txkit.go:107), so that a
  use case that swallowed the error cannot register further changes;
  `AllOrNothing` is about registered ones.
* The two commits of a migration are not one: a crash or a failure between them
  leaves an effect that is not recorded (`MigrationRecorded`: never the other way round,
  unless somebody migrates down).
* A commit of an EventLog that is cut short by its context stays half done, and can
  no longer be rolled back (EventLog.go:230).
* `memory.Repository.Create` looks and sets in two steps (Repository.go:81).
* In the cache a "nothing found" is answered before a refresh is started, and a
  refresh removes nothing, so that neither an entity created behind the cache's
  back nor one deleted there is noticed without an invalidation, where the comment
  of RefreshBehind says "This ensures eventual consistency" (cache.go:57);
  `Refreshed` is about entities that are cached and exist. Update and Save leave
  the old entity cached, and return nil, if the context is cancelled after the
  source was changed (cache.go:487).

## Proofs

TLAPS proves the following for every value of the constants that satisfies the
named assumptions. The assumptions are those the code justifies: finitely many
goroutines (or members, publishers, consumers), values for "none" (`None`, `NoHit`,
`Untouched`) that are nothing else, at most one reply to each message (`ReplyTo` is
injective: a handler of the model publishes once), and enough lock identities in
RWLockerFactory (`LocksAssumption`: one per goroutine and one per key, so that
`new` always finds one that nobody can reach). Every invariant below was checked by
TLC before it was proved.

* `SynckitProofs`, of Limiter: `TypeCorrect`, `HeldIsCounted`, `WakeupsNeverLost` and
  `ImplementsSemaphore`. The inductive invariant is the conjunction of the type
  invariant, "held is the number of holders" and "if somebody is parked, no more
  slots are free than goroutines are woken". The last is not inductive without
  the second: Unlock frees a slot and wakes one, and a woken goroutine that finds
  no room parks again. The refinement maps the holders to the semaphore's and
  everything else to stuttering.
* `SynckitProofs`, of RWLockerFactory: `TableStaysExact`. `TableExact` adds up users; that an
  unlock takes one away and a lock adds one needs to know which goroutines have a
  lock (`Phases`), and that the one that is about to remove an entry, and is no
  user any more, has the key of the entry (`OwnKey`). Mutual exclusion, which is
  violated, is of course not among the results: a lock can lose its entry.
* `SynckitProofs`, of Group: `ErrorsNeverLost` for every setting of the flags. The invariant
  adds that an id belongs to a member that is not past its epilogue (`Owned`); the
  smallest free id of `nextID` exists because members are finitely many and
  natural numbers are well-founded. `CancelReaches` and `FirstErrorStops`, for
  members that start whenever Go lets them, rest on `Reached`: who runs with a live
  context has its id, unless another epilogue has deleted it, which takes that the
  id was given twice; before the first Cancel every member that is not past its
  epilogue has its id, so that no epilogue deletes another one's.
* `PhaserProofs`: `TypeCorrect`, `LenCountsListeners`, `FinishStrandsNobody` and
  `LockersComeBack`. The invariant adds that a goroutine between its second look
  at `done` and its sleep has the mutex, which is why Finish cannot come in there,
  and that `len` is the number of sleepers, without which it could not be shown to
  stay a natural number. For the lockers, a goroutine has the first `pos` of its
  list and no other (`LockersInv`); lists may share lockers.
* `SynckitProofs`, of Exchange: `NoCopyLost` and `NoSendOnClosed`. The copies of a message are
  counted as a set of consumers and a set of positions of the buffer, which a send,
  a return and an ACK change by one element each; a consumer in a round has a
  message (`HasMessage`). That a Broadcast sends on open channels only is inductive
  by itself: whoever unregisters a channel has the write lock, and there is no
  reader then.
* `MemoryTxProofs`: `NothingUncommitted`, `OwnWritesSeen` and the action property
  `CommitsArePublished`. What an overlay holds carries the tag of the current
  chain of its client (`OwnTags`), tags only grow (`Past`), and their parity tells
  whether a chain is open (`Chains`): so what is in the table is of the past, or of
  a commit that is going on. For the reads, a commit moves a key one level down at
  a time, and at every depth of overlays the lookup finds the same before and after
  (`OwnReads`, also in the middle of a commit); when the outermost level is empty
  that is the table.
* `QueueProofs`: `OneSubscriptionPerMessage`, `NothingLost`, `RepliesComeWithAck`
  and `BlockingPublishHandled`. For the first, a subscription in a round
  knows its message, one that begins the next has dropped the last one (the second
  NACK is before, not after, the next take), and the queue is a sequence of messages. The others rest on a
  ledger: in the queue are, once each, the messages published and not settled; the
  state of a publisher tells whether its message was published; and the reply in
  the buffer of a round was not, as long as the round may end with a NACK.
* `CacheProofs`: `CacheAnswersAsSource` and `HitsStayBacked`. The properties are
  about keys that nobody is busy with; the invariant must speak of operations on
  their way. It does for keys that are `Quiet`: not raced, and no operation that is
  busy with the key has met another one of which one changes it. For such a key the
  cache is right, or exactly one writer is between the source and the cache and has
  in its hands what sets the cache right; what a reader has got from the source is
  what the source still has. It also takes that operations that meet know of each
  other (`Meets`), so that a key that is left quiet had one operation at a time, and
  that an invalidation that met nobody has found everything about its keys
  (`TakesAll`), whatever races there were before it.
* `EventLogProofs`: `TransactionsCommitWhole`, `OperationsAreSerial` and the action
  property `CompressionIsUnseen`, for any nesting and any number of events. The
  properties speak of the log, but an event has been in transactions before, and
  what an operation may do depends on all that its client sees. So the inductive
  invariant (`IInv`) says of `EventsInContext` what they say of the log: the
  versions of a client are there in the order it made them (`Order`), each was
  possible when it came unless somebody else wrote in between (`SerialOK`), what a
  commit has appended comes before what it has yet to append (`CommitOK`), and what
  a transaction did that is over is there or not (`EndedOK`). Then a commit, which
  moves the first event of a transaction over the place where its parent ends,
  leaves all that its own client sees as it was, and for the others one event comes
  in before their own whose version is none of theirs (`Owned`). For compression,
  the view of a sequence is the last event about each id (`ViewIs`), and that of two
  sequences one after the other depends only on the view of the first (`ViewCat`).
* `WorkflowProofs`: `StepsRecordedOnce`, `ParticipantsCalledOnce`,
  `StepsAreNotSkipped` and `ProcessesAreNotForgotten`, all for any definitions. They
  rest on `Base`: who executes a process has its lock and who has a
  lock executes the process, or looks for a moment whether it runs; a worker follows
  the last definition of its process, which only the holder of the lock can
  change; and what it is about to record is not recorded. From that a step is
  recorded once (`OnceInv`), and the calls of a participant that is not recorded
  are no more than the faults, counted with the worker that is calling it
  (`CallsInv`). For a skipped step the invariant is that all steps before the one a
  worker is at are done, and all steps of the last definition of a process that has
  completed (`DoneInv`). For a Join to be done means that its children have completed
  or that another Join got its event before (`Preceded`), and one with an event is
  done, whatever was spawned since (`JoinEvents`). For a forgotten process it is that
  whoever is bound and has not completed is in an entry that is not about to be
  acknowledged as busy, or scheduled by a worker with its own entry (`Carries`), or
  has a parent that has recorded the Spawn, has not completed, and of which every
  execution has the Spawn before it (`Owes`), or was withdrawn (`Cover`). A parent
  that owes an entry neither completes nor replaces its definition before it comes
  to the Spawn, where it schedules the child, or finds it locked by somebody who
  executes it.
* `TransactionsProofs`: `UseCasesAreAllOrNothing`, `UndoneLastInFirstOut`,
  `PublishReachesAllQueues` and `MigrationsAreRecorded`, for any number of levels,
  transactions, queues, migration steps and faults. All rest on `Shape`: which
  transactions a call has in each place of its program, that a call on the stack runs
  in the transaction of the one below it, and that the contexts a context was made
  from are chained. For the undo steps (`Steps`), the outermost transaction holds
  the registered changes that are there, in the order in which they were made; the
  others are undone, and came later; only a transaction that is done has any of
  those. A use case that is over was kept or undone as a whole (`Settled`), and
  nothing after it takes that back. For the fan-out (`Fan`), the transactions of a
  Publish that found none in its context are the outermost ones, so that each
  commits for itself: the message is in the queues behind the one that is due, and
  in no other. Its hypothesis `QueuesDiffer` says that no queue is in the exchange
  twice; otherwise a queue would get the message twice, as it would in the code.
  For migrations (`Mig`), what the two transactions add is a function of how far
  the loop is (`Aim`), whatever was recorded before; between the two commits the
  resource is ahead by just that (`Ahead`). What a list of changes makes of a datum
  is counted (`Delta`), so that one more change needs no induction over the list.

Not proved, and checked by TLC only:

* the liveness properties (`Granted`, `WaitReturns`, `FinishReleases`,
  `PublishReturns`, `SubscriptionEnds`, `Handled`, `Completes`, `Refreshed`,
  `NoStall`): fairness and ENABLED are out of the prover's reach.

Every safety invariant and every action property of the passing runs is stated by
a theorem.

## Not modelled

`PROJECT.json` gives the reason for every component left out. Within the modelled
ones: the values of entities and messages; read-only queries of the repository;
`SetMeta`; goroutines that share one MemoryTx or EventLogTx; two equal timestamps
in a Queue; several repositories on one EventLog; variables, conditions and loops
of workflows; `Runtime.Spawn`; Invalidators and `RefreshCache` of the cache.

Most of the repository's lines are not state machines: encoders, command line
parsing, iterators, reflection, HTTP routing, SQL mapping and the test contracts
in `*contract` packages are functions from input to output, or descriptions of
tests, which unit tests and the contracts themselves reach well. The modules cover
the code in which the order of steps decides whether the result is right.

## Plan

Modelled in this order: Limiter, RWLockerFactory, Group, Phaser, Exchange, MemoryTx,
Queue, Workflow, Transactions, Cache, EventLog; proved: the safety of all of them.
Next:

1. `tasker`: Concurrence and shutdown, and two schedulers on one stored state.
2. `resilience.SlidingWindow` over a bounded clock.
3. EventLogRepository and MemoryTx as implementations of one abstract table.
