# auro in TLA+

TLA+ models of the parts of auro that keep state under concurrency or failure,
TLC runs on small instances of them, and TLAPS proofs of their main properties
for every instance. Paths below are relative to `src/`.

`PROJECT.json` lists, for machines and for readers, the components, the runs,
the source lines each definition stands for, the deliberately broken variants
(mutants) that show each property can fail, the disagreements found between code
and documentation, the hazards of the code, and the theorems.

## The system

auro is a collection of services and libraries in several languages around one
MySQL database.

| Component | State | Operations | What makes it correct | Module |
|---|---|---|---|---|
| Global lease lock (Java, `auro-tool/.../lock`, `GlobalLockDao`) | table `global_lock`: a row per key | `obtain` (SELECT, then INSERT or conditional UPDATE), `retain`, `release` | no two clients hold running leases; a row changes hands only once its lease is over | `GlobalLock`, `LeaseLock` |
| Global spin lock (Java) | none of its own | `spinLock`, `spinUnlock` over the lease lock | one thread inside | `SpinLock` |
| Bounded and resizable queues (Java, `auro-common/.../concurrency`) | delegate queue, `AtomicInteger`, `volatile` capacity | `offer`, `poll`, `take`, `remove`, `drainTo`, `adjustCapacity` | the count accounts for every element; bounded; no livelock | `ResizableQueue` |
| Association service (Go, `pkg/service/assoc`) | table `assoc`: two rows per association | create, update, delete one, delete many, list, count, get | each row has its reverse row; an association changes as a whole | `Assoc`, `AssocGraph` |
| Echo service and paging (Go, `pkg/service/echo`, `pkg/lib/mysql`) | table `greeting` | create, get, update, delete, list with `next_request` | paging misses nothing; windows move back | `Greetings`, `Paging` |
| gRPC channel (Python, `auro/gateway/_core`) | target, message length, channel, pool of stubs, a lock | `set_target`, `set_max_msg_length`, `with_stub` | stubs are on the current channel, the channel has the current settings | `GrpcChannel` |
| Thread pools (Java) | JDK pool over the resizable queue: its sizes, workers and queue | `execute`, `resetCoreSize`, `resetMaximumPoolSize`, `resetQueueSize` | an accepted task runs; sizes move towards what is asked | `ThreadPool` |
| ParallelProcessor (Java) | partitions under way, accumulated result, a future | `process`, `processListResult`, `processMapResult` | the future completes unless a partition is rejected; order is kept; a failed partition loses only itself | `ParallelProcessor`, `ParallelMap` |
| PubsubBatch (Java) | buffer of an RxJava subject | `onNext`, `onComplete`, `batch` | what its subject promises | not modelled |
| Server lifecycle (Go, `cmd/*-server`, `rpc_gen.go`, `gateway_gen.go`) | RPC server, gateway, its watcher and connection, scheduler, a context | start, interrupt, graceful stop, exit | every part stops after an interrupt; no call is lost by a clean exit | `Server` |
| API (Go, `apis/*`, `pkg/interceptor/errors`) | none | routing, binding, translating errors | one route per request; the path decides; errors keep their codes | `Messages`, `Api` |
| YAML loaders (Java), logger (Python) | little or none | merging, a memory monitor | the monitor ends with its call | not modelled |
| Conversions, samples, scripts, generators, generated code, Spark jobs | none | | | not modelled |

The components meet in five places: the spin lock calls the lease lock; the
thread pools own a resizable queue; ParallelProcessor runs on a shared pool; the
two Go services share `pkg/lib/mysql`; and a server process puts the HTTP
gateway, the interceptor, the adapter and the domain functions of its service in
a row. The hard behaviour is the interleaving of single SQL statements (only
`upsert` opens a transaction), of threads around an atomic counter, of setters
around a lock, and of goroutines that start while others already stop; replies
that are lost; stale reads that are used in a later write; a pool that rejects.

## Modules and code

### GlobalLock, LeaseLock, SpinLock

`GlobalLock` is one key of the lease lock; all statements filter on the key, so
keys do not interact. `row` is the row of the table and `now` the clock that
JVMs and database share; `pc`, `snap`, `cutoff` and `want` are the program
counter and local variables of `upsert` for each client; `lease` is what the
client was last told. `opened` is history: the time of the SELECT. The code lets
any time pass between the SELECT and the reading of the clock, and so does the
action `Expire`. `Spec` assumes that it is at most `MaxPause` (`Prompt`): an
assumption on how threads are scheduled, stated in `Next` and not in the action.
With `MaxTime` for `MaxPause` it assumes nothing, as the spin lock and the run
`retain` do.

| Action | Code |
|---|---|
| `Select` | the SELECT that opens the transaction (`GlobalLockDao.upsert`) |
| `Insert` | no row in the snapshot: INSERT, which the unique key may refuse |
| `Reenter` | the snapshot's lease is running: true for its own holder only |
| `Expire`, `TakeOver` | it is not: the cutoff is computed, then the conditional UPDATE works on the current row |
| `Abort`, `Crash` | an exception, or the client stops: rollback |
| `Retain`, `Release` | one UPDATE, one DELETE |
| `Tick` | time passes, at any point |

A reply may be lost after the commit (`Committed`), which the code reports as
false. A TIMESTAMP keeps whole seconds (`Stamp`), and MySQL moves an `ON UPDATE`
column only if another column changed (`Rewritten`).

`LeaseLock` is the abstract specification: a client is granted the lock only
while nobody else holds a running lease. `ImplementsLeaseLock` says that
`GlobalLock` implements it under the identity mapping of `now` and `lease`.

`SpinLock` instantiates `GlobalLock` for threads that all pass the simple name
of the class as holder and one minute as the length, and adds their `stage`.

### ResizableQueue

`length` counts the delegate's elements, `size` is the `AtomicInteger`,
`capacity` the field. `offer` is four steps (`OfferRead`, `OfferCheck`,
`OfferReserve` with its compareAndSet, `OfferAdd`), each removal two (`Drain` or
`Remove`, then `Settle`). The delegate may be full or throw, which leaves the
reserved place behind (`lost`). `adjustCapacity` is synchronized and the only
writer of `capacity`: one step, with the arithmetic of ints (`int`). `lost` and
`peak` (the largest capacity so far) are history that only properties read.

### Assoc

`rows` is the table by id, `next` its AUTO_INCREMENT counter; the rest are the
local variables of the handlers. Each SQL statement is one action: creating is
one INSERT of both rows; updating is SELECT, SELECT of the reverse row, `Save`
(`INSERT ... ON DUPLICATE KEY UPDATE` of two rows in one statement, `Saved` and
`Refuses`); deleting is SELECT and DELETE by keys. A request may end between any
two of its statements (`Fail`).

`AssocGraph` is what a client may count on, without rows and ids: a set of links,
each with its reverse, that a request creates, replaces or removes as whole
associations, at one moment. `links` are the rows of the table, `asked` the
key and the new association of an update under way. The INSERT is `Create` (or no
step, if the unique key refuses it), the first SELECT of an update is `Ask`, its
`Save` is `Replace` or, if the unique key refuses it, `Refuse`; the DELETE is
`Remove`; the other statements change nothing in it. An update replaces its own
association and no other and leaves the table alone if its new key is another's;
only one whose association was deleted after it was read may put the new one in
the place of one with the new key, which is what `Save` by stale ids does. With
the `REPLACE` statement in the place of `Save` (`RefusesNever`) every row would
still have its reverse, and an update could remove the association of another key:
this is what `ImplementsAssocGraph` tells apart and `PairsSymmetric` does not.

### Paging, Greetings

`Paging` has the pure part, `CreateQueryConditon`, `NextCommonFilter` and
`NextCommonOption`, as operators on a table, a request and a page. `Pages` is
the set of results MySQL may give, since rows equal in the ordering column come
in any order. `Greetings` is the table with the handlers that change it, and a
client that follows `next_request` until a page is not full. A dropped error of
the SELECT gives an empty page (`ListFails`). What the client may count on to get
is history: `owed` (what there was when it began, less what was updated since if
it orders by `update_at`), `seen`, and `disturbed`.

### GrpcChannel

The setters assign outside the lock and reset under it (`on_modified`);
`with_stub` holds the lock over three readings of the fields (`read_target`,
`read_send_length`, `connect`) and `make_stub`; any of these may raise
(`raises`), which leaves the `with` block.

### ThreadPool, ParallelProcessor, ParallelMap

`ThreadPool` has `core`, `max` and `capacity`, the sizes as they are now, the
number of `workers` and of those that are `busy`, and the `queue`. `Execute` is
the order in which the JDK goes about a task (a core thread, the queue, another
thread, a rejection); `resetCoreSize`, `resetMaximumPoolSize` and
`resetQueueSize` are the methods of the class with `adjustSize`; an exception of
the JDK (core above max) is a step that is not taken. An offer to the queue is
one step, for its own races are in `ResizableQueue`.

`ParallelProcessor` extends it with one call:

| Action | Code |
|---|---|
| `Subscribe` | `subscribeOn(scheduler)` of the next partition, which the pool may reject |
| `CallerReturns` | `toCompletableFuture` returns the future |
| `StartNext`, `MapEnds` | a worker takes a partition; its `mapFunc` returns, throws, or fails the `checkState` on sizes, and `onErrorReturn` makes that an empty result |
| `TakeResult`, `DrainEnds` | `flatMap` and `collect`: one worker at a time takes all the results there are, into `collected` |
| `OtherComes`, `OtherEnds`, `PoolChanges` | the rest of the process on the shared pool |

The items of the input stand for their results, so `Value` is the sort by index
(`Sorted`, stable as that of a Java stream) or the union of maps. `ParallelMap` is the promise, without threads or
partitions: each item is mapped or fails, then the future is completed once with
what was mapped, in the order of the input. `ImplementsParallelMap` maps a
partition with a result to mapped or failed items (`Fate`).

### Messages, Api, Server

`Messages` has the protobuf messages by their fields, as far as the gateway binds
and the client decodes them. `Api` is the stateless part of both services: the
patterns of the gateway in the order they are registered (`EchoRoutes`,
`AssocRoutes`), how body, path and query become a message (`Bind`), how errors
become codes (`translateError`), and what a client decodes when the interceptor
sends a `google.rpc.Status` in the place of the response (`ReadBy`: field numbers
are all that counts).

`Server` is one process, echo or assoc, from start to exit. Each goroutine has
its own state: `rpc` and `stop` (serveRPC and its GracefulStop), `gateway` and
`watcher` (ServeGateway and its Shutdown with the limit of 30 seconds, `late`),
`conn` (the connection of the gateway, closed as soon as the context is done).
Each call has a `client`, the `call` it became, a `handler` that may select, then
commit once, and then ends (`Select`, `Commit`, `Finish`), the `result` it ends
with, and the `answer` as the client reads it. What the handlers do between is in
`Greetings` and `Assoc`; `Server` has their effect on the stored greetings only.
A greeting is stored as the JSON of the message that came (`EoToDo`), with
whatever id its client put there, and read back under the id of the column
(`DoToEo`). `UpdateGreeting` answers with what a second SELECT finds, and
`DeleteGreeting` with what it selected before its DELETE; `AnswersWereWritten`
says what these answers are worth when other calls come in between.
An `UpdateAssoc` without an association is refused (`Converts`), after the
database was asked. The scheduler of the echo server waits for a channel that
nobody closes (`scheduler.go:14`), so that its main never returns:
`StopsOnInterrupt` says what stops anyway, and `ReturnsUnlessScheduled` is about
the assoc server.

## Runs

| Run | Instance | What it shows |
|---|---|---|
| `global_lock` | 3 clients (symmetric), leases of 2, 3 and permanent, seconds of 2 ticks, clock to 4, pauses of at most 1 assumed | mutual exclusion, the inductive invariant, take-over only of expired leases, implementation of `LeaseLock` |
| `spin_lock` (violation) | 2 threads | two threads inside at once: they share the holder name |
| `retain` (violation) | as `global_lock`, leases of 2 and permanent, clock and pauses to 5 | a true reply of `retain` that renewed nothing |
| `short_lease` (violation) | 3 clients, leases of 1 and 4, seconds of 3 ticks, clock to 3, no pause at all | two running leases: an expired short lease was read, then renewed for longer, then taken over |
| `resizable_queue` | 3 threads, capacities asked for 0..4 in a range 1..3, delegate of 3, one throwing offer | the count, the bound, the moves of the capacity, no livelock |
| `assoc` | 2 requests, 1 of them writes, 2 objects, 2 types, 2 metas, 4 ids | every row keeps its reverse row; implementation of `AssocGraph` |
| `assoc_race` (violation) | 2 writing requests, 1 meta | two updates split a pair |
| `greetings` | 3 ids, clock to 2, pages of 1 and 2, eight first requests | paging by the time of creation or of update misses nothing, windows move back |
| `next_window` (violation) | as `greetings` | the next window starts at the highest time, not the lowest |
| `grpc_channel` | 3 threads, 2 targets, 2 lengths, 2 stub classes, 3 changes | stubs and channel are current, the lock comes free |
| `parallel` | a pool of 5 that is resized towards 4 and back to any capacity of 1 or 2, inputs of 0, 2 and 5 items in partitions of 2, 2 at a time, all three methods | no partition goes missing, the promise of `ParallelMap`, completion unless rejected; what `adjustSize` reaches from any size up to 40 |
| `server` | both servers, one call over HTTP out of ten requests, one by gRPC out of five, 2 ids, an error of the database; routes and bindings over 23 sample requests | success means committed, errors keep their codes, an answered greeting was stored under its id, a clean exit loses no call, nothing commits after the stop, and every goroutine but the scheduler ends; errors come from the database (no rows), from a refusal, or as a status of gRPC (a method that is not implemented) |

Why the bounds are enough. The lock needs one holder, one client with a stale
snapshot and one that changes the row in between: three clients; the clock
passes a lease of either length and a second truncation, and the leases of 2 and
3 are the shortest that may differ with pauses of 1 (`LeasesOutlast`);
`short_lease` has leases that may not. Two threads race on a
compareAndSet and a third drains. An update reads two rows and a delete and a
create fit in between: two requests; two pairs of ids let a key come back
under other ids. Two owed rows and one inserted, or updated, between pages shift an
offset; three distinct seconds order them. One `with_stub`, two setters and three
changes cover a setter between any two readings. Three partitions, two at a time,
make the drainer subscribe in the place of the caller; a queue of one or two
places and the other tasks make the pool reject; five threads are the fewest
that `adjustSize` changes. One call that runs through the gateway and one that
does not, with an interrupt between any two steps, cover the ways a call and an
exit can meet, and two calls that update, delete or read one greeting those in
which answers go wrong; calls interact through the goroutines and the table only. A
request has at most one query parameter and numbers have one digit: the filter
looks at one parameter at a time, and a number is parsed or is not. The bounds are the constants
`MaxTime`, `MaxPause`, `MaxLost`, `MaxId` and `MaxChanges`, in the guards they
are named in; `IntMax` is the width of an int, scaled down.

`CHECK_DEADLOCK FALSE` stands where the model ends by a bound (the clock or the
ids are used up) and where the process exits (`server`); the queue, the channel
and the processor are checked for deadlock.

Fairness. `ResizableQueue!FairSpec`: a thread inside a call keeps running, as the
JVM schedules it (weak fairness per thread); no fairness for starting a call or
for winning a compareAndSet. `GrpcChannel!FairSpec`: the thread that holds the
lock keeps running; nothing is assumed of those that wait.
`ParallelProcessor!FairSpec`: threads go on and tasks end; a task that waits is
started by strong fairness, since a worker that could take it may first be let go
by a reset of the sizes, which somebody does by hand now and then and not for
ever. `Server!FairSpec`: goroutines go on and the database comes back to every
handler; no call, interrupt, failure or commit has to come.

Every property of a passing run has a mutant: a definition changed the way a
plausible bug would, under which TLC finds the property violated. They stand in
the modules above the definition they change, marked as mutants, and nothing
refers to them.

## Disagreements between code and documentation

1. `GlobalSpinLockRedisImpl.java:20`: the spin lock does not exclude threads
   (run `spin_lock`); `GlobalSpinLockTest` expects it to.
2. `GlobalLockDao.java:72`: `retain` with an unchanged length renews nothing
   (run `retain`); `GlobalLock.java:10` calls it the renewal of the lease.
3. `GlobalLockDao.java:104`: the cutoff is computed from the lease that was read
   and applied to the one that is there. A lease shorter than a second, read when
   it had expired and renewed for longer since, is taken over at once, without
   any pause in `upsert` (run `short_lease`); `AbstractGlobalLockTest` uses leases
   of 20 ms and of an hour on one key, and expects one holder.
4. `assoc.go:75`: concurrent updates leave associations without their reverse
   (run `assoc_race`).
5. `greeting.go:51`: `UpdateGreeting` saves the whole greeting and never reads
   `update_mask`, so a PATCH loses the fields it leaves out;
   `greeting_service.proto:162` says that the mask applies to the resource. No run
   is needed to see it: `Server!Effect` models what the code does.
6. `mysql.go:91`: `high_time` of the next request is the highest time of the
   page; `types.proto:77` says the lower one (run `next_window`).
7. `ResizableBlockingQueue.java:55`: a desired capacity within `adjustAmount` of
   the current one is taken as it is, outside minCapacity..maxCapacity too, to
   which the other two branches clamp. The line shows it; `Adjusted` models it.

## Proofs

All theorems are about the constants as the modules assume them, for any number
of clients, threads, objects and any clock or table size.

`GlobalLockProofs`. `TypeCorrect`. The main argument is the inductive invariant
`LockInv`: a running lease a client was told of is the row (`LeaseIsRow`), a
snapshot that shows a client its own running lease is the row (`SnapIsRow`), a
row that is not the snapshot's was written since (`RowIsNewer`), and the cutoff of
a pending UPDATE spares a lease as long as the snapshot's that is running, and any
that began after the SELECT (`CutoffSpares`). Mutual exclusion alone is not
inductive, for a client may be about to decide on a stale snapshot.
`MutualExclusionCorrect`, `OnlyExpiredCorrect` and `ImplementsLeaseLockCorrect`
follow from it. `LeaseLockExcludes` is about the abstract lock alone: what it
promises already excludes.

They hold under two conditions on the callers, stated in the theorems. Holder
names differ (`DistinctHolders`); without this the spin lock shows what happens.
And the finite leases are of one length, with no condition on pauses, or each is
at least `MaxPause + Second - 1` (`LeasesOutlast`), where `MaxPause` is what the
specification assumes of pauses (`Prompt`) and the code does not enforce. The cutoff of the UPDATE is
computed from the length that the SELECT returned, and the UPDATE compares it with
the row of the moment: if the row was rewritten with a longer lease since, its
`updated_at`, rounded down by up to a second, must not fall below that cutoff.
The run `short_lease` shows what happens without it, even with no pause at all.
In milliseconds it asks that leases of different lengths on one key exceed the
pause of an upsert by 999.

`ResizableQueueProofs`. `TypeCorrect`; `SizeAccountsCorrect`: the count equals
the elements, plus one for each thread that has reserved a place, plus what
removers still have to subtract, plus the lost places. The sum over removers is
the cardinality of a set of pairs (`Owed`), so that facts on finite sets apply.
`BoundedCorrect` follows with `peak`. `AdjustsTowardsCorrect` goes through the
cases of `adjustCapacity`, for any width of an int.

`AssocProofs`. `TypeCorrect`; `AssocInvCorrect` and from it
`PairsSymmetricCorrect`, if writers come one at a time (`OneWriter`). The pairing
alone is not inductive: the invariant adds that keys are unique, that a pair
keeps the ids 2n-1 and 2n it was inserted with, and that an update under way
holds the ids of one pair, deleted or not; saving them then puts back, or takes
over, whole pairs. `ImplementsAssocGraphCorrect` is the refinement, under the same
condition. It needs one more fact of the update, which is part of the invariant
(`WriterKnows`): the row of its id has the key of the request, or the id is free
and so are the key and its reverse, for deletes remove both rows and only the
writer adds any. So the rows that a save overwrites are those of the
association to replace (`PlacedLinks`), and what is left are the links apart from
the old and the new key. `GraphKeepsWhole` is about the graph alone: links stay in
pairs, and keys unique, for any number of requests that replace at once.

`GrpcChannelProofs`. `TypeCorrect`, `ChannelInvCorrect` and from it
`HolderInvCorrect`, `StubsOnChannelCorrect` and `ChannelCurrentCorrect`:
`HolderInv` says that what the holder of the lock has read is current, or a
setter has yet to reset what it makes.

`ApiProofs`. The stateless part: for every request there can be, not for the
samples of the run. `RoutesNeverCollide`: two patterns of a gateway differ in the
HTTP method, in what follows the colon or in their length (`EchoRoutesApart`,
`AssocRoutesApart`), so no request matches both. `PathAlwaysWins`: what a path
binds replaces what the body set, the filter of the route keeps the query from
the fields that the path binds, and no two variables of a path bind the same
field or fields of the same field (`SafeVar`). `ErrorsReadBack`: code, message
and details have the same numbers in a `google.rpc.Status` and in each response,
so that the client of every method decodes the code that `translateError` chose.

`ServerProofs`. `ExitInvariant` is inductive: it says how the goroutines of a
process stand to each other (`rpc` has ended only after `stop`, `gateway` only
after its watcher), and that a handler at work means that GracefulStop has not
returned. From it `CleanExitCorrect` and `NoCommitAfterStopCorrect`.
`OkMeansCommittedCorrect` and `ErrorsKeepTheirCodeCorrect` follow a failure from
the handler through the interceptor and the wire, with `ErrorsReadBack`
(`AnswerInv`, `CommitInv`, `CodeInv`). They need that `errors.New` makes no error
of code 0 (`ErrorsAssumption`) and that gRPC refuses a method nobody registered
(`DirectAssumption`). `TypeCorrect` adds that a client reads codes of
the services only. `AnswersWereWrittenCorrect` rests on an inductive invariant of
the table (`WrittenInv`): what is in each row, and what each handler at work holds,
is what was there at first or what one committed call put under that id; the id of
a row is read from its column, so the one in its JSON does not matter.
`RoutesAreDisjointCorrect` and `PathWinsCorrect` give the run's
properties from `ApiProofs`.

`ParallelProcessorProofs`. `NoPartitionLostCorrect`: with the types of the input,
the queue and the results taken, the property is inductive (`IInv`). A rejected
partition is in no other place, so that not all results can ever be taken and the
future stays open, which is the step that `Completes` needs. `TypeCorrect` adds
the pool to it; the step worth a proof is that a task that ends was counted as
busy, whatever resets and other tasks did to the workers in between.
`ImplementsParallelMapCorrect` is the refinement. Its invariant (`RInv`) adds that
a partition is in one place only and once in it (`QueuedOnce`, `InOnePlace`):
otherwise a second task of a partition could turn mapped items into failed ones
when their fate is already seen; that `collected` has the items of the partitions
that were taken and have not failed, each once (`CollectedMapped`); and that
nobody is left who would complete the future again (`LeftAlone`). A step of
`MapEnds` is then `Decide`, the last of `CallerReturns` and `DrainEnds` is
`Complete`, and all others leave `Fate` and the future as they are. The lemmas
beneath: an item belongs to one partition and `ItemsOf` are its items (division),
the ranks of a sequence of numbers are a permutation of its indices (an injection
of a finite set into itself is onto), and so sorting keeps the items and orders
them; the last item of a key exists. `EverySizeIsReached` is about `adjustSize`,
for sizes without a bound: each reset brings the size nearer by one at least, so
the set of distances that are still met has a least one, and that is zero.
`AdjustSizeReachesCorrect` is the property of the run, of 64 resets of sizes up
to 40, if those of the pool and those asked for are.

`GreetingsProofs`. `TypeCorrect` and `WindowMovesBackCorrect`, for clients whose
first request has no low time above its high time (`WellFormed`). That the table
of a page has a lowest and a highest time, which `NextCommonFilter` chooses,
rests on the well-founded order of a finite set of numbers. `NothingSkippedCorrect`
needs an invariant about a client between two pages (`PagesInv`): a greeting it is
owed has been seen, or has at least as many newer greetings before it as the
offset of the next page skips (`ToCome`), newer by the time that orders the pages.
An insert adds one that is as new as any, for no time is ahead of the clock; an
update keeps `create_at` and so all places, or puts what is not owed any more in
front of all others; a page that is full takes all the places up to the next
offset; one that is not full had no more to give. Only while a page is sent must
no two greetings have the same time (`Tied`): else MySQL may order them
one way for this page and the other way for the next. The proof
counts, with facts on the cardinality of finite sets, and needs that no greeting is
the mark for none (`NoneAssumption`).

Only model-checked: the liveness properties (`SomeCallReturns`,
`LockIsReleased`, `CompletesUnlessRejected`, `StopsOnInterrupt`,
`ReturnsUnlessScheduled`, `AnsweredOrLost`), which are beyond the prover.

## Not modelled

Logging, and the contents of rows beyond what a property reads. An `UpdateAssoc`
whose association has empty fields and a `drainTo` that throws are outside the
models; `PROJECT.json` lists the hazards among them with the reason. Of the API:
the validators (`*.pb.validate.go`), which nothing calls; the gateway that calls a server in its
own process (`local_request_...`, `Register...HandlerServer`), which no program
uses; sizes of messages, HTTP status codes and the texts of errors. Of the
processor: a partition size of 0, which throws before anything starts, and errors
of the JVM that RxJava treats as fatal. Of the servers: a panic in a handler. (A
second interrupt does nothing: `signal.NotifyContext` stays registered until main
returns.)

The rest of the repository keeps no state under concurrency or failure: Redis
pub/sub and Spark jobs hand calls on, the YAML loaders read files once, the code
generators run at build time, the interview programs and samples stand alone.
`PubsubBatch` is a call of RxJava on a subject that its user supplies, and the
memory monitor of the Python logger is a thread that a flag ends, unless the call
raised first (`logger.py:243`).

## Plan

What would come next: an abstract bounded bag that `ResizableQueue` implements,
by a removal that takes effect when the delegate gives up the element; the memory
monitor of the logger as a module.
