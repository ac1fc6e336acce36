# A TLA+ model of virtuals

virtuals keeps Python data structures (dicts, lists, sets) in an ordered key-value store.
Views write through containers into a storage; a storage serializes its writers, gives out
snapshots, and tells a publisher which keys each commit changed; observers elsewhere wake
their subscribers. This directory models the parts of it where the order of steps matters:
TLA+ modules translated from the source, TLC configurations that check them on small
instances, and proofs checked by TLAPS. Paths below are relative to `src/virtuals/` unless
they start with `docs/`; `mem/`, `sqlite/`, `rocksdb/` and `lmdb/` are in `_backends/storages/`.

## 1. The system

### Components, state, operations

| component | state | operations | modules |
|---|---|---|---|
| writer slot (`_backends/storages/_write_slot.py`) | the lock, its owner and hold, the queue of coroutines, the pending grant, the count of blocked threads | `acquire`, `areserve`, `release`, `take_slot`, `WriteSlot.release`, `close`, `reset` (fork) | `WriterSlot`, `WriterSlotTurns` |
| in-memory store (`mem/store.py`) | live entries, recorded versions, the log, pins, deferred releases | `pin`, `unpin`, `get_at`, `page_at`, `apply`, `reset` | `SnapshotStore`, `VersionedStore` |
| scans (`*/scan.py`, `mem/sorted_keys.py`) | position, page or batch, iterator | one row or page per step, in either direction | `StoreScans`, `RangeScans` |
| in-memory storage (`mem/storage.py`, `context.py`, ...) | open flag, active contexts, slot, store | begin of each kind, read, commit, abort, batch, `open`, `close`, fork | `StorageCore`, `MemStorage`, `Storages`, `StorageContract` |
| SQLite storage (`sqlite/`) | pool of connections, file lock, active contexts, slot | the same | `StorageCore`, `SqliteStorage`, `Storages`, `StorageContract` |
| RocksDB storage (`rocksdb/`) | database handle, epoch of a secondary, active contexts, slot | the same, catch-ups | `StorageCore`, `RocksStorage`, `Storages`, `StorageContract` |
| LMDB storage (`lmdb/`) | slot, gate between processes with its helper thread, writer thread and its jobs | begin, stage, commit, abort, batch, reserve, `open`, `close` | `LmdbWriter` |
| key codecs (`_backends/key_codecs/`) | none | encode, decode, upper bound of a prefix | `KeyCodecs` |
| publishers (`_backends/publishers/`) | queue, worker, drop counter, last error | `connect`, `notify`, `flush`, `disconnect` | `Publisher` |
| filters (`tkv/filter/`) | none | match, canonical form, routing hints | `Filters` |
| observers, registry, subscriptions, transport (`_backends/observers/_base.py`, `mem.py`, `tkv/observer/`, `tkv/transport/`) | dispatch queue, worker, indexes by filter, receivers | `connect`, `subscribe`, `bind`, delivery, `close`, `flush`, `disconnect` | `Registry`, `Observer` |
| Redis observer and routing (`_backends/observers/redis_pubsub.py`, `_backends/notify/`) | hashes with counts and readiness, commands, confirmations, the server's channels and index | subscribe, close, reconnect, re-registration, route | `NotifyServer`, `RedisObserver` |
| containers (`container/`) | rows of a site, length metadata | create, put, delete, clear, move, scan | `ContainerTree`, `RangeScans` |
| views (`_views/`, `view/`) | none of their own: rows and books in the container | the operations of Python's collections | `Views` |
| fractional index (`_views/fractional_*.py`) | data, order rows, position rows | insert and move at any gap, respace, rebuild | `FractionalIndex`, `FractionalView` |
| locations, collections, value codecs, C++ codec | none worth modelling | pure or declarative | |

### How they interact

A write transaction takes the writer slot, buffers its writes, applies them to the store in
one step under the store's lock, gives the slot back and hands the changed keys to the
publisher's queue. Threads block on the slot's native lock; coroutines queue and are handed
the lock by whoever releases it. LMDB adds a gate (an flock) between processes and one thread
on which all its write transactions run. Snapshots take no lock: in memory they pin a sequence
number, and later commits record what they overwrite for as long as a pin needs it; the other
engines have snapshots of their own. The publisher's worker sends batches over a transport to
observers, whose own worker matches keys against the registry and calls receivers; over Redis,
a server-side index leads from a key to the channels of the filters that match it. `close`
and `disconnect` may run at any time, against all of these, and a process may fork.

The modules are composed where components share state: `RangeScans` extends `KeyCodecs` (a
scan compares encoded keys), `StoreScans` extends `VersionedStore`, `Observer` extends
`Registry` and `Filters`, `RedisObserver` extends `NotifyServer` and `Filters`, `Views` extends
`ContainerTree`, `FractionalView` extends `FractionalIndex`. `MemStorage`, `SqliteStorage` and
`RocksStorage` extend `StorageCore`, which has the writer slot as its users see it (a lock that
a close replaces): its inside is `WriterSlot`. That a pinned read answers the state that was
pinned, which `MemStorage` uses, is what `VersionedStore` shows.

### What is hard

- *The slot.* A hand-off decided under a guard meets a native lock that barging threads take
  without it; waiters time out, are cancelled, interrupted, or sit on a loop that is closed
  under them; `close` and a fork replace the lock while it is held and waited for.
- *The store.* A snapshot is a copy that was never made: each of record, trim, roll back and
  late release must keep exactly what open snapshots need, and no more.
- *Scans.* Pages of two sources each cut at n rows; seeks over subtrees that end inside or
  behind a page; rows fetched before the context ended.
- *Storages.* Every call checks, then acts, while a close, a reopen or a fork may come between.
- *LMDB.* A requester may leave before the job it queued lands; the job must then undo itself.
- *Queues with a worker.* A stop marker, flush sentinels and full queues, against a
  connected flag that is checked and then used.
- *Redis.* A connection lost at any moment, confirmations that never come or come twice.
- *Views.* Several rows move in one operation, and an error in the middle leaves some moved.

`PROJECT.json` lists these hazards one by one, each at its line, with the properties that
watch it or the reason why none does.

## 2. Modules

### WriterSlot, WriterSlotTurns

Every critical section under `_guard` is one step, every access to the native lock outside it
another; `pc[a]` is where caller `a` is between them. `w` is the `WriterLock`: `lock` (the
identity of the current lock; `close` and a fork make a new one), `locked` (the native locks
that are taken), `owner` and `marked` (the hold and the contexts that carry it), `waiters` (the
queue), `pending` (the granted waiter), `syncWaiting`, `bargeNext`; `wstate` and `wlock` are a
waiter's state and the lock it was granted. `lk[a]` is the lock a caller read or took. A caller of
`acquire` goes through *try*, *count*, *blocked*, *record* and *holding*; a coroutine through
*await*, *grant*, *reserved* and *holding*, with the timeouts and cancellations on the way. A
`to_thread` job takes a slot a
coroutine reserved, so the two can race. Timeouts, cancellations and interrupts may happen
at every step where the code can meet them; what they do is the code's own handling.
`WriterSlotTurns` adds a history variable that counts passes, and the fairness of threads,
loops and applications.

`Interruptible` and `ReleaseDuringJob` switch on the two behaviours that break mutual
exclusion (section 4). `slot_main` and the theorems are about the system without them;
`slot_turns` has an interruptible thread, and no close.

### SnapshotStore, VersionedStore, StoreScans

`SnapshotStore` is what the store promises: a database and whole copies of it.
`VersionedStore` implements it (`SnapshotsAreCopies`). Its `st` has the fields of the Python
object. The undo log is a set of records, which loses
nothing: it is only read in the order of sequence numbers, and within one commit each key
occurs once. Pins are counts per sequence number; the first and last key of Python's dict
are the smallest and largest, since pins are only ever added at the newest number.
`token[r]` is the one-shot pin of reader `r`'s snapshot. A snapshot ends by `close`, or is
collected (`DropSnapshot`), which only queues its release. `Reset` is the store's part of
`close` and reopen: it leaves tokens and a write set of the old generation around, as a
`begin_snapshot` or a `commit` in flight across it does. A commit that raises does so at a
key of the write set, before the entry changed (the index refused it) or after (the history
index did): `CommitFails`. A write batch commits in the same way.

In `StoreScans` a page is a set of keys cut at n, since SortedKeys is a sorted list and the
order of a page is determined by the scan's direction. The scan keeps all it has yielded, so
that one invariant can speak of the whole scan.

### KeyCodecs, RangeScans

`KeyCodecs` has both codecs as operators over sequences of numbers: encode, decode, and the
upper bound of a prefix. An integer is `IntBytes` wide (8 in the code, 2 in the instance,
TLC's integers being 32 bits). Overflow and the validation of keys are left out. The order of
tuples (`KeyLess`) is the reference the encodings are meant to keep.

`RangeScans` runs one scan of one storage at a time, over rows of encoded keys. A request is
a `StorageScanOptions`, made as `container_ops.py` makes it (`ChildScan`, `StrictChildScan`,
`FirstChildScan`, `SubtreeScan`). A bound is a place: the rank of an encoded key or upper bound
among those of the instance, so that the codecs decide what a scan sees. Each storage has its
own steps: pages of the store in memory, a SELECT per page for SQLite with its search for the
end of a subtree within the page (`FirstPast`), batches of an iterator for RocksDB with the
handle that the context registers and closes, a cursor for LMDB. Between rows the owner may
write, and another thread may end the context; on a RocksDB secondary a catch-up retires the
view, or a file of it goes missing (`LoseView`). Rows have no values; of the filters there are
the prefix and the length, which containers use; a page in memory over the transaction's own
writes is any cover that `StoreScans` allows; a context scans once.

### StorageCore, MemStorage, SqliteStorage, RocksStorage, StorageContract

`StorageContract` is abstract: a database that counts its commits, lives between closes, and
contexts with the state they began on. Each storage implements it through a refinement mapping
(`Contract` in `Storages`, which has the three side by side). `StorageCore` has what the three
share: a thread per context, the thread that opens, closes and forks, the slot.

- `MemStorage`: a call checks `_opened`, takes the slot, registers under the state lock; a read
  is a check, then a lookup; close ends contexts one by one, replaces the slot and resets the
  store outside the lock.
- `SqliteStorage`: connections are made, pooled or closed; `file` is who holds SQLite's file
  lock, so that BEGIN IMMEDIATE waits; a reserved slot carries a connection with an open
  transaction, and close takes that connection back unless a transaction being begun already
  has it; a BEGIN or a COMMIT may fail, busy or not. A forked child inherits connections it must
  never use (`touched`). The fork hook makes an open storage forget its parent's state (`Forget`);
  a closed one keeps it, with the parent's `pid`, until `close` looks (`CheckFork`) or `open` takes
  the pid over without looking. SQLite's own calls are atomic, another process commits at most
  once.
- `RocksStorage`: the native handle counts users, close waits or leaves it to the last of them;
  `astray` collects the writers that reached a database opened after their slot was replaced,
  which the code does not check. A secondary catches up in two steps under the state lock: the
  data move (`CatchUp`, `moved`), then the epoch, which ends every view (`Retire`); reads take no
  lock and may fall in between, so a view that is being taken away (`fading` in the contract) may
  answer from the new state. A catch-up may also fail.

Left out: notifications (`Publisher`), scans (`RangeScans`), empty write sets, options and
paths, interrupts, and finalizers of batches.

### LmdbWriter

`act[a]` is a caller with the context or slot it made; `jobs` and `worker` are the writer
thread; `gate`, `helper`, `flock` the gate, its helper threads and the kernel's lock, held by a
descriptor; `mutex` is LMDB's own. Code under one lock is one step. A peer process takes the
gate and the mutex, an outside writer only the mutex. `slips` records three races that the code
lets through (section 4); what follows one of them is not explored. Left out: fork, the remap
after another process grew the map, the reader table, snapshots and `yield_to_writer`.

### Publisher

`connect` makes a queue, a stop event and a worker; `queue[g]`, `stop[g]` and `worker[g]`
are those of connection `g`, and `pub` has the fields of the object, with `gen` and `thread`
for what `_queue` and `_thread` refer to. A notify reads `_connected`, then `_queue`, then
puts key by key, so a disconnect can come in between; a flush puts its event and waits. The
worker takes items into a batch until the queue is empty or a sentinel comes, sends the
batch in chunks of `MAX_KEYS_PER_CALL`, and signals the event. It holds its publisher only
weakly: `Collect` is the last reference going away.

The queue keeps one entry per key queued, and no key is queued twice, so that a key tells
where it is. A chunk that is sent keeps the keys that could not be encoded (`Unroutable`),
which are counted when the chunk is prepared; `Received` leaves them out. The transport is
external: a send succeeds, raises with or without having reached the server, or hangs.
Backoff is a retry at any time. A timeout of a lifecycle step fires only when what it waits
for is stuck: the five seconds of `disconnect` are long for all but a send.

With `Overlap`, notify may run beside all of a disconnect; without it, an application ends
its commits before the marker is queued and begins none before disconnect returns, and keeps
calls without a timeout clear of all of disconnect. The code does not enforce this; section
4 shows what happens otherwise.

### Filters, Registry, Observer

`Filters` has `matches`, `canonicalize`, `filter_hash` (the canonical form stands for its
digest) and `routing_hints`. `Registry` has the five indexes of `SubscriptionRegistry` with
`add`, `remove` and `match`. In `Observer` connections are numbered, each with its queue, stop
event, registry and worker; `cur` names those that the observer's fields hold. A callback may
publish, close, unbind or disconnect on the worker's own thread, raise an Exception, which is
logged, or raise `SystemExit` (`CallbackExits`), which cuts the rest of its batch off. A key is
published once, so a key stands for its publication; `owed` remembers which receivers were bound
when it was queued, and forgets what a `SystemExit` cut off.
`plan` bounds what an application does in a behaviour. The match of a batch is one step. Weak
references and a connect that fails half-way are left out.

### NotifyServer, RedisObserver

`NotifyServer` has the Lua functions `nu1_reg`, `unreg` and `nu1_route` over the routing index.
In `RedisObserver` each caller is a thread that makes one subscription and may close it; callers
of one filter share a hash. The listener thread, the maintenance thread and the worker are the
code's own; redis-py and the server are modelled from how the code uses them (external): the
server confirms in order, a connection it has cut is noticed later, on a reconnect redis-py
subscribes again to every channel it knows. A retry of redis-py inside a send is a reconnect
followed by the command. `plan` bounds callers, keys, losses, restarts, failures, timeouts and
whether the observer disconnects. `life` and `slipped` are history.

### ContainerTree, Views

`ContainerTree` has rows, the kind rule and length metadata of a container, as functions from
a tree to a tree. `Views` is one view of any of twelve kinds at the site `<<>>`, with nested
lists and sets; `ref` is what the Python value it stands for would hold. Lists shift tails slot
by slot, indexed dicts keep a list of keys, log dicts a log and the way back, kh57 dicts sort by
a hashed level. Rows are also written and deleted behind a view's back, and
`rebuild_bookkeeping` must then set its books right. `slips` says which known limits of the
code a behaviour has met: a container *moved* by a list (its length stays behind, section 4), a
handle that wrote past the end (*lost*), pairs written past the hooks (*dirty*, *uncounted*).
`pop` and lazy facets, ranges and slices, `set_child_container_as` and observable variants are
left out; a log entry's fallback scan is not reachable without a writer of the old format.

### FractionalIndex, FractionalView

The generator of order keys as operators over digits (base, number of head letters and random
tails are constants), and the view over it. An operation is a function from rows to the set of
rows it may leave: the tails and the failure of a value write are the only choices. Operations
follow one another, since each backend serializes its writing transactions through the slot.

## 3. Runs

| run | instance | states | what it shows |
|---|---|---|---|
| `slot_main` | 2 threads, 2 coroutines on 2 loops (one can close), 1 replacement | 467k | one writer, no lost slot, no stranded queue, the invariant that is proved |
| `slot_turns` | 2 threads (one interruptible), 2 coroutines on one loop, fair | 10k | everyone who waits is served or leaves; one thread at most goes between two moves of the queue |
| `store` | 2 keys, 1 value, 2 readers, 3 commits, 2 generations | 736k | refinement of `SnapshotStore`, no version kept in vain, indexes agree |
| `scans` | pages: 3 keys, 1 reader, 2 commits, pages of 1 then 2; keys: 7 keys, 5 contents, 12 requests, 2 codecs, 4 storages, pages of 2, 4 and 1, batches of 1 and 4 | 1.6M | a scan yields what was asked for, in order and once, and nothing after the end of its context |
| `publisher` | 2 notifies (2 keys and 1), 1 flush, queue of 2, chunks of 1, 2 connections, 1 failing send, 1 key that cannot be encoded | 2.7M | no key lost, drops surface, one worker, order, flush is a barrier |
| `publisher_patient` | 1 notify and 1 flush without timeouts, queue of 1, fair | 20k | workers told to stop exit, keys are settled, calls return |
| `lmdb` | a transaction, a batch and a reservation, two at a time, 2 opens, a peer and an outside writer | 923k | no begin waits behind a peer or itself, nothing is left locked, outcomes are true |
| `fractional` | 3 ids, 5 operations, base 3, 2 heads, 2 tails, cap of 4 characters, target 3, window 1 | 30k | iteration is what a list would hold; data, order and positions agree |
| `views` | any 4 calls on each of 12 kinds of view, lists of 3 at most, 3 keys | 61k | each view reads as its Python value; its books agree with its rows |
| `observer` | 2 subscriptions, 3 receivers, queue of 1, batches of 2, 2 connections, 3 plans, fair | 526k | no wake lost but with a batch cut off by `SystemExit`, none repeated or reordered; quiet after disconnect; workers stop |
| `redis` | 5 plans: 2 callers of one filter or of one index field, lost connection, restart, failures, timeouts, full queue, disconnect; fair | 142k | a ready filter is routed, an open subscription is local, client and server agree in the end |
| `storages` | 2 contexts (each of 10 pairs of kinds), an opener that opens twice, closes, forks, 1 commit elsewhere, 3 storages | 1.3M | the contract, nothing left behind, a child never touches what it inherited |

Every mutant in `PROJECT.json` is a small change of a definition under which TLC finds the
named property violated in the run's own instance.

### Why the bounds are enough

*Slot.* A race needs a holder, one waiter of each kind and one that leaves; two replacements
add nothing to one, since a lock that is not current is treated alike however old it is.

*Store and scans.* The recording rule compares the last version of a key with the newest pin,
which needs two pins at different numbers and a commit on each side of both: three commits.
One value besides "absent" tells a version from the next. In a scan, two sources cut at one
row already disagree on where they end, and a third key shows the loss of one in between. Of
the page sizes (32, 1024 and 4, batches of 8 and 1024 in the code) only the order matters: the
instance grows a page once, cuts a subtree at its end and behind it, and has a subtree longer
than a page. Its keys are a site with an integer and three strings below it (empty, a prefix of
another, one with a null character) and a site whose name begins like the first. The contents
lack the site's row, the rows of children with descendants, or everything below the site. The
string codec is used with the in-memory storage only, as the others compare bytes.

*Publisher.* A second connection is there for what survives the first, a third would start
from the same leftovers; a queue that two keys fill makes a call drop part of its batch, and
one failing send is enough to time out a join, to begin a backoff, to lose a reply and to end a
drain.

*LMDB.* Two writers at a time: one holds what the other waits for. The gate's races are between
a requester that gives up, its helper or job, and a close that came in between; one reopening
shows what a late release would unlock.

*Fractional index.* With three digits a key grows by two or three characters with each insert
at one gap, so the fourth passes the cap: the window of one is respaced, then one of four, then
the collection. Ids are interchangeable (symmetry).

*Views.* Four calls make a list of three, move its tail and read it; the order of calls is any.

*Observer and Redis.* A queue of one is full with the second key. Plans keep an instance to one
difficulty at a time (a callback that publishes, one that closes its neighbour, one that
disconnects; a lost connection with a first registrant, a joiner, and one that closes). Two
callers decide who registers first and who waits.

*Storages.* One context per thread is used once: what matters is which step of the other thread,
of close, of the reopening or of the fork falls between two of its steps.

The bounds are constants: `MaxReplace`, `MaxSeq`, `MaxGen`, `MaxWrites`, `MaxWritten`,
`MaxFails`, `MaxOpens`, `MaxOthers`, `MaxReads`, `MaxElsewhere`, `MaxIdle`, `MaxSteps`, `MaxLen`,
the plans, and the sizes of the sets. Deadlock is not checked where each caller acts a bounded
number of times, since such a system stops.

### Fairness

`slot_turns`: a thread in the middle of a synchronous section goes on (the OS schedules it), a
loop runs each ready callback, a free native lock sooner or later wakes a thread blocked in it,
and whoever holds the slot ends its transaction. Timeouts and cancellations are never assumed,
except the 50 ms cap on a sync wait on a loop thread, which the code always sets.

`publisher_patient`: workers are scheduled and a send returns (the transport has a socket
timeout); a connect, disconnect, notify or flush that began goes on. That any of them is called
is not assumed.

`observer`: workers and callers in the middle of a call go on; a callback returns. A join gives
up only when it is called inside a callback, where it cannot succeed.

`redis`: the listener, the maintenance thread, the worker and the server run. Deliveries of
other clients, timeouts, closes and failures are not assumed; after a disconnect the wait for
the last acknowledgement ends, as the code bounds it.

## 4. Observations

Modelling turned up behaviours that a reader of the code may want to know. Where a property
would be false of them, it says so: by a constant that leaves the race out, by a history
variable that records that it happened (`slips`, `astray`, `roaming`, `slipped`, `late`), or by
a condition named here.

*Writer slot.*
- An interrupted `acquire` releases "the" lock, not the one it took (`_write_slot.py:511-515`);
  if `close` replaced the lock meanwhile, the one freed belongs to the reopened storage. The
  normal return checks exactly this (`:526-528`). Left out by `Interruptible`.
- `WriteSlot.release` beside a `to_thread` job that begins on the slot frees a lock in use
  (`:743-748`). Left out by `ReleaseDuringJob`.

*Publisher* (`publishers/_base.py`).
- A notify that read `_connected` before a disconnect may queue keys after the leftovers were
  dropped: neither sent nor counted, although the class promises "No silent drops" (`:147-152`).
  Left out by `Overlap`; so is a call without a timeout that then waits for ever.
- A connect between a notify's two looks at `_connected` lets a key be counted twice:
  `DropsSurface` says at least.
- A worker that finds its queue empty and then the stop event leaves keys queued in between to
  be counted as dropped although the transport is healthy.

*Observer* (`observers/_base.py`).
- A subscribe that straddles a disconnect and a connect returns an open subscription in a
  registry that was dropped (`:297-303`; `late`).
- A callback that raises `SystemExit` or `KeyboardInterrupt` loses the rest of its batch: `notify`
  catches only `Exception` (`subscription.py:188-191`), so it leaves `_deliver_batch` half way, and
  `_deliver` logs it (`:118-122`). Receivers of other subscriptions and of later keys of the batch
  are not called, although the docstring says that it is "logged like any other callback failure"
  and the log line that "delivery continues". `NothingLost` excuses exactly those wakes.
- `And(())` matches every key, and the registry indexes it nowhere.
- Two disconnects with a connect between them could leave `_connected` false beside a live
  worker. Not modelled: disconnect is called once per connection.

*Redis observer* (`redis_pubsub.py`).
- `_release` (`:593-601`) leaks a count when a waiter times out after the first subscriber closed
  during a reconnect, or after its `_Ready` was replaced; the comment says it cannot.
- With a full overflow and no SUBSCRIBE pending, confirmations after a reconnect are not read
  until the worker makes room, so a subscribe to the same filter can time out behind a slow
  receiver. `ConfirmedUnderBacklog` is about the pending case.
- A waiter released by a re-registration while the first `nu1_reg` is in flight keeps an open
  subscription whose hash is rolled back (`:511-513`); `OpenIsLocal` leaves out a failed `_Ready`.
- A close, a new first registrant and a reconnect can make a hash ready before its own SUBSCRIBE
  was served (`:504`; `slipped`).

*LMDB* (`lmdb/`). Three races, recorded in `slips`:
- an interrupt while the gate is taken leaves it to nobody (`storage.py:1136-1141`);
- a job that lands between its requester's last look and its leaving waits for itself
  (`_writer.py:430-444`);
- a release that checked before a close and reopen unlocks the new owner
  (`storage.py:1295-1308`).

*SQLite.* A batch that passed its check of the slot may land in the reopened storage
(`roaming`). `_check_fork` promises a reset of the slot "so a lock held by a parent thread does not
wait forever here" (`storage.py:769-783`), but the hook visits only the storages in
`_OPEN_STORAGES` (`:84-90`), which close leaves (`:369`), and `open` in the child sets `_pid`
(`:305`) before anything looks. So when a begin that straddles the close held the fresh slot, or
the file lock, at the fork, a child that opens the storage finds the slot held by a thread that
does not exist, and is not refused to write: its writers time out until it closes the storage.
`NothingLeftBehind` excuses that slot (`pid # "own"`); a close in the child before the open is the
way out, and the model has it (`CheckFork`). `_reserved_slots` is only emptied by the collector,
so a fork while a released slot is still referenced poisons the child's writes.

*RocksDB* (`rocksdb/storage.py`).
- `begin_transaction` (`:724-743`) and `_write_batch` (`:798-810`) do not check, after taking the
  slot, that it is still the storage's (`astray`).
- On a secondary, `_catch_up_locked` moves the data (`:677`) before it moves the epoch (`:681`), and
  a read takes no state lock. Until the epoch moves, any number of reads that start and end in
  between pass `_require_active` (`snapshot.py:67-75`) and answer from the new state, while the
  class promises that the view "is fixed for its life" and that, once a forced catch-up took it, "every
  read here raises" (`snapshot.py:33-40`). A read that checks before the catch-up and reads after it does the same.
  `KeepsContract` lets a view of a secondary answer so while it is taken away (`fading`), and holds
  it to its own state before and to nothing after.
- A snapshot or transaction that straddles close and reopen may be registered in the reopened
  storage with a dead handle. There is no fork hook: a slot held by a thread that a fork lost
  stays taken in the child until it closes.

*In memory.* A get checks, then reads (`context.py:101`), so it can see a store that was reset in
between. A batch that straddles a close can report success with its data dropped, and may land
beside a transaction on a storage that is closing. A batch dropped without an end stays in the
active set until close.

*Scans.* `StringKeyCodec` does not preserve order for characters below "." ("a-b" sorts before
"a"), though its docstring says so; subtrees stay together. An empty start `()` is no start to
RocksDB, and an error in the other storages.

*Views.* `del l[0]` on a list of containers moves the rows of the nested containers, not their
length (`container/container_ops.py:317`): afterwards an append to the moved list writes over its
first element, and the next list at the old key begins at the old length. `BookkeepingExact`
leaves out what was *moved*. A handle kept beyond the end of a list writes an orphan row.
`_rebuild_bookkeeping` of the fractional view corrects positions and never adds a missing one.

## 5. Proofs

TLAPS checks these for every value of the constants.

`WriterSlot_proofs`, for any set of threads, coroutines and loops and any number of replacements:

- `InvariantHolds`: `Config => (Spec => []SlotInv)`,
- `TypeCorrect`: `Config => (Spec => []TypeOK)`,
- `MutualExclusion`: `Config => (Spec => []OneWriter)`,

where `Config` says that no thread is interruptible and no slot is released during a job: with
either, `OneWriter` is false (section 4). Mutual exclusion is not inductive. `SlotInv` adds what
makes it so: an owner and a pending grant each need a locked lock and exclude each other, only
the pending waiter is granted, nobody knows of a lock that was not made yet, whoever took a
native lock and has not recorded it has it alone, and a slot that is being released or lent is
in no other use. TLC checked it on the instance of `slot_main`, where `SlotClaimInv`, which
contains it, now is checked. Each action has a lemma; operators
shared by actions (hand-off, release, reclaim) have lemmas of their own that say what they
preserve, and the actions' proofs cite those.

`WriterSlotQueue_proofs`, for the same sets and under the same `Config`:

- `ClaimsHold`: `Config => (Spec => []SlotClaimInv)`,
- `NoSlotLost`: `Config => (Spec => []NoLostSlot)`,
- `NoQueueStranded`: `Config => (Spec => []NoStrandedQueue)`.

The slot is lost when everyone who could free or pass it has gone, so the invariant counts the
others: coroutines in the queue are distinct, wait on the current lock, and everyone who waits is
queued; threads about to block are counted; behind a free lock with a queue stands a thread that
is counted and will look at the queue when it comes or leaves; behind a locked lock stands
someone with a claim on it (an owner, a pending grant, a thread that took it and has not recorded
the hold). Each action is shown to hand its claim on: a cancelled waiter to the queue, a timed-out
thread to the next coroutine, a release to whoever is first.

Its last section is about `WriterSlotTurns`, for the same sets and under the same `Config`:

- `BypassBounded`: `Config => (TurnSpec => []BoundedBypass)`.

The invariant (`TurnInv`) ties `_barge_next` to the hold: the threads' turn is owed only while the
slot is a coroutine's, from its grant to its release; and a queue that was passed over has an
owner who owes no turn, so that whatever ends this hold moves the queue. A thread records itself
only on a slot that is nobody's, hence never over a queue that was passed over already. TLC
checked it first, with a replacement of the lock and a loop that closes.

`Publisher_proofs`, for any calls, keys, queue and chunk sizes, and any number of connections and
failing sends:

- `TypeCorrect`: `Spec => []TypeOK`,
- `OneWorkerCorrect`: `Spec => []OneWorker`,
- `DropsSurfaceCorrect`: `Spec => []DropsSurface`,
- `AccountedCorrect`: `ASSUME ~Overlap PROVE Spec => []Accounted`.

Only the last needs `~Overlap`; with overlap, `Accounted` is false. `OneWorker` follows from
`WorkerInv`: a worker lives only in the current connection, and none while another is made,
which is what the check in `connect` is for. `Accounted` needs four invariants together
(`AccountInv`): a connection in use has a live worker and no marker queued; a call that will
queue keys does so on the connection in use; hence no key is behind a marker, and none stays
in a queue whose worker left on its own; and no step drops a key without counting it. They
are shown for each kind of step: callers, worker, lifecycle thread. `DropsSurface` rests on
one lemma, `Counted`, about the single way keys are dropped.

`PublisherOrder_proofs`, for the same constants:

- `InOrderCorrect`: `Spec => []InOrder`,
- `FlushIsBarrierCorrect`: `ASSUME ~Overlap PROVE Spec => []FlushIsBarrier`.

Order needs no assumption on overlap. Its invariant (`OrderInv`) says that what was delivered, the
chunk being sent, the batch taken from the queue and the queue follow each other in the order in
which keys were accepted; that a key is accepted once; and that a connection to come has an
empty queue. The barrier needs `~Overlap`, as a notify that straddles a disconnect may put keys
in a queue nobody reads. Its invariant (`BarrierInv`): every key queued before a waiting flush
was sent, is in the worker's hands, or is ahead of the flush in the queue; a flush that is not
queued yet is nowhere; a publisher that was collected has no open flush. That keys lost on the way
raise is `DropsSurface` again. TLC checked both on the instance of `publisher`, `OrderInv` with
overlap too.

`VersionedStore_proofs`, for any keys and values, any finite set of readers, any number of commits
and generations:

- `TypeCorrect`: `Spec => []TypeOK`,
- `IndexesExact`: `Spec => []IndexesAgree`,
- `VersionsFreed`: `Spec => []NothingRetained`,
- `CopiesImplemented`: `Spec => SnapshotsAreCopies`, the refinement of `SnapshotStore`.

`IInv` adds to what they say: a key's versions are in the order of their commits, none of them
later than the last; the pins at a sequence number are as many as the open snapshots of this
generation at it and the collected ones that wait; no token or transaction is of a generation to
come. The argument has three parts. Trimming (`TrimKeeps`): the records that go are as many of
a key's versions as are not later than every pin (a bijection between them), and since versions
are ordered these are its oldest, so what a pin reads is the same version, further to the front.
Committing (`CommitKeeps`): either the old value is recorded, or no pin reads the key live.
Rolling back (`UndoRestores`): what `_undo` leaves is the drained store, field by field. Counting
pins (`ExactOpened`, `ExactClosed`, `ExactDropped`, `ExactDrained`) shows that an open snapshot
still has its commit pinned after every step, and so reads what it read. TLC checked `IInv` on the
instance of `store` first. The theorem modules of the library that take an operator as argument are
of no use here; `Prefix` takes the place of the least-element principle.

`StoreScans_proofs`, for the same and any ranges, page sizes and number of writes:

- `ScansTypeCorrect`: `ScanSpec => []ScansTypeOK`,
- `ScanExactCorrect`: `ScanSpec => []ScanExact`.

`Ranked` and `FirstOf` number the keys of a finite set in scan order: a page that leaves keys out
is full, and they are behind its last. Hence (`CoverIs`) neither source skips a key up to the
nearer end, and (`MergeYields`) the merged page is exact up to there: index, versions and staged
keys together give what the context reads, since `IndexesAgree` is invariant. `PageAdds` extends
that from a page to the scan: what was passed before and what the page covers do not meet, and
together they are what is passed now. Between pages nothing the scan reads changes: a commit, a
rollback or a trim beside it keeps what a pin reads (`KeepsReads`, shown for the store), and a
transaction's own writes are ahead of the scan or counted as rewritten. The sets that are paged
are finite although `Keys` need not be: only a commit adds to them, and it adds what was staged.
TLC checked the invariant (`ScanInv`, `Small`, `IInv`) on the pages of `scans` first.

`LmdbWriter_proofs`, for any disjoint sets of transactions, batches and reservations, and any
number of opens, reads and steps of the other processes:

- `TypeCorrect`: `Spec => []TypeOK`,
- `OutcomeCorrect`: `Spec => []OutcomeTrue`.

Neither leaves out the races of section 4: they can lose a lock, never an answer. The argument
follows a request. `AskOK` says that a caller waits for one job at most, that its reply tells where
that job is (in the queue, in the thread's begin, past the point where it can be cancelled, or
done), and that the caller stands where such a job is waited for; `JobOK` that only a begin is ever
cancelled, and a cancelled job answers nobody. So whoever the thread commits for still waits in
`committing` or `ending`, and its next step takes that answer. The rest (`HandleOK`, `OwnerOK`,
`CloserOK`, `ConsumerOK`) keeps everyone else from ending its context first: a context in a call is
not closed, close ends only contexts at rest, the slot has the owner its holder thinks it has, and
who waits for the gate is the one attached to its wait. `ReservedOK` is shown beside it, since
close wakes the gate's waiter and clears the reserved slots in one step, and they must not be the
same. A step of a single caller is one lemma (`OneMoves`), a step of the thread another (`AtRest`),
a step of close a third (`CloserMoves`). TLC checked the invariant first, with all three
actors at once, two reads and no other process.

`Storages_proofs`, for any finite set of contexts, any plans of what they begin, any number of
opens, of pooled connections and of commits elsewhere, and any of the three storages:

- `StoragesInvariant`: `Spec => []Inv`,
- `StoragesKeepContract`: `Spec => KeepsContract`, the refinement of `StorageContract`,
- `StoragesLeaveNothingBehind`: `Spec => []NothingLeftBehind`,
- `ConnectionsStayUntouched`: `Spec => []InheritedUntouched`.

The assumptions are `CoreAssumption` (finitely many contexts, since connections are counted; no
context is "no one"; a plan gives each context a kind) and `StoragesAssumption` (there are three
storages). As in the properties themselves, the contract is promised on RocksDB only while `astray`
is empty, a view of a secondary may answer from the next state while a catch-up takes it away, and
the slot of a SQLite storage that was closed at a fork may stay with a lost thread until the child
closes it (section 4).

The contract is about a few numbers: the commits in the database, its life, the base a context
began on. That a write finds its base unchanged is not inductive, as the reason is spread over the
slot, the registers and where every other thread stands. Each storage has an invariant of its
own (`MemInv`, `SqlInv`, `RockInv`), a part for the opener and one for each context:

- *In memory* the holder of the slot is exactly who was granted the current lock and has not given
  it back (`MemSlot`), so a live transaction is alone, and on the state in the store. Close replaces
  the lock before it resets the store: a write that still comes has an earlier lock, hence an
  earlier generation, but for the moment between the two (`MemLife`). The store has the pin of
  every live snapshot and of none that ended (`MemPins`).
- *SQLite* rests on the file lock: who stands behind BEGIN IMMEDIATE holds it through a connection
  of its own, and while it does nobody commits (`SqlConns`). A writer that close ended either lost
  its lock or close is still at work (`SqlEnded`). `SqlOwner` counts: every open connection is in
  the pool or in the hands of one context, so that none is left when every call has returned; and
  what a fork inherits belongs to contexts that are gone, so that no statement reaches it. The
  slot may be with such a context only in the child of a closed storage (`SqlSlot`), where nobody
  else is between two steps until it opens or looks (`SqlConns`).
- *RocksDB* may close with calls in flight: a transaction is of the database that is open if its
  token says so, and then, as long as nobody went astray, it has the slot and the last state
  (`RockLife`). A view on a secondary lives as long as its epoch, and is of the state the
  secondary has but while `moved` (`RockState`).

Each action of each storage has a lemma: the invariant after the step, conjunct by conjunct, and a
step of the contract or none. What an action does to one context is stated once (`Moves`,
`Notes`, `Begins`, ...), in words of fields, and the conjuncts are shown from that. TLC checked
`Inv` on the instance of `storages` first.

Two forms the models avoid have to do with the prover. `[f EXCEPT ![c].a = x, ![c].b = y]`
updates one record twice, and version 1.4.5 of TLAPS translates it for its SMT solver into
hypotheses that contradict each other, from which anything follows; the models write
`[f EXCEPT ![c] = [@ EXCEPT !.a = x, !.b = y]]`. And a CASE whose arms overlap has no determined
value in TLA+ (TLC takes the first), so arms are disjoint, or an IF. The proofs about `Publisher`
and `LmdbWriter` were made again with the first form gone. For the storages, the facts each
branch of a proof is split on, with the invariant, were also checked not to imply FALSE.

Only model-checked: liveness, which is out of the prover's reach; the key codecs, the scans over
encoded keys (`RangeExact`, `NothingAfterEnd`), the fractional index, the views and the observers,
whose modules use recursive operators, which it cannot take; and LMDB's `BeginAlone` and
`NothingLeft`, which would need an invariant of the gate, its helper threads and the kernel's
lock beside the one above.

## 6. Not modelled

Locations, collections and value codecs have no state, or are declarative; the compliance suites
are tests; the C++ codec is a second implementation of the binary key codec. Of the modelled
components, section 2 and the notes in `PROJECT.json` say what each module leaves out: mostly
validation of arguments, construction of engine options, weak references and finalizers beyond
those named, LMDB's remap and reader table, and the views' lazy facets and slices.

What would come next, in this order: a proof about the gate of `LmdbWriter`; a fork and the remap
there; lazy facets and slices in `Views`; an observer that is collected.
