# TLA+ models of KVRocks: the KV I/O scheduler and the insdb engine

KVRocks is a RocksDB-compatible key-value store on KV SSDs.  It has three
layers of its own: a kernel driver with an asynchronous I/O scheduler for KV
commands (`kv_kernel_driver/`), a LevelDB-like engine on top of it (`insdb/`),
and a RocksDB interface over the engine (`kvdb/`).  This project models the
scheduler of the driver, and the write path of the engine from a batch of writes
to the sorted-key tables, with transactions and snapshots; it checks both with
TLC and proves part of each with TLAPS.  `kvdb/` is almost entirely upstream code.

Paths below are relative to
`kv_kernel_driver/iosched_dd_kr_new/nvme_iosched_driver_new/` for the scheduler
(`kv_*.c`, `kv_*.h`) and to `insdb/db/` for the engine (`*.cc`,
`insdb_internal.h`).

## Inventory

| Part | State | Operations | Hard because |
|---|---|---|---|
| Requests (`kv_iosched.h`) | `kv_async_request`: key, command, data, state bits, `refcount`, `blocking_rq`, `memq`, lock | alloc, free at refcount 0 | shared by ioctl threads, three daemons, two hashes and the device |
| Hashes (`kv_hash.c`) | request hash and read-ahead hash, one lock per bucket | insert, find, find-and-lock, find pending, delete, read-ahead insert/remove | bucket lock before request lock in the lookups, request lock before bucket lock in the completion daemon |
| Async ioctl (`nvme_kv_iosched_cmd`) | the active memory queue of the command's type | merge, queue, queue behind the one in flight, wake scheduler, wait at the high watermark | request is used after its lock was released |
| Sync ioctl (`nvme_kv_cmd`) | | answer from read-ahead, cancel or take over a buffered request, wait for one in flight, issue | waits through pointers it has no reference to |
| Flush ioctl (`nvme_kv_flush_cmd`) | `KV_async_flush_wakeup` | flush a key, flush all | bit may be set after the last chance to see it |
| Scheduling daemon (`kv_scheduling_workfn`) | active and mutable memory queues | switch the active queue | |
| Submission daemons (`kv_submission_workfn`, `__nvme_submit_iosched_kv_cmd`) | `mumemq_list`, `nr_pending`, `nr_rq`, `in_flight_rq`, need-to-wake bits | park a queue with pending requests, submit, drop invalid requests, throttle | test and set of wake-up bits are separate steps |
| Interrupt (`kv_end_io_async_rq`) and completion daemon (`kv_completion_workfn`) | `complete_fifo`, `complete` work | unhash, fill read-ahead, wake sync waiters and flushers, unblock the pending request, wake submission daemons | holds a request lock while it takes others |
| Multi-command ioctls, batch daemons, discard, read-from-read-ahead, tear-down | as above | | not modelled yet |
| insdb transaction groups (`manifest.cc`) | `next_trxn_id_`, `uncompleted_trxn_group_`, `completed_trxn_group_list_`, a lock for each table | take an id, return columns, publish a finished group | a group is in neither table between the two locks |
| insdb writers (`write_batch.cc`, `userkey.cc`) | user keys with their lists of columns (versions), request nodes, `pending_req_`, `slowdown_` | store, split at a transaction group, fail, queue, slow down | columns of one key travel together or apart depending on who took the newest one |
| insdb snapshots (`manifest.cc`) | `snapshot_simplelist_` | create, share, release, read at | every merge and flush works from a copy of the list |
| insdb workers (`db_impl.cc`, `userkey.cc`) | requests taken, key block under construction, worker's log | take, merge, write block and meta data, return transactions, update columns | a column is marked, merged and updated under separate locks |
| insdb sorted-key tables (`sktable.cc`) | rows in memory and on the device, bitmaps and counts of key blocks | build, write, delete or rewrite meta data, give up references, evict keys | blocks hold columns of several tables, flushed by several workers |
| insdb log thread (`manifest.cc`) | two queues per worker | scan, swap, mark, delete | decides on counts the workers change |
| insdb recovery, iterators, caches, utilities | | | not modelled, see below |
| kvdb (`kvdb/`) | RocksDB state | wrapper over insdb, transaction lock manager | mostly upstream code |

The properties that make the driver correct: the hash holds one usable request
per key; a request is freed exactly when nobody keeps or uses it; a request is
pending exactly while its blocker is in flight and is released afterwards;
counters that decide about queues and throttling are exact; at most one
asynchronous command of a key is on the device, so writes keep the order their
callers saw; a flush that returned is durable; every caller returns; nobody is
left asleep with nothing to wake it.

The properties that make the engine correct: a transaction group is complete
exactly when all its columns are in key blocks, once; the log names the
transaction that wrote a column; a read returns the last write, or the last one
before its snapshot, whatever merge, flush, eviction or clean-up is under way; the
counts on which key blocks are deleted are exact, and no block is deleted that a
row, a column or a snapshot still needs; a key that leaves the memory is exactly
its row.

## Modules

| Module | Models |
|---|---|
| `KVState` | the shared state, `kv_iosched_init`, `kv_hash_search`, reference counting |
| `KVAsyncCmd` | `nvme_kv_iosched_cmd`, `kv_hash_insert`, `kv_hash_find`, `kv_hash_find_and_del_readahead` |
| `KVSyncCmd` | `nvme_kv_cmd`, `kv_do_readahead`, `kv_hash_find_and_lock` |
| `KVFlushCmd` | `nvme_kv_flush_cmd`, `kv_hash_find_refcnt`, `kv_decrease_req_refcnt` |
| `KVDaemons` | the three daemons, `__nvme_submit_iosched_kv_cmd`, the device and its interrupt |
| `KVIosched` | composition, fairness, all properties |
| `KVCoalesce` | abstract specification: a write-back buffer with one waiting and one flying write per key |
| `MCKVIosched` | instance for TLC (symmetry of threads) |
| `KVIoschedProofs` | type correctness, and one usable request per key in the hash, for all constants |
| `KVPendingProofs` | the counters `nr_rq`, `in_flight_rq` and `nr_pending` are exact, one command of a key in flight, for all constants |
| `KVRefProofs` | reference counts are exact, pending pairs are whole, for finitely many threads |
| `KVOrderProofs` | the order of writes at the device, without synchronous gets; refinement of `KVCoalesce` and durability of flushes, without synchronous commands |
| `InsdbTrxn` | `GetTrxnID`, `DecTrxnGroup`, `AddCompletedTrxnGroupRange` and their two tables |
| `TrxnGroups` | abstract specification: a group is opened, closed and published once |
| `InsdbState` | the shared state of insdb, an opened database, `DBImpl::Get` |
| `InsdbWrite` | `WriteBatchInternal::Store`, `UserKey::UpdateColumn`, `PutColumnNodeToRequestQueue`, snapshots |
| `InsdbWorker` | `DBImpl::WorkerThread`, `UserKey::DoVerticalMerge`, key blocks |
| `InsdbFlush` | `FlushSKTableMem`, `DeviceFormatBuilder`, `CheckColumnStatus`, eviction of user keys |
| `InsdbLog` | the log clean-up thread |
| `Insdb` | composition, all properties of insdb |
| `MCInsdb` | instances for TLC: keys, threads and workloads |
| `InsdbTrxnProofs` | completed ranges and the refinement of `TrxnGroups`, for all constants |
| `InsdbColumnProofs` | a clean user key is exactly its row, for all constants |
| `InsdbMergeProofs` | the log has for every column the transaction that wrote it, for all constants |
| `InsdbBlockProofs` | the two counts of a key block are exact, and no block is deleted that is still named, for all constants |

### State and code: the scheduler

* A command is named by its number, 1..`MaxOps`; its `kv_async_request` and the
  value it writes have the same name.  The device holds, for each key, the
  number of the last write it executed.  `key`, `opc`, `ver` are the fields of
  the command, `bits` its `state`, `ref` its `refcount`, `blk` `blocking_rq`.
  A request with `ref = 0` is freed; its name is not used again, so a use after
  free shows as an access at `ref = 0` and never as a hit on somebody else's
  request.  (Reuse of slab memory would add behaviours only after that point.)
* `rqHash`, `raHash` are the sets of hashed requests; `nr_rq` of the hash is the
  size of `rqHash`.  There is one bucket per key.
* A critical section that cannot block while it holds its spin locks is one
  step.  Locks held over several steps are state: `locked` is the set of request
  locks the completion daemon holds, `hashLock[k]` the thread that holds the
  bucket lock while it waits for the request's lock.  The new request's own lock
  is held from before its insertion to after its enqueueing, so these are one
  step.  Places where the code drops a lock, or tests a flag and sets another
  later, are separate steps: `SubmitPark`/`SubmitKick`/`SubmitSleep`,
  `SubmitRq`/`SubmitCongested`, `AsyncWake`/`AsyncFullSet`,
  `CompleteUnhash`/`CompleteLowWatermark`, `FlushMark`/`FlushPush`/`FlushDrain`,
  `DeviceExec`/`InterruptWake` (the handler reads the request after it has put it into
  the fifo; `isr` is the request it is at).
* `pc[t]` is the position of a thread, `me[t]` its command, `buf[t]` the request
  it has a pointer to.  `"oops"` is a thread that dereferenced NULL or the lock
  behind the bucket array.
* `schedQ`, `subQ`, `compQ` are the queued work items.  A delayed work item may
  run at any time: the delay is not modelled.
* A queue with a blocked request that is submitted anyway ends in `BUG()` in the
  code; in the model no submission step is then enabled, and `PendingCount`
  shows that it does not happen.
* `before`, `done`, `res`, `cmd` are history variables: which writes of the key
  had returned when a command was invoked and what a read returned.  `Older(v, w)`
  is this real-time order.

Two steps of the code are one step of the model where nothing in between could tell:
the completion daemon counts a request out of `in_flight_rq` and clears the congested bit
in `CompleteDequeue` (`kv_iosched.c:543-546`; the window that matters, between the
submission daemon's test and its bit, is there), and `SubmitSleep` sets both need-to-wake
bits (408-425).  The completion daemon's retry while an interrupt handler has queued a
request and not counted it (683-689) is the guard of `CompleteWake`.

Abstractions: one CPU (one active queue per type, one interrupt at a time); the
completion fifo is a sequence without a limit; the device executes accepted
commands in any order and without errors; `wait_on_bit` is not killed; memory
allocation succeeds; key contents are opaque.  `MaxOps` bounds the commands,
`MaxMemq = MaxOps + 2` the memory queues (never reached: a queue is replaced
only when it holds a request).

`Quiescent` is a self-loop for states in which the driver rests: all daemons
are idle (or wait for the end of a congestion) and every thread is outside the
ioctls or asleep on a bit.  With it, TLC's deadlock check reports lock cycles and
sync callers that nobody wakes, and nothing else.

### State and code: insdb

* A write is named by its sequence number; so are its column, its value and the
  request that starts with it.  `hist` is a history variable: every write that was
  inserted, with its key, its kind and its transaction.
* `uk[k]` is a `UserKey`: its columns newest first, `fetched` and `dirty` flags, the
  request of its newest column and the last group seen.  A column's `st` stands for
  `ikey_seq_`: 0 (`pending`), the id of a worker (`submitting`), `ULONG_MAX`
  (`merged`, or `lost` once its value has been overwritten) or the key of its block
  (`stored`).  `kbm` tells whether it points to the log or the primary meta data.
* `blk[b]` is a key block's `KeyBlockPrimaryMeta` and `KeyBlockMetaLog`: the bitmap as
  a set of columns, transactions, reference count, count of columns no table has
  recorded (NRS), the in-log flag, the bits of workers that still have to write it.
  Its image in memory may be dropped and loaded again; this is not a step.
* `sktdf`, `skt` are the rows of the tables in memory and on the device, `kbm`, `kb`
  the meta data and blocks on the device.
* `adding[t]` is the group a thread has erased from the first table of `InsdbTrxn`
  and not yet put into the second; `Publish` is the rest of `DecTrxnGroup`.
* One step is what one lock protects.  `Store` is one step: the column lock is held
  from before the sequence number to after the insertion, and all readers of the
  column take it.  Taking requests (`Pop`), merging one key (`Merge`), returning a
  transaction (`Decrease`), updating a column (`Update`), building one key of a table
  (`FlushBuild`), writing it, deleting and rewriting meta data, giving up each count
  and each reference are separate steps.  A scan of an inactive log queue and the
  swap after it are one step, since only the log thread touches that queue; the scan
  of the queue it has just made active is another.
* Finer steps of the code that the model takes at once: `Pop` takes the column lock of
  each request in turn (`db_impl.cc` 1003-1061), while nobody else takes requests off the
  queue; `FlushBuild` clears the dirty flag and fetches the row before it has the column
  lock (`sktable.cc` 2839-2871); `LogMark` decides on a block (`manifest.cc` 2940) and
  takes it off the log (2973), whose only further behaviour is a block that is never
  deleted.  `LogScan` has no limit on the entries of a round (450000, `manifest.cc` 2894).
* A row of a column with sequence number 0 has the flag for a number but not the number
  (`sktable.cc` 3141-3179).  It is then the end of the row, because there is one column
  id and no TTL, and is decoded as 0: `NewRow` keeps it.  With several columns per row the
  decoder would read the number from what follows.
* A merge returns the transactions of its merged columns one by one; all are of one
  group, whose header is still counted, so they are returned together.

Abstractions: one column id per key; no TTL; no column drop; a table keeps its range
(no split, no deletion); a key block is full by its number of requests only; device
commands succeed; readers are instantaneous; the caches of tables and of key-block
images are not modelled (a table that has dirty keys can be flushed at any time
nobody flushes it); the log record and the update lists are read by the recovery
only and are left out.  The database is opened in a clean state in which some keys
have been stored in one block.  Workloads bound the batches, the snapshots and the
rounds of the log thread; `LastGroup` bounds the groups.

Where the code goes through a null or freed pointer, or calls `abort()`, the
behaviour ends: no step is enabled for that thread.  There are three such places,
all reached by the runs' workloads or close to them: a request of a waiting column
that has been closed (`write_batch.cc` 469, 481), a merge that frees a column another
request submits (`userkey.cc` 373-376 after 336-338), and a flush of a key whose
merged value was overwritten (`sktable.cc` 2967 after `userkey.cc` 506-515).
For this reason the insdb runs do not check for deadlock.

## Runs

| Run | Instance | Shows | Distinct states |
|---|---|---|---|
| `async` | 1 key, 2 threads, 3 async puts/gets | hash, references, pending pairs, counters, order of writes, refinement of `KVCoalesce` | 782,000 |
| `sync` | 1 key, 2 threads, 3 commands, sync puts against async puts/gets | the same under cancellation and waiting | 1,260,000 |
| `session` | 1 thread, 4 commands, async put/delete, sync put/get, flush | a session reads its writes, flushes durably, writes in order | 1,827,000 |
| `flush` | 2 keys, 2 threads, 3 commands, flush with and without key, limits 1 | counters at the limits, durability of flushes | 2,210,000 |
| `live` | 1 key, 2 threads, 3 async/sync puts, `FairSpec` | every command returns | 259,000 |
| `dangling` | async and sync puts | violation of `LiveTarget` | |
| `stranded` | async puts | violation of `NothingStranded` | |
| `flushhang` | async put, sync put, flush | violation of `FlusherServed` | |
| `readahead` | async put/get, sync get, 1 thread | violation of `ReadAheadFresh` | |
| `insdb` | 3 keys in 2 tables, 2 workers, 8 workloads of up to 4 writes, groups of 1 | ranges, counts, references, deletion of blocks, reads | 673,000 |
| `history` | 2 writers, 1 worker, 10 workloads with snapshots, failing deletes, two keys of one table, groups of 2, slow-down at 2 requests | group counts, logged transactions, reads at snapshots, clean keys, refinement of `TrxnGroups` | 606,000 |
| `staledelete` | a put and a delete of one key | violation of `GetLatest` | |

Bounds.  The protocol between commands is per key, so one key is enough except
where counters over all keys matter (`flush`).  Three commands of one key are
enough for one in flight, one pending behind it and one that merges with or
cancels either; two threads are enough for every race of two callers, and the
daemons and the device are always separate processes.  In `flush` the limits are
1, so every second command meets congestion and the watermarks (keys and threads are
interchangeable there, so both are symmetric); the code's
watermarks differ by 256, equal ones only remove the hysteresis.

For insdb two keys in two tables are enough for a key block that is shared by two tables,
and two workers for two flushes, or two merges of one key, at a time.  A third key shares
the table of the first: the eviction at the end of a flush goes through the keys of a
table and stops at the first that is busy, and a key that the flush removed and a writer
created again is not among them.  The workloads of `Concurrent` and `Histories` in
`MCInsdb` are each aimed at a case: two transactions of one group on one key, a delete on
a delete, a put on a merged column, a snapshot before, between and after two writes, two
keys of one table.  Blocks hold 2 requests; the slow-down begins at 2 waiting requests and
ends below 1.  `LastGroup = 5` leaves 3 groups, enough for a gap to be closed from both
sides.

`ReadsRight` names the cases in which the code does not keep it, so it says nothing about
them.  Each is shown by a property of its own: `StaleDelete` by the run `staledelete`,
`Late`, `DeleteMerged` and `ValueLost` by the configurations under "Further
counterexamples".  `DeleteMerged` also covers
a delete that a flush dropped; with that case taken out of it `ReadsRight` still holds in
both runs, so only merges lose deletes that a snapshot sees.

The five violations are disagreements between comments and code, each written up
under "findings" in `PROJECT.json`:

* `dangling`: the reference that "prevents freeing the request" is dropped before
  the pointer's last use (`kv_core.c:53`, `kv_core.c:1550`, `kv_hash.c:330`,
  `kv_hash.c:354`).
* `stranded`: `nr_pending` is tested before the need-to-wake bit is set; a
  completion in between leaves the memory queue behind until later work queues that
  submission daemon: a command or a flush of its type, or a completion that finds the
  bit.
* `flushhang`: a flush does not test for an invalidated request.
* `readahead`: a late get brings an old value back after a put removed it.
* `staledelete`: `DBImpl::Get` ignores that the newest column is a delete and reads
  the row of the table (`db_impl.cc` 486-496).

One more lost wake-up is modelled and noted among the hazards without a property, because
no comment promises the wake-up: the queue-full bit (`kv_core.c:1586-1588` against
`kv_iosched.c:549-551`).  `FreshRead` and, for gets that take over a buffered put,
`WriteOrder` are checked for one thread only: with two threads a sync get may send a put
it took over after a newer one, which the comment at `kv_hash.c:331-339` accepts for
performance.

Observations on insdb that are visible in the model and have no run of their own: a
reader between two writes of a batch sees half of it, although `write_batch.h` says a
batch is applied atomically; the count of unrecorded columns goes down before the
table is written, against the comment at `sktable.cc` 3061-3070; that comment's branch
(`sktable.cc` 3060) is never taken, because the merge clears the transaction flag it
tests; a block whose last column goes while another flush holds a reference, or the
log thread sees one, is never deleted; `smallest_snap_seq` (`sktable.cc` 3099) is a
local 0, so rows always carry their sequence number; a key block enters the hash
only after its columns have been updated (`db_impl.cc` 1187, which aborts when a
reader has put a dummy there first: readers load blocks at once in the model).

### Further counterexamples

Five hazards of `PROJECT.json` are cases in which the code does not do what its comments or
documentation say.  Each has a property and a configuration of its own, in addition
to the runs above; `tlc -config X.cfg M` ends with a violation in a few seconds:

* `congested.cfg` (`MCKVIosched`; 3 keys, async puts and gets, limit 1) violates
  `InflightLimited`: a completion clears the congested bit whatever the count, for every
  daemon that waits, and none of them looks at the count again (`kv_core.c:1274-1279`,
  `kv_iosched.c:543-546`).  In the code the count is per CPU and the bit is not, which
  only adds ways to be over the limit.
* `lostwake.cfg` (`MCKVIosched`; 2 async puts, limit 1) violates `CongestionEnds`: the
  count is tested before the congested bit is set; a completion in between leaves the
  daemon waiting with nothing in flight but its own request, which it has not sent.
* `deletemerged.cfg` (`MCInsdb`; a stored key, delete, put, 1 snapshot) violates
  `DeleteSeen`: a merge keeps what a snapshot sees only when it is a put; a delete is
  dropped (`userkey.cc` 341-346, 373-376), and the snapshot reads the row the delete hid.
* `latesnapshot.cfg` (`MCInsdb`; two puts, 1 snapshot, 2 workers) violates `LateSeen`: a
  flush works from the list of snapshots of its start (`sktable.cc` 1586-1598).  Its
  comment accepts this; the documentation of snapshots does not.
* `valuelost.cfg` (`MCInsdb`; put, delete, put, 1 snapshot) violates `ValueSeen`: a put
  kept for a snapshot has its value in memory and `ULONG_MAX` as its key; when it becomes
  the newest column the next put takes that for the key of a block and overwrites the
  pointer to the value (`userkey.cc` 506-515, `manifest.cc` 3468-3469), against the
  assertion in `SetKeyBlockMeta`.  A later flush of the key aborts (`sktable.cc` 2967).

Comments and documentation behind them: "The limit number of in-flight request has been
reached" (`kv_iosched.h:179`), "The device hangs when requesting get in async mode(burst
I/O)" (`kv_iosched.h:262`), "Snapshots provide consistent read-only views over the entire
state" (`insdb/doc/index.md:180`).

### Fairness

`FairSpec` asks for weak fairness of a thread inside an ioctl, of the scheduling
and submission daemons (a queued work item runs) and of the device (it answers
what it accepted), and for strong fairness of the steps that take a spin lock
(`LockStep` of a thread, `CompleteStep`): the kernel's spin locks are queued
locks, so a waiter is served although others take the lock in between.  No
fairness is asked of callers.  The run leaves out flushes and limits, whose lost
wake-ups are known.  No liveness is claimed for insdb: its waits end by timers of
worker threads (`WorkerWaitSig`) and by later writes, which the code does not bound.

## Proofs

`KVIoschedProofs` proves `TypeCorrect == Spec => []TypeOK` for every set of keys
and threads, every bound and every limit.  `TypeOK` is not inductive.  `TypeInv`
strengthens it by saying at which positions a pointer is not NULL: a thread
inside an ioctl has a command, a thread that follows `buf` has a request there,
a submission daemon that submits has a current queue and, when congested, a
request, the completion daemon past its dequeue has a request, a pending request
being unblocked has a memory queue.  The proof has one lemma per component
(`AsyncType`, `SyncType`, `FlushStepType`, `SubmitType`, `CompleteType`, ...) with
one step per action and, below it, one per group of variables the action writes.
Assumptions: `ConstantsAssumption` and `OpsAssumption`, which TLC evaluates in
every run.

Its second half proves `Spec => []HashUsable` and `Spec => []HashUnique`: a lookup
finds at most one request of a key, and never one that is completed, invalid or
blocking.  The comment "Invalid or blocking rq can not exist in the request hash"
is thus true, and the restart branches, whose `UNLOCK_AND_RESTART` would read
`hash_key` of a freed request, are dead code.  Neither property is inductive.
`HashInv` adds

* `OwnCommand`: threads inside an ioctl have different commands;
* `InsertedFirst`: a request is in the hash, a queue, the device, the fifo or with
  a daemon, or has one of the three bits, only after its thread inserted it (so
  what a thread inserts is fresh);
* `BucketHeld`: a thread that waits for a request's lock holds the bucket lock of
  its key and the request is still hashed (so nobody else unhashes or marks it);
* `UnhashedFirst`: between `kv_hash_delete` and setting `KV_async_completed` the
  request of the completion daemon is not hashed.

Steps are proved in classes: a thread that only moves on (`Moves`), a daemon that
passes requests along (`Passes`), taking and releasing a bucket (`TakesBucket`,
`Releases`), entering the hash (`JoinsKeep`), `kv_hash_delete` and the entry of an
ioctl; each class has one lemma and each action a step that puts it in its class.
`HashInv` and `TypeInv` were checked with TLC on the instances of `async`, `sync`,
`session` and `flush` before they were proved.

The next four modules form a chain; each keeps the invariants before it as known facts
and adds one of its own, so an invariant is proved step by step and never all at once.

`KVPendingProofs` first proves `QueueCount` and `InflightCount`.  Both are sums over
places, and a sum stays right only when a request is not in two of its places: `PlaceInv`
says that the memory queues have no request in common and none twice (`QueuesApart`), that
a request is in one place between its insertion and the completion daemon (`OnePlace`),
and that a daemon that is not submitting holds nothing (`DaemonsEmpty`).

It then proves `OneInFlight` and `PendingCount`.  Neither follows from the
places alone: that the device has no two commands of one key needs the reason why a second
one was not submitted.  `PendInv` says of each request that its bits and its membership in
the hash fit its place (`RequestInv`: in flight exactly from submission to completion, a
queued request is hashed or invalid, a submitted one hashed or blocking), that a pending
request is behind exactly the request marked as blocking (`Behind`), and of the queues that
the requests of a queue name it, that no insertion goes to a queue under submission, and
that such a queue has no blocked request (`QueueInv`).

`KVRefProofs` proves `RefExact` and `PendingPair`.  The sum of `RefExact` is not handled
term by term: a request has at most one keeper on its way from insertion to completion, so
its count is that of the threads that use it plus three tokens (on its way, in the
read-ahead hash, with the completion daemon).  `RefInv` states that, and that pointers name
inserted requests, that a request removed from the read-ahead hash is put by one thread
only, and what the completion daemon holds when.  The proofs about threads that use a
request need their number to be finite (`ThreadAssumption`).

`KVOrderProofs` proves `WriteOrder`.  `OrderInv` orders every write on its way, and not
only the one that lands: no write in the hash or on its way is older than what the device
holds, none in the hash older than the one of its key on its way (`Ordered`), and what is
left of a key when a synchronous write goes past the buffer had not returned before it
(`SyncApart`).  The hypothesis `"retrieve" \notin SyncOps` is needed: a synchronous get may
send the put it took over after a newer one (`kv_hash.c` 331-339).

The same module proves that `Spec` implements `KVCoalesce` and that a flush is durable,
both for any number of threads, keys, commands and flushes but without synchronous commands
(`SyncOps = {}`).  For the refinement the two slots of a key are sets with at most one
member, by `HashUnique` and `OneInFlight`, and every step is shown to be of one of four
kinds: it leaves the slots, accepts a write, launches the waiting one, or lands the one
under way.  For `FlushDurable` the invariant `FlushInv` says that the last write of the
buffer of a key is not older than any accepted write (`BufferFresh`), so a flush that waits
for that one waits for all: at each position of a flush, what had returned before it is
covered by the device or by the request it waits for (`Covers`, `Over`).
Without the hypothesis `FlushDurable` is false with two threads: a synchronous put takes a
buffered put out of the hash before either is at the device, and the flush of another
thread that looks in between finds nothing to wait for.

All invariants of these modules were checked with TLC before they were proved, on the
instances of the runs and, for `FlushInv`, on one key, two threads and four commands.

`InsdbTrxnProofs` proves `Spec => []RangesExact` and `Spec => TrxnGroupsSpec` for any
set of threads, any group size and number of groups, and any workload.  `RangesExact`
says that the list of completed ranges is in order, has no two ranges that touch, and
covers exactly the finished groups.  It is not inductive: `TrxnInv` adds

* `ListType`: the list is a sequence of ranges that ends with the sentinel, so the
  search for the place of a group always stops;
* `TableInv`: groups in the first table have been handed out and are below the
  sentinel;
* `AddingInv`: a group between the two tables is in neither, no id is taken from it
  any more, and only one thread has it.

The heart is that inserting a group that the list does not cover keeps it in order
and covers that group more.  `PlaceFirst` finds the first range where the search
stops; `FrontExtended`, `InsertExtended`, `JoinExtended` and `BackExtended` treat the
four ways the list changes, each from what `Gap` says of the place.  `NextTrxn` shows
that each step of insdb does to the groups one of the three operations of `InsdbTrxn`
or nothing, so the rest of insdb plays no part in the argument.  For the refinement
each operation is a step of `TrxnGroups` or a stutter: returning the last column
closes a group, adding it to the list publishes it.  `TrxnInv` was checked with TLC
on the instances of `insdb` and `history` first.  Assumption: `TrxnAssumption`.

`InsdbColumnProofs` proves `Spec => []CleanKey`: a user key that is not dirty, which the
cache may evict at any time and of which `UserKeyCleanup` gives up one column only, has one
column, that column is recorded, and the row a reader would load instead names it.  Writes,
merges and flushes of the key race for its list of columns, so this needs what the list
looks like between them.  `ColumnInv` adds

* `ColumnsInv`: the columns of a key are writes of that key, the newest first;
* `RowsInv`: the row of a key in a table, or in a table a flush is building, is a write of
  the key and, until the key has been united with its row, older than its columns;
* `FlushesInv`: no table is flushed twice at a time, and a flush knows every clean key of
  its table;
* `Places` and `WorkerPlaces`: a request is with one writer, or once in the queue, or once
  with one worker that has not finished it;
* `OpenInv`: the open request of a key will submit the newest column, and no other request
  will;
* `ClosedInv`: the column of a closed request is still in the list and has no block yet, so
  neither a merge (which ends the behaviour when it would free it, `Claimed`) nor a flush
  removes a column that somebody will write.

`TableInv` of `TrxnInv` gives the types of the ids that writers take.  Merges and flushes
drop columns from the middle of a list.  `KeepFacts` and `KeepShift` say what such a list is:
the places that stay, mapped in order; `Thinned` is that fact as a predicate, for a merge
(`AfterMergeFacts`) and for the scan of a flush (`RestFacts`).  `FewerFrame` derives from it
that order and rows survive a merge, `ScanLeaves` that a scan keeps every column that still
waits and leaves a key clean only with the one column it recorded.  `ColumnInv` was checked
with TLC on the instances of `insdb` and `history` first.  Assumptions: `StateAssumption`
(workers are 1..n, keys are positive numbers) and `WorkloadAssumption`, which TLC evaluates
in the runs of insdb.

`InsdbMergeProofs` proves `Spec => []TrxnLogged`.  A request has a list of transactions, its
key a list of columns, and a worker that merges pairs the two by position, from the newest
down (`GetTrxn`).  Between the write and the merge other writers put columns in front, other
requests are closed and merged above and below, and flushes take columns out, so the claim is
about positions that move.  `MergeInv` adds to `ColumnInv`

* `MatchInv`: for a request that no worker has merged, every column from the one it submits
  down to the first that stops the merge or that another request submits was written by the
  transaction at that distance from the end of the request's list, and has one iff the request
  has any;
* `StackInv`: a waiting column that no closed request submits is the newest one or directly
  below one it will be merged into, so a flush, which keeps waiting columns, cannot move a
  foreign column next to a request's last one; and a column marked as the end of a group has a
  request;
* `LastInv` and `GroupsInv`: the group by which a writer decides between the open request and a
  new one is that of the newest column, and group 0 is no group, so a request without
  transactions and one with some never share columns;
* `BuiltInv`, `TakenInv`: a worker's requests are built in the order of its list, and the
  columns it submits are marked, so a merge stops at them;
* `LoggedInv`: what has been logged is right; it implies `TrxnLogged`.

`Comes` is what a step has to show for a request that stays open: each column it will merge was
one it would have merged, as far below the one it submits (`MatchFrom`).  Inserts add the column
and its transaction together (`InsertMatchOpen`), a merge takes the columns of one request only
(`MergeMatch`), a scan leaves the waiting ones next to each other (`LeavesRun`).  A merge that
would free another request's column ends the behaviour in the model (`Claimed`), so this is
proved up to such a merge.  `MergeInv` was checked with TLC on the instances of `insdb` and
`history` first.  Assumptions: as for `InsdbColumnProofs`.

`InsdbBlockProofs` proves `Spec => []KBRefExact` and `Spec => []NRSExact`: the counts by
which the log thread and the flushes decide to delete a key block or its log entry.  As
stated they are sums of cardinalities over places (columns in lists, requests of workers,
entries of flushes), and a step moves a column from one place to another.  The proof states
instead that the count is the cardinality of one set of columns, wherever each is kept:
`Users(b)` is every write that is in block b and in a list, with the worker that wrote the
block, or with a flush that has taken it out; `Unrecorded(b)` likewise for those no table
records.  A step then leaves the set, adds a block with the columns of its requests, or
takes elements out of it.  The inductive invariant is `ColumnInv`, `TrxnInv` and

* `FreshInv`: a column without a block has not been looked at by a flush, and one that is
  still to be written is not recorded;
* `IkeysInv`: a key of a block is used once; nobody who keeps one can meet a later block
  of the same key;
* `EntriesInv`: an entry of a flush is of a key it has scanned, there is one for a column,
  and the column is still in the list only if a snapshot keeps it, so that no column is
  counted twice;
* `RefInv`, `NrsInv`: the two counts are the cardinalities of the two sets;
* `BlockType`, `LogType`, `LogInv`: the shape of blocks and of the log; when the log thread
  has taken a block off the log nothing of it is unrecorded, so the log entry it drops is
  not needed any more;
* `EndInv`: a flush that does not rewrite blocks has no entries.

`CountParts` and `CountsExact` lead back to the sums, by one-to-one maps from places to
columns (`SameCount`); `PartsDisjoint` is where `EntriesInv` is needed.  Steps are proved in
classes: those that leave the columns of blocks alone (`Moves`, `WriteTally`), a new block
(`PutTally`), a column that takes its block (`UpdateTally`), the log (`LogTally`), the scan of
a key, which takes some columns out, records one, and may fetch one from its row
(`ScansUsers`, `ScansUnrecorded`, `BuildTally`), entries given up (`ReleaseTally`) and
evictions, of which `CleanKey` says that each gives up the one column there is (`EndTally`).
The invariants were checked with TLC on the instances of `insdb` and `history` first.
Assumptions: as for `InsdbColumnProofs`.

The same module proves `Spec => []BlockKept`.  A block is deleted by a flush whose scan
emptied it, or by the log thread when nothing references it; both judge it by its
reference count, its bits of valid columns and the log.  The proof needs the exact counts
above and says for every place that names a block why these cannot both be spent
(`KeepInv`):

* `KeptColumns`: the block of a column in memory has its meta, and is on the device when the
  column is a put; the bit of the column is set unless a flush has cleared it and holds the
  column for a snapshot;
* `KeptWrites`, `KeptRows`: the same for columns that a worker has written and not yet
  updated, and for the rows of tables in memory and of those being built, whose bits are
  always set;
* `KeptDevice`: a row on the device has its bit, or the flush that cleared the bit is still
  building the table that will replace the row; that is why a flush writes its table before
  it deletes blocks;
* `KeptEntries`: a block that a flush is going to delete has no bits and no reference but the
  entry's own, and stays so: a later scan can fetch a row only into a block with a bit;
* `HoldInv`: a column that a flush found invalid is not found valid by a later one, because
  something newer is in a block or was deleted; otherwise a row would name a column whose bit
  is cleared;
* `FlagInv`, `KeptDels`: a column is a delete as its write is; what the log thread is about to
  delete from the device has left the memory and its key is not used again.

`SafeDeletes` is what every step has to show, that it deletes no block with a bit or a user
(`KeepStays`); the scan of a flush, which alone clears bits, is proved part by part
(`ScansLists`, `ScansRecords`, `ScansEntries`).  `KeepInv` was checked with TLC on the same
two instances.

Only model-checked: in the scheduler, `FreshRead`, `WriteOrder` with synchronous gets and
`FlushDurable` with synchronous writes, which hold for one thread and not for two, so that
nothing general is to be proved; the violations, which are counterexamples; and
liveness, which is outside what the prover handles.  In insdb, `GroupCount`, `InsdbTypeOK`,
`ReadsRight` and `HeaderHoldsGroup`.

## Plan

1. *(done)* Scheduler core: safety, refinement, liveness, type proof, hash proofs.
2. *(done)* insdb: transaction groups, writers, snapshots, workers, vertical merge,
   table flush, log clean-up; proofs of completed ranges and of the groups.
3. Proofs: *(done)* the scheduler: counters, pending pairs, reference counts, order of
   writes, the refinement of `KVCoalesce`, flushes; the columns of insdb, the
   transactions in its log, the counts of its key blocks and when they are deleted.
   Left: `GroupCount` and `HeaderHoldsGroup`.
4. Rest of the driver: discard and read-from-read-ahead, BATCH daemons and
   multi-command ioctls, tear-down, the capacity of `kv_fifo.h`.
5. insdb: splitting and deleting tables; recovery, once the code has one.

## Not modelled

The stock NVMe driver (`core.c`, `pci.c`, `scsi.c`, `lightnvm.c`), the copy of
the scheduler for Linux 4.4, `kv_bench`, firmware images, vendored folly,
gflags and snappy, the percona-server patches, and `kvdb/`, whose transaction lock
manager, version set and tools are RocksDB's: third-party, generated or duplicate
code, or plain I/O.  They are most of the repository's lines.

Of insdb: recovery, which cannot succeed at this commit (`UpdateAllKBMsInOrder`,
`manifest.cc` 598, is a stub that returns false, and `DecodeAllKeyMeta` never fills in
the transactions the later passes would need); iterators, which change no state that
the modelled parts decide on; table split, deletion and caches; TTL and column drop;
the utilities of `insdb/util`, sequential structures and I/O.  The other parts are
listed in `PROJECT.json` with the reason.
