# A verification project for PMDK

This directory holds TLA+ models of the Persistent Memory Development Kit, the
TLC configurations that check them on small instances, and TLAPS proofs of the
properties that matter most. Everything is translated from the C code under
`src/`; `PROJECT.json` names the lines each definition stands for.

## 1. The system

| part | state | operations | what is hard about it |
|---|---|---|---|
| BTT (`libpmemblk/btt.c`, `blk.c`) | map, flog pairs, data blocks, info blocks; read tracking table, map locks, lanes | read, write, set_zero, set_error, first-write layout, restart | readers and writers of one block, a crash between flog and map, 2-bit sequence numbers, failing I/O |
| redo log, memory operations (`libpmemobj/redo.c`, `memops.c`) | log entries, finish flag, operation context | store, process, recover | stores reach the media in any order until drained; recovery may itself be cut short |
| lanes (`libpmemobj/lane.c`) | lane locks, per-thread lane records | hold, release, recover | nesting, threads sharing a primary lane |
| transactions (`libpmemobj/tx.c`, `pvector.c`) | undo logs, range cache, stage | begin, add_range, alloc, free, commit, abort, recover | commit order, nested transactions, a crash in post-commit |
| allocator (`palloc.c`, `heap.c`, `memblock.c`, `bucket.c`, `recycler.c`, ...) | zones, chunks, runs, bitmaps; buckets, recyclers | reserve, publish, cancel, free | volatile and persistent state diverge between reserve and publish |
| lists (`libpmemobj/list.c`) | doubly linked lists in the pool | insert, remove, move | several pointers changed as one, through the redo log |
| pool locks (`libpmemobj/sync.c`) | run id, lock words in the pool | lazy initialisation on first use after open | two threads racing to initialise, a stale run id |
| pmemlog (`libpmemlog/log.c`) | write offset, data, rwlock | append, appendv, tellp, rewind, walk | data must be durable before the offset that covers it |
| pool sets, headers (`common/set.c`, `pool_hdr.c`, `util.c`) | part headers, UUID links, checksums | create, open, close | partial creation, mixed parts |
| shutdown state (`common/shutdown_state.c`) | usc, uuid, dirty flag, checksum per replica | init, add_part, set_dirty, clear_dirty, check | a dirty flag and a checksum written in two steps |
| pool checking (`libpmempool/*.c`) | check steps, answers | check, sync, transform, rm | multi-step repair of a damaged pool |
| remote replication (`librpmem`, `rpmem_common`, `tools/rpmemd`) | connection, lanes, memory registrations | create, open, persist, read, close | messages and completions out of order |
| libpmem (`libpmem/*.c`) | none (CPU caches) | flush, drain, memcpy | non-temporal stores and weak ordering |
| libvmem, libvmmalloc | volatile heaps on jemalloc | malloc, free | third-party allocator |
| containers, utilities (`ravl.c`, `cuckoo.c`, `ctl.c`) | trees and tables | insert, find, remove | pure algorithms |

## 2. Persistent memory as modelled

A store is *visible* to every CPU at once and *durable* only after it has been
flushed and a drain (store fence) has returned. Until then a crash may keep or
lose it, whatever the order in which the stores were made. An aligned 8-byte
store is never torn. Modules keep two copies of a location only where another
thread can read it before it is durable; `Crash` chooses any subset of the
stores that are not.

One module, `ShutdownState`, looks a level deeper: on a failure of the DIMMs
(an unsafe shutdown) even drained stores may be lost, unless they were flushed
deep.

## 3. Modules

| module | models | status |
|---|---|---|
| `BTT` | one arena of `btt.c`: reads, writes, set_zero, set_error, restart | complete |
| `BlockDevice`, `BTTRefinement` | what an arena promises, and the mapping of an arena to it | complete |
| `MCBTT` | the instance of the two for TLC | |
| `BTTLayout` | when a namespace is laid out and what a reopened pool finds (`btt.c`, `blk.c`) | complete but for sizes and offsets |
| `RedoLog` | `memops.c` over `redo.c` | one operation context |
| `Lane` | `lane_hold`, `lane_release` and lane records (`lane.c`) | without the sections' own recovery |
| `PmemLog`, `LogDevice` | a log pool, and what it promises | complete |
| `Tx` | transactions of one lane (`tx.c`) | see below |
| `PVector` | the vector of large snapshots (`pvector.c`) as `tx.c` uses it | complete |
| `Sync` | mutexes and rwlocks in a pool (`sync.c`), run ids (`obj.c`) | without conditions |
| `PList` | atomic lists (`list.c`) | complete |
| `Heap` | the allocator (`palloc.c`, `heap.c`, `memblock.c`, `recycler.c`) | one zone, one class of runs |
| `ShutdownState` | the shutdown state of a replica (`shutdown_state.c`, `set.c`) | complete for one set of DIMMs |
| `Rpmem` | persisting to and reading from a remote replica (`rpmem_fip.c`, `rpmem.c`, `rpmemd_fip.c`) | once connected, verbs provider |
| `Runtime` | `Sync`, `Lane`, `BTTLayout` and `ShutdownState` next to each other | |
| `MCRuntime` | `Runtime`, and the waiting in `BTT` and `Rpmem`, for TLC | |
| `MCObj` | `Tx`, `PVector`, `RedoLog` and `Rpmem` for TLC | |
| `MCPool` | `PmemLog`, `Heap` and `PList` for TLC | |
| `LaneConstants`, `LogConstants` | the constants of `Lane` and `PmemLog` and what is assumed of them | |
| `*Proofs` | the theorems of section 5 | |

`Runtime`, `MCRuntime`, `MCObj` and `MCPool` each put several components next to
each other, and `MCBTT` an arena under three kinds of load. The components share no state there: the variable `part` says whose behaviour it
is, the others rest in an initial state, and every property is that of one part.
The states of such a run are the sum of the parts' states, not their product.

The components meet at a few places. A transaction runs on the lane its thread
holds (`LaneExclusive` is why `Tx` and `RedoLog` have one writer). Its
allocations and frees are published through the redo log, so `Tx` takes
`RedoLog`'s `AllOrNone` as the atomicity of `Publish`; `Heap` and `PList` take it
as that of `Process`. `Tx` keeps its undo vectors as sequences, which is what
`PVector` says of them up to finding 5. An arena is entered after
`BTTLayout` has put it on the media and loaded it, which is `BTT`'s `Init`.

### BTT: one arena

A lane is a thread inside `btt.c`; `lane_enter()` of `blk.c` gives a lane number
to one thread at a time, so the lane number names the thread. Each namespace I/O
is one step, the read and the write of a data block two (a half at a time), so a
torn block is visible to the properties.

| variable | code |
|---|---|
| `map`, `pmap` | the map, as CPUs see it and as the media holds it |
| `flog`, `rt` | the flog pairs on the media; `arena.flogs` |
| `data` | the data blocks |
| `rtt`, `lock` | `arena.rtt`, `arena.map_locks` |
| `err`, `perr` | `BTTINFO_FLAG_ERROR` in `arena.flags` and in the info block |
| `rec` | how many flog pairs `read_flogs()` has loaded since the restart |
| `pc`, `op`, `lba`, `ent`, `old`, `scan`, `buf`, `res` | the thread's place and locals |

`ReadEntry` ... `ReadClear` are `btt_read`, `WriteStart` ... `MapDrain` are
`btt_write` with `flog_update` and `map_unlock`, `Setf*` are `map_entry_setf`,
`DataFail`, `FlogFail`, `MapFail` and `SetErr*` the error paths, `RecoverFlog`
one iteration of `read_flogs`, `Crash` a power loss. A failing namespace write is
modelled wherever a call makes one; `nsread()` does not fail (in `blk.c` it does so
only for a range outside the pool), and a write that fails during a restart ends
the opening, which is what a crash there does. An info block torn by `arena_setf()`
is outside the model: `SetErrInfo` stores the flag or does not.

`BlockDevice` is a block device whose calls take effect atomically between call
and return, a write cut short by a crash having happened or not. set_zero and
set_error are weaker in the code: they change the map without a flog entry, so
others may see the mark before it is durable and a crash may then undo it; the
abstract device says so (`Settle`, `AfterCrash`).

### BTTLayout

`uuid`, `stale`, `flogged`, `info` and `written` are what the media holds, per
pool and arena; `open`, `laidout`, `mutex` are `struct btt`; `isZeroed` is the
flag in `ns_cb`, the callback record of `blk.c` that all pools of a process
share. A thread's first write is `Enter`, `LayoutLock`, then for every arena
`ZeroMap`, `WriteFlog`, `BeginInfo`, `EndInfo`; `LayoutFail` leaves at any of the
writes. `FindsLayout` is `read_layout()` on opening. An info block is torn
between `BeginInfo` and `EndInfo`.

### RedoLog

A word is the set of its bits that are 1. `mem` is what CPUs read and `media[w]`
the values a power loss may leave. `AddEntry` and `AddTransient` merge as
`operation_add_typed_entry()` does with `operation_apply()`, within `MergeSearch`
entries; `Reserve` adds an extension. `operation_process()` is `ProcessOne` for a
single entry, and otherwise `StoreNext`, `StoreBase`, `StoreDrain`
(`redo_log_store()`), `Apply` (`redo_log_process()`), `Clobber`, `ClobberDrain`
(`redo_log_clobber()`) and `ProcessTransient`; after a `Crash`, `Apply` to
`ClobberDrain` are `redo_log_recover()`. `FlushOrdered` tells CLFLUSH from CLFLUSHOPT and
CLWB. The base log counts only with its checksum, so a torn one is no log.

### Lane

`Hold`, `Acquire`, `TryNext` are `lane_hold()` and `get_lane()`, one
compare-and-swap a step; `Release` is `lane_release()`. `Reopen` closes the pool
and opens it again: only the closing thread's record goes (`lane_cleanup`), the
others are found again by the pool's uuid. The primary indices come from a
counter that grows by `Jump` and is not reduced modulo the number of lanes.
`missed` is a history variable.

### PmemLog

`AppendLock`, `Copy`, `PersistData`, `StoreOffset`, `PersistOffset` are
`pmemlog_append()` and `appendv()`; `RewindLock`, `Tell`, `WalkLock`,
`WalkChunk`, `WalkEnd` the other calls. `LogDevice` is an atomic, durable log:
append and rewind happen at one moment and survive if they have returned, a walk
sees one contents of the log from end to end.

### Tx

Memory is a line of 8-byte words, some of them objects that may be allocated and
freed. `vec` and `large` are the undo logs for small and large snapshots, `ranges`
and `actions` what the lane collects, `stage`, `depth`, `last_errnum` are
`struct tx`. `AddRange` starts `pmemobj_tx_add_common`; each turn of its loop is
one of `AddNew`, `AddInside`, `AddBeyond`, `AddDone`, and a snapshot it asks for
runs through `SnapLarge`, or `NewCache`, `SnapSmall` and `SnapHeader`, before
the next turn. Commit is `PreCommit`, `Publish`, `PostCommit`, with `Zeroed` and
`PopCache` clearing the undo logs; abort and recovery share `RestoreRange` and
`RestoreNext` (`list` and `ri` are where `tx_foreach_set()` is: the large
snapshots first, then cache by cache), `PopCache` and `PopLarge`. `Crash` keeps any
values the undrained words may have, and any state a cache being made or cleared may
have.

Left out: other threads, locks added to a transaction, stage callbacks,
`POBJ_FLAG_NO_FLUSH`. An allocation zeroes its object; realloc is an allocation
and a free. When the object for a large snapshot cannot be allocated,
`pmemobj_tx_add_large()` goes on and adds two actions on the entry it has taken back
(`tx.c:1302-1314`); the abort that always follows cancels them, so `OutOfMemory` and
`SetEntryFails` have no trace of them. The first one looks up the block at offset 0,
which is undefined; if it ends the process, that is a `Crash`. A failing
`tx_action_add()` after a successful allocation is left out.

### PVector

`arrays` is the line of arrays on the media, `nvalues` the count in memory.
`PushBack` and `SetEntry` are the two halves of adding a large snapshot,
`PushBackFails` and `SetEntryFails` what is left when memory runs out. `Commit`
and `PostCommit` empty the vector and keep its arrays; `Abort`, `Foreach`,
`ClearPop`, `ClearShrink`, `ClearDone` roll back, after a restart as well
(`Boot`). `New` is `pvector_new()`: it counts the values from the arrays alone.
`log` is a history variable, the snapshots the transaction has asked for.

### Sync

One lock, used over several openings. `Get`, `Cas`, `InitValue` or `InitFails`,
and `SetDone` are the steps of `_get_value()`; `OsLock`, `OsBusy` and `OsUnlock`
the call of the operating system's lock that follows. A lock's run id is not
flushed, so a `Crash` may leave any it has had since it was last persisted
(`media`). `owners` is what the operating system's lock knows, `holds` who was
told that they have it. With `Mode` = {"w"} the lock is a mutex.

### PList

A word of the pool is a `pe_first`, `pe_next` or `pe_prev`, or the program's
destination for a new object. `Entries` and `MoveEntries` compute the redo log of
a call as `list.c` does, from the words as they were before the call, with
`RemoveSingle`, `InsertUser` and `FillEntry` named after its functions. `Lock`
takes the mutexes of the heads in the order of their addresses and `HoldLane` a
lane, before or after the mutexes as the function called does it. `Process`
publishes. Objects may be on two lists by two entries (`field`).

### Heap

`hdr` and `bitmap` are on the media; `default` is the bucket of free chunks,
`active` and `blocks` the bucket of an arena, `runs`, `pending`, `unaccounted`,
`total` the recycler, `nresv` the open reservations of a run, `acts` the actions a
thread has collected. An allocation is `Reserve`, then `Fit` or the long way
round: `Detach`, `RecyclerGet`, `RecalcRead`, `RecalcWalk`, `RecalcAccount`,
`Acquire`, `Convert`, `HugeRefill`, `Populate`, and `HugeFit`, `Resize`, `RunInit`,
`RunHeader`. `recycler_recalc()` is three steps because it reads
`unaccounted_total` before it takes the recycler's lock and subtracts what it has
read after it has given the lock back. A
publication is `Publish`, `Lock`, `Process`, `OnProcess`, `OnUnlock`, one action a
step. `Populate` puts the zone into the buckets, one chunk a step, when the
default bucket first runs dry. `objs` is a history variable, the objects the
program has. Zones, classes and runs longer than a chunk are left out, as is
growing the heap.

### ShutdownState

`sds` is the state as CPUs read it, `smedia` what a power loss may leave of it,
`usc` the count of unsafe shutdowns the DIMMs keep. `Open`, `CheckAccepts`,
`CheckRefuses`, `CheckReinits` ... `DirtyFlush` are an opening, which checks
twice; `Close`, `ClearDirty`, `ClearSum`, `ClearFlush` a closing. `Kill` ends the
process, `PowerLoss` the machine, `AdrFailure` is an unsafe shutdown. `data`,
`lost`, `unclosed` and `hit` are history variables.

### Rpmem

Of a lane at the initiator: `event` are the completions it expects
(`lanep->event`), `pmsg` its message buffer, `recv` whether a buffer for the
answer is posted, `sq` and `cq` its endpoint and completion queue. `Call` enters
`rpmem_persist()`, `rpmem_deep_persist()` or `rpmem_read()`; `Way` is the function
that carries it out; `Post` posts what `Posted` says, `Poll` is a turn of
`rpmem_fip_lane_wait()`, `Finish` what follows it. `Monitor` and `ObcMonitor` are
the threads that watch the two connections. At the target a worker (`at`) handles
one completion at a time: `ProcessRecv`, `ProcessSend`, then `PostMsg` and
`PostResp`. `smsg`, `srecv`, `ssq` are the lane's message buffer and queues there,
`rmem` its memory and `dur` what of it is surely durable. The network is external:
`Execute` carries operations of an endpoint out in order, as `rpmem_fip_get_hints()`
asks for (`FI_ORDER_RAW`, `FI_ORDER_SAW`), `Retire` completes them in order,
`Deliver` and `RetireAnswer` do it for the answers, and the completions of the two
directions come in any order. A READ makes earlier WRITEs durable if the method is
the appliance's (APM). `Disconnect` may come at any time. Every call persists what
its thread has stored just before (`ver`), in units of what an inlined message
carries; lanes have units of their own. `told` is what callers were told.

## 4. Runs

| run | instance | checks | shows |
|---|---|---|---|
| `btt` | 2 LBAs, 2 flog pairs, 2 lanes. Calls of any kind: 3 calls, 1 crash. Failing: 3 reads and writes, 1 failing write. Readers: 4 reads and writes, 1 failing write | `BlocksPartitioned`, `FlogDecidable`, `NoWriteUnderReader`, `RefusedForCause`, `ImplementsBlockDevice` | the arena is an atomic block device, no block is lost or shared, every flog pair can be recovered, nobody writes under a reader, and only a failed write makes a call fail |
| `btt_stale_rtt` | reads, writes and set_zero, 5 calls | `WritesReturn`, violated | finding 1 |
| `runtime` | locks: 2 threads, 2 openings, 1 failure, 16 run ids that wrap; lanes: 3 threads, 3 lanes, jumps of 2, nesting 2, 1 reopening | `ReadyWhenUsed`, `Exclusive`, `GetReturns`; `LaneExclusive`, `HoldReturns` | a lock is initialised once per opening, before its use, and excludes; nobody spins for ever; one holder per lane |
| | layout: 1 pool made twice, 2 arenas, 2 first writers, 2 crashes, 1 failure | `LoadedFlogsOwn`, `LayoutOnce` | laid out once; a half-written or foreign layout is never taken |
| | shutdown state: 2 unsafe shutdowns, 2 kills or power losses | `LossReported`, `NoFalseAlarm` | lost data is reported whenever the power went, and only an unsafe shutdown of an open pool is |
| | arena: 4 reads and writes of one block by 2 lanes, 1 failing write | `WritesReturn` | every write returns |
| | replica: 1 lane, 2 calls, inlined or not, the connection may be lost | `PersistReturns` | a call on a replica returns, with a connection or without one |
| `obj` | transactions: 3 root words, 1 object, caches of 2 words, nesting 2, 2 crashes | `TypeOK`, `SnapshotOnce`, `NprevAdjacent`, `RangesExact`, `AllOrNothing` | a transaction happens or does not, whatever ranges are added in whatever order |
| | vector: arrays of 2 and 4, commits of up to 2 snapshots, 6 pushes, 3 restarts | `RollsBackExactly`, `CountsValues` | a rollback restores the snapshots of its transaction and no others |
| | redo log: 2 words, up to 3 entries, log of 2 and extensions of 1, 2 crashes, ordered flushes | `AllOrNone`, `DurableWhenIdle`, `TransientLast` | all entries or none, crashes during recovery included |
| | replica: 3 calls of any kind on 1 lane; 2 lanes on 1 worker, 2 and 1 deep persists; the first with 2 and with 4 entries in a send queue | `RemoteDurable`, `BuffersSuffice`, `BufferStable` | what a caller was told is durable there, every message finds a buffer and every completion a place, and no message is overwritten |
| `pool` | heap: 2 chunks, runs of 2 units, 2 threads and arenas, 3 calls or crashes | `NoDoubleGrant`, `ReservedNotGlobal`, `TrackedOnce`, `HeapMatchesObjects`, `NoLockCycle`, `RunWhileLocked` | no memory is granted twice or lost track of, the media matches the objects after a crash anywhere, and no two publications wait for each other |
| | lists: 2 lists, 3 objects, 2 threads, 2 lanes, 2 calls, 1 crash | `ListsAreRings`, `NoDeadlock`, `EntirelyOrNot` | lists stay whole, a call does what it should or nothing, and no two wait for each other |
| | log: 2 threads, 4 bytes, 4 calls, 1 crash | `OffsetCoversDurable`, `ImplementsLogDevice` | the log is atomic and durable |
| `layout_shared` | 2 pools of 1 arena | `MapsCleared`, violated | finding 2 |
| `redo_no_drain` | the redo log of `obj`, flushes unordered | `AllOrNone`, violated | finding 3 |
| `tx_reused_cache` | 1 root word, 1 object, 2 transactions, 1 crash | `AllOrNothing`, violated | finding 4 |
| `pvector_reused` | the vector of `obj`, commits of up to 6 snapshots | `RollsBackExactly`, violated | finding 5 |
| `heap_early_free` | the heap of `pool`, objects freed before the zone is populated | `ReservedNotGlobal`, violated | finding 6 |
| `lane_primary` | 2 threads, 8 lanes, jumps of 8 | `PrimaryReselected`, violated | finding 7 |
| `rpmem_send_queue` | 1 lane, 3 calls of any kind, the 2 entries of the table in a send queue | `SendQueueSuffices`, violated | finding 8 |

### Why the bounds are enough

* BTT: two LBAs and two pairs let the lanes fight for one LBA, exchange blocks
  through it, and leave two updates pending at a crash. Three writes on one lane
  take its sequence number from 1 round to 1 again; `FlogsDecidable` is proved
  for any number. A lane is given back a block another lane still reads within
  four calls (part `readers`). Blocks are alike, so the first call is for block 0
  (`Within` in `MCBTT`).
* Layout: two arenas are needed for a crash between two info blocks, and a pool
  made twice for info blocks of another pool.
* RedoLog: three entries go beyond the base log into an extension; the second
  crash falls in the recovery from the first.
* Lane: as many lanes as threads, so that `HoldReturns` needs nobody to release;
  jumps of two put one primary index past the number of lanes.
* PmemLog: four bytes fill up with the buffers used, so the last append that fits
  and the first that does not both occur, as does an overwrite after a rewind.
* Tx: three adjacent words give every way two ranges overlap or touch, and a
  range between two others; caches of two words hold one snapshot of one word,
  so longer ones are split and new caches are made. A second transaction is not
  in `obj`: that is where finding 4 shows.
* PVector: the second array is made by the third snapshot and given back by a
  rollback; commits stay within the first array in `obj`, because beyond it lies
  finding 5.
* Sync: two openings suffice for a lock left by an earlier one, before and after
  the run id wraps; a third thread would spin as the second does. The theorems
  hold for any number.
* PList: three objects give every position of an element and its neighbours and
  moves within and between lists, in one call with a crash anywhere. Two calls,
  by two threads or in turn, are explored where at most one object exists when
  the second begins (`MaxShared`), or two if that is a move (`MaxMoved`), so
  that two moves can meet in opposite directions; lanes and mutexes are taken
  the same way whatever is linked.
  There are as many lanes as threads; see the findings.
* Heap: two chunks give joining and splitting, two runs for two run locks, and a
  huge block beside a run; runs of two units are partly free. `Init` is any heap
  an earlier execution may have left, with the used units of a run at its start;
  a history therefore needs few calls: one that reserves, one that frees and a
  third that meets both, or a crash. `UInt` stands for the width of `size_t`, so
  that `unaccounted_total` wraps when two threads subtract the same units.
* ShutdownState: the second unsafe shutdown falls into the opening that follows
  the first.
* Rpmem: three calls put a READ between two messages, which makes the lane forget
  the first one's completion. Four entries of the send queue never fill up (two
  operations of a message not yet retired and two of the call after it); with two
  a call fails there, which is the other half of `obj`. Two units
  make an inlined call of two messages, the second of which can overtake the
  completion of the daemon's first answer.

### Fairness

* BTT: a thread inside `btt.c` keeps running (weak fairness of its steps, `MapLock`
  among them, in `runtime`). `btt_stale_rtt` also grants that a mutex does not
  starve a waiter (strong fairness of `MapLock`, `FairSpec`), so that its
  counterexample owes nothing to a lock. No thread is forced to enter.
* Lane: a thread in `get_lane()` neither sleeps nor takes a lock (weak fairness
  of `Acquire` and `TryNext`). No holder is forced to release, so `HoldReturns`
  is stated where there are as many lanes as threads.
* Sync: a thread in `_get_value()` keeps running (weak fairness of its steps). No
  holder is forced to unlock; `GetReturns` ends where the operating system's
  lock is called.
* Rpmem: as long as a thread in `rpmem_persist()`, the network, a worker or the
  monitor of a lost connection can go on, one of them does (weak fairness of
  `Progress`). Fairness for each of them, which threads and adapters have, is
  more than `PersistReturns` needs where calls are bounded. An error report from
  libfabric (`FabricError`) is not forced, nor is the out-of-band monitor's.

Deadlock is checked in `runtime` and `pool`: a program may stop between two calls
(`Rest`, `Outside`), so a call that cannot return would be reported. `CHECK_DEADLOCK FALSE`
stands in the other passing runs, where calls are bounded and callers may stop.

### Findings

1. `btt.c:1562`: a read that retries and finds a zero or error entry returns
   without resetting its read tracking slot; a later write that gets that block
   waits on it for ever.
2. `blk.c:358`: pools of a process share `ns_is_zeroed`. Opening a zeroed pool
   makes another, not zeroed, skip clearing its map at its first write. With two
   arenas in one pool `MapsCleared` fails too: the map offset passed to
   `nszero()` at `btt.c:1181` is relative to its arena.
3. `memops.c:290`: the redo log is cleared with no drain after the modifications
   were flushed; with CLFLUSHOPT or CLWB a crash may keep the cleared log and
   lose a modification.
4. `tx.c:1365`: a transaction that finds an earlier one's range cache adds no
   action to invalidate its snapshots; a crash after `palloc_publish()` undoes
   its stores and keeps its allocations and frees.
5. `pvector.c:83`: every array but the last is counted as full, but a commit
   leaves arrays that a later, shorter transaction does not fill. The count after
   a restart is then too large, and old snapshots stay in the log.
6. `heap.c:697`: a huge block freed before its zone is populated can be reserved;
   the population finds its header free and puts the reserved block into the
   bucket, from where it can be granted again.
7. `lane.c:396`: `lane.h:58-62` says that a new primary lane is selected when the
   attempts to get the primary one have failed. The primary index is compared with
   a lane's index without reducing it modulo the number of lanes; a thread whose
   index is past that number never counts a miss and keeps its primary.
8. `rpmem_fip_common.c:251`: the table gives a lane two entries of the send queue
   ("WRITE + SEND"), but a call returns when the daemon has answered, not when its
   own operations have left the queue. The operations of the next call may find no
   room, unless the provider grants more than it was asked for; with four entries
   they always do.

Met while modelling, without a run of their own: with `MemsetInOrder` FALSE
`AllOrNothing` also fails (the memset at `tx.c:539` may be torn after an abort);
`is_first` at `tx.c:1351` takes the second cache for the first; `tx.c:1313`
defers the free of offset 0 when the allocation failed; two threads in
`recycler_recalc()` may subtract the same units from `unaccounted_total`, which then
wraps and makes every later search look worthwhile. `list_insert()`,
`list_remove()` and `list_move()` wait for a list mutex with a lane in hand,
`list_insert_new_user()` and `list_remove_free_user()` take the mutex first: with
fewer lanes than threads `NoDeadlock` fails. After the first of several actions on
one run `palloc.c:499` gives the run's lock back, so that another thread may turn
the run into a free chunk before the assertion at `heap.c:929` is met by the next
action; `RunWhileLocked` is about the first. A process killed
with data that was not flushed deep is not covered by `LossReported`: the next
opening clears the dirty flag before it sets it, and an unsafe shutdown in between
goes unnoticed. `rpmemd_fip_process_recv()` ignores the results of the persist
functions. Two lanes that persist the same location at once may leave the older
value on the target; `Rpmem` gives each lane its own. `recycler.c:249` erases from
the vector it iterates over and may pass over pending runs until the next call,
which `TrackedOnce` tolerates.

### What the passing runs do not say

* No part of `btt` has a failing write and a crash: a write that returned EIO after its flog entry was
  written may be completed by the next restart, which `BlockDevice` rules out.
* `LayoutOnce` is stated while no namespace write has failed: `arena_setf()`
  rewrites the only info block in place.
* The redo log and the transactions of `obj` hold under `FlushOrdered` and
  `MemsetInOrder`, its vector for commits that fit the first array.
* The replica of `obj` and `runtime` is one of a target whose persist functions do not fail.
* `pool` frees objects only once the zone is populated (`EarlyFree`).

## 5. Proofs

For every value of the constants that the modules' assumptions admit:

| theorem | module | statement |
|---|---|---|
| `TypeCorrect` | `BTTProofs` | `Spec => []TypeOK` |
| `FlogsDecidable` | `BTTProofs` | `Spec => []FlogDecidable` |
| `NoBlockLostOrShared` | `BTTBlockProofs` | `Spec => []BlocksPartitioned` |
| `NeverWriteUnderReader` | `BTTBlockProofs` | `Spec => [](fails = 0 => NoWriteUnderReader)` |
| `ImplementsUnlessFailing` | `BTTDeviceProofs` | `MaxFail = 0`: `Spec => ImplementsBlockDevice` |
| `RefusalsHaveCause` | `BTTDeviceProofs` | `Spec => []RefusedForCause` |
| `DataBeforeOffset` | `PmemLogProofs` | `Spec => []OffsetCoversDurable` |
| `ImplementsLog` | `PmemLogProofs` | `Spec => ImplementsLogDevice` |
| `AlwaysReady` | `RuntimeProofs` | `RuntimeSpec => []ReadyWhenUsed` |
| `AlwaysExclusive` | `RuntimeProofs` | `RuntimeSpec => []Exclusive` |
| `LanesExclusive` | `RuntimeProofs` | `RuntimeSpec => []LaneExclusive` |
| `FlogsOwn` | `RuntimeProofs` | `RuntimeSpec => []LoadedFlogsOwn` |
| `LaidOutOnce` | `RuntimeProofs` | `RuntimeSpec => []LayoutOnce` |
| `LossAlwaysReported` | `RuntimeProofs` | `RuntimeSpec => []LossReported` |
| `NeverFalseAlarm` | `RuntimeProofs` | `RuntimeSpec => []NoFalseAlarm` |
| `Typed` | `TxProofs` | `Spec => []TypeOK` |
| `SavedOnce` | `TxProofs` | `Spec => []SnapshotOnce` |
| `CoveredExactly` | `TxProofs` | `Spec => []RangesExact` |
| `AssertHolds` | `TxProofs` | `Spec => []NprevAdjacent` |
| `Atomic` | `TxProofs` | `MemsetInOrder`: `Spec /\ [][FreshBegin]_vars => []AllOrNothing` |
| `AtomicFirst` | `TxProofs` | `MemsetInOrder`, `MaxTx = 1`: `Spec => []AllOrNothing` |

Assumptions: for BTT at least one lane, no more lanes than flog pairs and no more
flog pairs than LBAs (`btt_init` and `BTT_MIN_SIZE` see to both), and a positive
lock span; for lanes at least one lane and positive jump and attempts; for the
log a natural capacity and buffers that are sequences; for locks that run ids are
even and that a pool is not opened so often that the run id of a lock comes round
again; for the layout at least one arena and a mark for "nobody" that is no
thread; for transactions that the root object is finite and that no two objects
and no object and the root adjoin (every object has a header in front of it). The
bounds on calls, crashes and failures are arbitrary naturals; those
of the shutdown state need not even be that.

`RuntimeSpec` is the specification of `Runtime`, which `MCRuntime` extends with two
more parts and with fairness. Each of its steps is a step of one part that leaves the others alone (`PartsNext`), so
the parts' inductive invariants carry over; the instance values of the run play
no part in the proofs.

*BTT.* The inductive invariant has two parts. `LaneInv` holds always: types and
control flow, lock ownership, what a locked map entry may be
(`OldOK`), what a lane is about to store (`EntOK`), what a reader's slot tells
(`TrackOK`), that a map entry differs from the media only by the store being
drained (`DrainOK`), and that in every flog pair the slot not in use is the older
one (`FlogOK`), all in `BTTProofs`. `BlockInv` holds while no
namespace write has failed: `Parted` says how LBAs, old blocks and new blocks
share the arena when some updates are pending; `BlocksPartitioned` alone is not
inductive because a flog update and the map update that follows are two steps.
Three lemmas about `Parted` (`FlogMoves`, `MapFollows`, `MapUndone` in
`BTTBlockProofs`) carry the argument: a flog update makes an update pending,
a map update or a restart completes one, a crash makes undrained ones pending
again. `ScanOK` adds that a lane whose slot a writer has passed does not read the
block it is about to fill: that block is not in the map, so nobody starts to.

*An arena is a block device.* The mapping of `BTTRefinement` reads the contents of
an LBA from the map and the block it names, and the stage of a call from where its
lane is. The invariant adds `BufOK` (a written block and a reader's buffer hold
what the device's call holds), `AnswerOK` (a call about to return has an answer)
and `Apart` (the block that is being filled is not mapped, not being read and
nobody else's to fill; it follows from `BlockInv`). `BTTCallProofs` shows that
each step of a lane short of its map store is a step of its own call or none:
`LaneFrame` says what such a step leaves alone, and by `Apart` the half-written
block is nobody's contents. `BTTDeviceProofs` adds the map store, where the call
takes effect for everybody, and the crash: a write is completed by the restart
once its flog entry is on the media, even if its map store is lost, while a mark of
set_zero or set_error that was not drained may be gone (`undo`). The theorem is for
`MaxFail = 0`: `BlockInv` ends at the first failing write. The run `btt` checks one
failing write on a small instance. `RefusalsHaveCause` needs no such bound: by
`FlogOK` no restart meets a pair it cannot decide, so the error flag is only ever
set by a write that failed, and `AnswerOK` says which calls have returned EIO.

*Transactions.* `TxLogProofs` and `TxProofs` have one inductive invariant for the
bookkeeping, `LaneOK`. `RangeOK` and `LoopOK` say that the ranges of a
transaction do not overlap and what is left of the argument between two turns of
the loop in `pmemobj_tx_add_common()`; `ExactOK` that the ranges are the words with
a snapshot, those about to get one, and the new objects, which is why no word is
saved twice. `LenOK`, `DropOK`, `TornOK` and `ClearOK` describe the vector of
caches: how many are in use, which ones the commit will free, which one a power
loss may find half written or half zeroed, and how far a commit or a rollback has
cleared it. `AllOrNothing` speaks of the pool between transactions only;
`AtomicOK` adds what holds during one. Its heart is `Old`: there is a contents of the pool, one
the caller may be shown, to which the snapshots in the log lead back. It is kept
by a store (the word has a snapshot by then), by a snapshot (of a word that is
still old) and by a power loss. `RollOK` says that a rollback takes a snapshot
from the log only when its words are restored and durable, so that a rollback cut
short can be repeated; `CommitOK` that the new contents is durable before
`palloc_publish()` makes it valid and empties the log at one moment.

Two hypotheses of `Atomic` cannot be dropped. Without `MemsetInOrder` the zeroing
of the first cache, in whatever order its words reach the media, can leave a
snapshot that is whole but for its data. `FreshBegin` says that an outermost
transaction begins on a lane without caches. A lane that keeps its first cache
from an earlier transaction clears it only after `Publish`, and a power loss in
between rolls back a transaction that has been published: finding 4, which
`tx_reused_cache` shows. The step of the proof that fails without it is
`FirstOK`, that the first cache is among what `palloc_publish()` clears.
`AtomicFirst` discharges the hypothesis for the first transaction of a lane.

*Lanes.* `LaneExclusive` with the type invariant and `PlaceOK`: a thread's count
of calls and its lane index agree with where it is. `CandidateInRange` shows that
`get_lane()` stays inside `lane_locks`.

*Layout.* `LoadedFlogsOwn` is not inductive. `PoolOK` adds that an info block with
the uuid of the pool vouches for the flogs of its arena, on the media, also after
a crash and while another thread is laying the pool out; `WriterOK` says how far
the holder of `layout_write_mutex` has come, arena by arena, flogs before info
block; `WrittenOK` that a pool with data keeps a valid info block in every arena,
as long as no namespace write has failed.

*Shutdown state.* Every value that a crash may leave, not only the visible one,
has a checksum that is worth something: `SumOK` says that a checksum over a dirty
state with another count means an unsafe shutdown hit the open pool, which gives
`NoFalseAlarm`. `StageOK` lists what each stage between two flushes has stored,
and `LossOK` that from the loss of data until an opening is refused the media
holds exactly the dirty state with the older count, which gives `LossReported`.

*Log.* The invariant adds that the writer is the lock's holder, that the media
has one `write_offset` except between its store and its drain, and that what a
writer has copied follows the log and is durable when the offset is stored. That
gives `OffsetCoversDurable`. For `ImplementsLog` the log of the abstract device is
read from the media up to the offset that counts (`Committed`), and `SimOK` adds
what ties a thread to its abstract call: `TurnOK` which call a thread is in and that
readers keep writers out, `AppendOK` that what a writer has copied and has yet to
copy make up the longer log, `WalkOK` that the callback has been given the log as
far as the walk is. An append or a rewind takes effect with `PersistOffset`, or with
the power failure before it, which may keep the old offset or the new one.

*Locks.* `RunOK` says which run ids a lock can have left from earlier openings,
before and after the wrap; `FreshRun` concludes that an opening's run id is not
among them. `LockOK` then reads the lock's run id as a state: the pool's means
initialised and usable, one less means exactly one thread initialises.
`ReadyWhenUsed` alone is not inductive: it does not say that a thread about to
compare and swap has seen neither of the two. `OwnersOK` ties the operating
system's lock to what callers were told.

Only model-checked: liveness (`WritesReturn`, `HoldReturns`, `GetReturns`,
`PersistReturns`), which the prover cannot do under fairness; `ImplementsBlockDevice`
with a failing write; `NoWriteUnderReader` after one; and the properties of `RedoLog`,
`PVector`, `PList`, `Heap` and `Rpmem`. `RedoLog` applies its log with a fold, and
the library's theorems about recursion take an operator as a parameter, which no
prover here can instantiate; the others have no proofs yet. Where the proofs above
need induction they use that a non-empty set of naturals has a least element
(`Least` in `TxLogProofs`).

## 6. Not modelled

`PROJECT.json` lists every part and the reason. The models cover the mechanisms
that concurrency and power failures make hard. Most of the repository is
something else, and a model of it would say nothing: the bundled jemalloc and
the valgrind headers, `libvmem`, `libvmmalloc` and `libpmemcto` on top of
jemalloc, the Windows port, examples, benchmarks and tests, the command line
tools, argument and configuration parsing, files and mappings, bad blocks, and
`libpmem` itself, whose rule is in every `Crash`. The lines the map names are
therefore a few per cent of all lines, and about half of the files the modules
are about.

* Pool sets and headers: file handling and validation of fields, apart from the
  shutdown state in it. The object pool's creation and opening are the same.
* `pmempool` check, sync and transform: offline and sequential; they test and
  repair fields whose values the models abstract. `btt_check()` only reads, and
  checks the partition that `BTTBlockProofs` proves.
* Remote replication outside `Rpmem`: creating, opening and closing a remote pool
  and the out-of-band protocol over ssh (one request at a time), the sockets
  provider (which has no inlined messages and persists deep by a READ under APM).
* `ravl.c`, `cuckoo.c` and the containers of blocks: sequential, and used by `Tx`
  and `Heap` as the sets and functions they implement.
* Conditions in the pool: initialised by the code `Sync` models, then the
  operating system's.
* Locks of transactions: their order is the program's; `tx.c` only releases them.

## 7. What would come next

Growing the heap and several zones in `Heap`, runs longer than a chunk; `Tx` over
`PVector` in one specification; proofs of `AllOrNone` under `FlushOrdered` and of
`NoDoubleGrant`.
