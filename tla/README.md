# TLA+ models of the CS 300 projects

The repository holds five programming projects: a sharded key-value store in
C++ (`kvstore`), a teaching operating system (`weensyos`), a debugging
allocator (`dmalloc`), a file-I/O library (`fileio`) and a snake game
(`snake`). Three of them are programs with behaviour of their own and are modelled
here: the key-value store from a line a user types to the stores' locks, the
memory management and scheduling of the WeensyOS kernel, and dmalloc with its
base allocator. The other two are stencils whose core functions are not written.

Every action is translated from the source; `PROJECT.json` gives the lines.

## Inventory

### kvstore

A `KvServer` process has a listener thread, `n_workers` worker threads, an
optional shardmaster querier and the main thread that runs `start()` and
`stop()`.

```
 clients --connect--> listener --push--> synchronized_queue --pop--> workers
    ^                                                                  |
    +------------------ responses -------- KvStore <---- process_request
```

| component | state | operations | what is hard | what makes it correct |
|---|---|---|---|---|
| `synchronized_queue` | deque, mutex, condition variable, atomic stop flag | push, pop, flush, size, stop | the flag is set without the mutex; push notifies only an empty queue; spurious wakeups | FIFO, each element once; no lost wakeup; stop releases the waiters |
| `ConcurrentKvStore` | buckets, one `shared_mutex` each | Get, Put, Append, Delete, MultiGet, MultiPut, AllKeys | several locks at once, manual unlocking, early returns, a scan that is not atomic | no data race; linearizable; no deadlock; AllKeys sound |
| `SimpleKvStore` | one map, one mutex | the same | manual unlock on each way out | linearizable; every call returns |
| `KvServer` | stop flag, listening socket, queue, threads, connections | start, stop, accept loop, work loop, query loop | order of the steps of stop(); a connection passes from thread to thread | one worker per connection; stop() returns and leaves no connection open |
| `StaticShardmaster` | stop flag, `current_conns`, mutex, condition variable, one detached thread per client | start, stop, accept loop, handler | detached threads, insertion and removal race, waiting for the last | a handler finds its connection; nothing outlives stop() |
| `network_conn` | a socket and `is_connected` | shutdown, close, recv, send, accept | two threads on one connection; descriptor lifetime | each accepted socket is closed |
| `network_messages`, `network_helpers` | none | send and receive framed messages | short counts, end of stream and timeouts anywhere, byte order of the size | a received message is one that was sent; answers match calls |
| `ShardKvClient` | connection to the shardmaster | routed Get ... MultiPut | stale configuration, one server of several failing | what a call reports agrees with what was executed; a failed MultiPut is a prefix; answers stay with their keys |
| `common/shard`, `common/config` | none | contains, split, overlap, get_server | boundaries, granularity | each key has one shard, whatever was split |

Only the stubs of the course are in place for `Join`, `Leave`, `Move`, `Query`,
`responsible_for`, `query_shardmaster` and the GDPR delete, so
re-configuration and shard transfer do not exist yet as behaviour.

The REPL splits a typed line into words and hands it to a command that checks it
and calls the client.

### weensyos

`kernel.cc` keeps physical pages with reference counts, a table of processes and
their page tables. Operations: `kalloc`, `kfree`, `process_setup`, the system calls
`page_alloc`, `fork`, `exit`, `yield`, page faults, the timer and the scheduler;
`k-vmiter.cc` walks and grows the page tables, `k-memviewer.cc` draws who uses
what, and a key restarts the machine. Hard: memory running out in the middle of
`fork`, reference counts that must match the mappings of a whole family of
processes, a search start that moves back and forth, a restart at any moment.
Correct: processes are isolated, each sees a private memory, pages neither leak nor are
freed in use, and every runnable process runs.

### dmalloc

A header before each block, statistics, a map of live blocks, over `basealloc.cc`,
which may reuse freed memory. Hard: verdicts read from headers of freed blocks, a
program that writes what looks like a header, sums and products that wrap. Correct:
blocks do not overlap, each free is judged right, statistics and leak report are exact.

### The rest

**fileio**: `student.c` passes every call through to the system; its cache is
allocated and never used. **snake**: `update`, `teardown` and the board
decompression are empty. **timemachine**: an essay. `zpp_bits.hpp` is vendored.

## Modules

| module | models | role |
|---|---|---|
| `FifoQueue` | the comments of `synchronized_queue.hpp` | abstract stoppable FIFO queue |
| `SynchronizedQueue` | `synchronized_queue.cpp` | the queue at the grain of its mutex, flag and condition variable |
| `SynchronizedQueueProofs` | | theorems about it |
| `KvStore` | `kvstore.hpp` | abstract linearizable store |
| `ConcurrentKvStore` | `concurrent_kvstore.{hpp,cpp}` | the store with a lock per bucket |
| `SimpleKvStore` | `simple_kvstore.{hpp,cpp}` | the store with one mutex |
| `ConcurrentKvStoreProofs` | | theorems about both stores |
| `KvServer` | `server.cpp`, `ClientConn` | the server's threads, composed with `SynchronizedQueue` |
| `StaticShardmaster` | `static_shardmaster.cpp`, `ClientConn` | the shardmaster's threads |
| `KvServerProofs` | | theorems about it |
| `MessageConnection` | `network_messages.cpp`, `network_helpers.cpp`, `network_conn.cpp` | one connection, byte by byte |
| `MessageConnectionProofs` | | theorems about it |
| `ClientCommands` | `repl.cpp` and the store commands | from a typed line to a call |
| `ShardKvClient` | `shardkv_client.cpp`, `simple_client.cpp`, `config.cpp`, `process_request` | sharded clients, composed with `ClientCommands` and the effects and replies of `KvStore` |
| `ShardKvClientProofs` | | theorems about it |
| `Shards` | `shard.{hpp,cpp}`, `movecommand.cpp` | shards as functions on buckets and strings |
| `ShardmasterProofs` | | theorems about `Shards` and `StaticShardmaster` |
| `ProcessMemory` | `u-lib.hh` | abstract machine: every process has a memory of its own |
| `WeensyKernel` | `kernel.cc`, `k-vmiter.cc`, `check_keyboard` | the kernel's memory, processes and scheduler |
| `MemoryViewer` | `k-memviewer.cc` | what `memshow` draws of a kernel state |
| `WeensyKernelProofs` | | theorems about the kernel and the viewer |
| `Dmalloc` | `dmalloc.cc`, `basealloc.cc` | the debugging allocator |
| `DmallocProofs` | | theorems about it |
| `MC...` | | instances for TLC |

### How state and actions correspond

**SynchronizedQueue.** `q`, `mtx` and `is_stopped` are the members; `pc[t]` is
where a thread is, `"asleep"` being blocked in `cv.wait`. A step is what no other
thread can split: code under the mutex up to the next read of the atomic flag;
`stop()` is two steps, the store to the flag (`StopSet`) and `notify_all`
(`StopNotify`), because it takes no mutex. `wait` gives up the mutex and
falls asleep in one step (`PopWait`) and takes the mutex again in another
(`PopRelock`). Wakeups may be spurious. `got`, `late` and `pushed` are
history variables that only properties read.

**ConcurrentKvStore.** The buckets' lists are one function `store` (a key hashes to
one bucket, its keys are distinct there, and their order is not observable). The
locks are `writer[b]` and `readers[b]`; a reader is a pair of a thread and the
number of its call, so that the locks which a failed MultiGet leaves behind are told
apart from those of the thread's next call. Each lock, each access of a key
and each unlock is a step. The real program may wait longer than the
model because a `shared_mutex` may prefer writers; no property here depends on it.

**SimpleKvStore.** The same with one mutex; MultiGet and MultiPut take a step per key.

**KvServer.** `sock[c]` is the server's end of a connection: never accepted, open,
shut down, closed, or lost when `getnameinfo` fails after `accept` and the descriptor stays
open without an owner (`AcceptFails`); `peer[c]` the client's end. An answer may fail to be
sent although the client is there, for a body has a time limit. The queue is an INSTANCE of
`SynchronizedQueue` whose variables are variables of the server: a worker's
`pop` starts with `WorkerPop`, goes on with steps of the queue (`QueueCall`) and ends
in `WorkerPopped`. Requests are counted, not interpreted: what they do to the store is
the subject of the store modules. After a failed `start()` the program exits.

**StaticShardmaster.** `hpc[c]` is where the handler thread of connection `c` is. A
critical section of `conns_mtx` is one step, except the listener's, which spawns
the handler in its middle, and that of `stop()`, which waits.

**MessageConnection.** `wire[e]` is the byte stream towards a side, a byte being the
message and the part (type, size, body) it belongs to. `ctl[e]` is where a side is in
`send_message` or `recv_message`: the part and how many of its bytes are done. `send` and
`recv` move any number of bytes up to what is left; a body, and only a body, has a
time limit, looked at between two pieces. End of stream fails the call. A send to a
peer that has gone fails, or, for a body, kills the process, since only the header is
sent with `MSG_NOSIGNAL`. A size passes the header modulo `WORD` (`htonl`), and a count
passes `sendall` and `recvall` as an `int` of that width (`IntOf`): a body that is moved
whole may still be a failed call, because its length is negative as an `int` or was cut
in the header, and a sender whose length comes back as another fails its assertion
(`GoodBody`, `BodyFails`). `kind` is what the client does with the connection after a
failed call: `SimpleClient` drops it, `ShardKvClient` keeps the one to the shardmaster
(after which it may read the rest of an old answer: `garbled`).

**ShardKvClient.** `call[c]` is where a call is: it queries the configuration, groups its
keys by `get_server`, then makes one request per server in the order of addresses.
A request may fail before it is executed (`RequestFails`), after (`AnswerLost`), or be
executed after the client has given up (`AnswerGivenUp`, `LateExecute`). What a
server does is `process_request` with `KvStore`'s effect and reply. `Reconfigure`
stands for a Join, Leave or Move that has taken effect at the shardmaster, whose own
handlers are stubs today. `hits` counts executions per key and `past` collects the configurations that have been in
force, both for the properties only: OneHome says that a call follows one configuration
of `past`, and that a server keeps only keys that one of them gave it.
`PutCommand` stores a blank after every word of a value, the last one included; the
model keeps that.

**Shards.** A string is a sequence of character numbers, two per letter for the two
cases, and a number that is no valid character. `split_into`, the three `split_shard`s
and `get_overlap` are functions of the same name; the state machine starts from any
`split_into` and splits any shard in any way that the functions' assertions, or in
one place their comments, admit. `sort_shards` puts the k-th shard where k - 1 lower
bounds are smaller, which is what `std::sort` does to bounds that differ. Its `Init`,
`Next` and so on have the prefix `Shards`, so that one module can extend it together
with `StaticShardmaster`.

**WeensyKernel.** Addresses are page numbers. `pages`, `next_alloc_pa`, `state`,
`current` are the kernel's variables; a page table is its root page, the pages of
its inner nodes (`tables`) and its leaf entries (`map`). The kernel cannot be
interrupted: while `kern.op` is not `"user"` no process runs. Its loops are still
one step per iteration, so each point at which `kalloc` can fail is a state, and
each failure's clean-up is steps of its own. Contents of pages are what programs wrote, or
where they came from. Registers are left out. `exit` leaves a stale `pagetable` pointer in
its slot, which the model clears: the slot's state guards every read of it. A remap by
`page_alloc`, and its failing `try_map`, lose a page; `lost` counts these references
(the second needs a table that the program's stack does not have, which neither the run's
machine nor `kernel.hh`'s memory map offers unless a boot ran out of memory), and those that `process_setup` loses in the same ways. `process_setup` does not test its
allocations: when one fails the model notes it (`starved`), and until the next restart
Isolation and KernelMapped claim nothing. RefcountExact and
NoFreePageLost hold even then. It also copies each segment with one `memset` and one `memcpy`
to physical memory, which is right only where the segment's pages follow one another;
`Load` writes the pages that the code writes; `ProgramsFit` is the condition on the machine
under which they are the segment's. Which process `memshow` shows and its colours are left out; when no process is left the
viewer attributes pages by address, so `DrawingTrue` speaks of a system with processes.

**Dmalloc.** `mem` holds a number per aligned address; a block's header is its flag
and its length. `dfree` is called with any number. A program writes into its live
blocks, also what looks like a flag. `size_t` arithmetic is modulo `SIZE_T`. The
behaviour ends where the process does: at a report followed by `abort`, at the
division by zero in `dcalloc(0, n)` (`trapped`), and at an erase of what the map
does not hold (`undefined`).

External, modelled from its use: the mutexes, the condition variable, the clients
(connect, send, hang up at any time). Clients send only requests of the server's own
protocol. The C library's `malloc`, the programs that run under WeensyOS, and the
byte stream of a connection.

## Runs

| run | checks | shows |
|---|---|---|
| `queue` | TypeOK, LockMatchesCritical, NoLostWakeup, ImplementsFifoQueue, StopReleasesSleepers | three threads, two calls each: the mutex is held in the critical sections only, notifying on empty loses no wakeup, the queue implements `FifoQueue`, and sleepers are woken by stop() |
| `queue_stop_releases` | StopReleasesAll | **violated**: a pop between its test of the flag and its wait misses stop() |
| `concurrent_store` | NoDataRace, AllKeysSound, CallsReturn, ImplementsKvStore | three overlapping calls of any kind: no race, linearizable, and ordered locking does not deadlock, leaks excepted |
| `simple_store` | ImplementsKvStore, CallsReturn | the simple store is linearizable, AllKeys too, and its calls all return |
| `server_safety` | ExclusiveService, StopReleasesConnections | two workers, two clients, a shardmaster: one worker per connection; stop() leaves none open that the listener was given |
| `server_liveness` | StopReturns, ConnectionsReleased | with clients that hang up, stop() returns and every connection is released |
| `shardmaster` | TypeOK, RemovalFindsConnection, NoThreadOutlivesStop, StopReturns | two connections: handlers find theirs, none outlives stop(), and stop() returns whatever clients do |
| `messages` | NeverGarbled, AnswersMatchCalls, CallsReturn, WorkerReleased | three calls over a stream cut anywhere: no message is read as another, bodies too long for the header or an `int` included; answers match calls, calls return, a vanished client frees its worker |
| `client` | OneHome, ExecutedAsReported, PartialIsPrefix, AnswersAligned | two clients, servers that fail, answers lost or late, changing configurations: reports agree with executions, and each call follows one configuration |
| `shards` | OneShardPerKey, OverlapAgrees | any division and any splits: a key of full length has one shard; overlaps agree with sets of keys |
| `kernel` | TypeOK, NoFreePageLost, Isolation, KernelMapped, RefcountExact, DrawingTrue, ImplementsProcessMemory, RunnableRuns | processes fork, exit, allocate, fault; memory runs out anywhere; restarts: exact counts, isolation, private memories that start with the program, no starvation |
| `dmalloc` | BlocksApart, FreesJudgedRight, AccountsExact | any five calls and any writes: blocks apart, frees judged right, exact statistics and leak report |

Every module's `TypeOK` (`ShardsTypeOK` in `Shards`) says what its variables hold. It is part of a run where it is
the base of the other properties' proofs and nothing else in the run implies it (queue,
shardmaster, kernel); elsewhere a run's properties are the ones above.

The violated one states a sentence of the repository's own comments and tests, quoted
in `PROJECT.json` under `findings`.

Deadlock checking is off throughout: bounded calls run out, a popper may wait on
a queue nobody fills, a server waits for clients, a kernel panics. That the program
does not stop where it should go on is what the liveness properties say.

### Disagreements that the models show without a run

The models contain the following behaviour of the code; the properties are stated so as
to hold beside it, and name the exception.

* A pop that was asleep when `stop()` was called delivers an element pushed after it;
  `synchronized_queue.hpp:51` says it returns without one.
* A failed `MultiGet` of the concurrent store returns with its buckets locked
  (`concurrent_kvstore.cpp:98`): the next writer waits for good. `CallsReturn` exempts it.
* A worker with an idle client does not see the stop flag, and `stop()` joins it
  (`server.cpp:112`; `server.hpp:105` says the loop exits when the server is stopped).
* The listener ends at a failed accept (`server.cpp:91`; `server.hpp:97`).
* A shardmaster connection is shut down and its descriptor never closed
  (`network_conn.cpp:13`; `static_shardmaster.cpp:99` says it is freed).
* A key shorter than the granularity may be in no shard (`shard.hpp:83`).
* `page_alloc` over a mapped address loses the old page (`kernel.cc:448`; `u-lib.hh:63`
  says it should be freed).
* `page_alloc` ignores the result of `try_map` and returns 0 (`kernel.cc:448`; `u-lib.hh:64`
  has -1 for out of memory). The model keeps no return values; for which machines this can
  happen, see WeensyKernel above.
* A descriptor whose name `getnameinfo` cannot tell stays open for good
  (`network_conn.cpp:88`); StopReleasesConnections and ConnectionsReleased speak of the
  connections that `accept_client` returned.
* A connection to the shardmaster is kept after a timeout in the middle of an answer, and
  the next query reads the rest of the old one (`shardkv_client.cpp:132`).
* A body is sent without `MSG_NOSIGNAL`, so a peer that closes between header and body
  ends the process (`network_messages.cpp:37`).
* `dcalloc(0, n)` divides by zero (`dmalloc.cc:184`), and a pointer into a block before
  which the program has written the live mark makes `dfree` erase `end()` (`dmalloc.cc:161`).
* `dfree` gives `base_free` a pointer that it does not know, so no memory is ever
  reused (`dmalloc.cc:162`), and `FreesJudgedRight` depends on it: with the base
  pointer, a second free of a block that has been given out again would pass.

### Bounds and why they are enough

* Queue: two sleepers and a pusher or a stopper are the cast of a lost wakeup; two
  calls let a thread come back and overtake a woken one. Two elements let the queue
  be non-empty before and after a push. More threads are covered by the theorems.
* Stores: two buckets, with two keys in one of them, and requests that name them in
  both orders, name a key twice, and give vectors of different lengths: what the
  sort, the duplicate removal and the length test are for. A cycle of
  waiting needs two calls and two locks. Linearizability is checked with three
  concurrent calls so that a third can see two others in an order.
* Server: two workers and two connections, so that a connection can be in the queue
  while another is served, and both workers can compete for one. The liveness run has
  one connection and two workers: one sleeps while the other serves.
* Shardmaster: two connections: one ending while the other is added or served. More
  are covered by the theorems.
* Messages: parts of two bytes and bodies of none and three let every boundary fall
  inside a piece, and the buffer of five holds the end of one message with the start of
  the next; three calls let a failure leave bytes for a later one. With a word of 8, a body of
  five has a negative length as an `int`, and one of eight or nine is cut in the header to
  none or one.
* Clients: two servers and three keys, so that a call has two keys at one server and one at
  the other, in both orders; two calls overlap, or one follows the other's late request.
* Shards: three characters and two levels give nine buckets: one to nine servers include
  even and uneven divisions at both levels; up to six shards let halves be split again.
* Kernel: three usable process slots let a page be shared by three processes of which any
  exits first; fourteen pages at most are enough for two processes and some of a third,
  so that every allocation of a fork fails in some behaviour; two inner nodes, one shared
  by all addresses and one by some, let `try_map` fail between them. One lost page (`MaxLost`).
* dmalloc: `size_t` of 32 units, so sums and products wrap; room for two chunks;
  five calls let a block be freed, others allocated, and it be freed again.
* `MaxRequests` bounds what clients send; a handler's loop has no state that depends
  on the count.

### Fairness

`FairSpec` gives weak fairness to each thread's steps: a runnable thread is scheduled.
`SynchronizedQueue`'s own `FairSpec` needs no more. Steps that take a contended mutex get
strong fairness in the server, its queue's included, and in the shardmaster, because spurious wakeups, which the models allow without end, can
otherwise take the mutex each time just before another thread does; real spurious wakeups are
rare and mutexes do not starve a waiter for ever. In the stores calls are finite
in number, and weak fairness is enough. No fairness is given to clients, to the
call of `stop()`, to spurious wakeups, or to failures, except that `accept` on a shut
down listening socket returns. `CooperativeSpec` adds that each client hangs up in
the end; `server_liveness` needs it, because a silent client pins its worker.

A side of a connection gets weak fairness of its progress;
making a call, leaving, and timeouts get none. The kernel's steps are weakly fair.
The timer is strongly fair, together with the first trap's drawing which precedes
it: a pending interrupt stays latched while the kernel runs with interrupts off, so
it is taken when a program next runs, whatever system calls that program makes.

## Theorems

TLAPS proves, for every value of the constants:

| module | theorem | states |
|---|---|---|
| `SynchronizedQueueProofs` | TypeCorrect | TypeOK |
| | LockDiscipline | LockMatchesCritical |
| | WakeupsNotLost | NoLostWakeup |
| | QueueRefinement | ImplementsFifoQueue |
| `ConcurrentKvStoreProofs` | TypeCorrect | TypeOK |
| | NoDataRaceTheorem | NoDataRace |
| | AllKeysTheorem | AllKeysSound |
| | Linearizable | ImplementsKvStore |
| | SimpleTypeCorrect | TypeOK of `SimpleKvStore` |
| | SimpleLinearizable | ImplementsKvStore of `SimpleKvStore` |
| `KvServerProofs` | TypeCorrect | TypeOK |
| | UsesQueue | the server's queue behaves as `SynchronizedQueue!Spec` |
| | ServiceIsExclusive | ExclusiveService |
| | StopReleases | StopReleasesConnections |
| `MessageConnectionProofs` | TypeCorrect | TypeOK |
| | Framing | NeverGarbled |
| | Matching | AnswersMatchCalls |
| `ShardKvClientProofs` | ReportsTrue | ExecutedAsReported |
| | PrefixExecuted | PartialIsPrefix |
| | KeysAtHome | OneHome |
| | AnswersInPlace | AnswersAligned, if SelfNamed |
| `WeensyKernelProofs` | TypeCorrect | TypeOK |
| | FreePagesFound | NoFreePageLost |
| | CountsExact | RefcountExact |
| | MemoryIsolated | Isolation |
| | KernelStaysMapped | KernelMapped |
| | DrawingTheorem | DrawingTrue |
| | BootsInOrder | LoadedInOrder (of the proof module), if ProgramsFit |
| | MemoriesPrivate | ImplementsProcessMemory, if ProgramsFit |
| `DmallocProofs` | BlocksDisjoint | BlocksApart |
| | FreesJudged | FreesJudgedRight |
| | AccountsTrue | AccountsExact |
| `ShardmasterProofs` | TypeCorrect | TypeOK of `StaticShardmaster` |
| | RemovalTheorem | RemovalFindsConnection |
| | NoThreadOutlivesStopTheorem | NoThreadOutlivesStop |
| | ShardsTypeCorrect | ShardsTypeOK |
| | ShardPerKey | OneShardPerKey |
| | OverlapRight | OverlapAgrees |

Assumptions are the `ASSUME`s of the modules, which TLC evaluates in each run:

* None is no thread, no element, no reply and, in the simple store, no part of a reply; Absent is no value; bounds are natural
  numbers; buckets are numbered from 0; a single-key request has one key. The threads
  of the server are different from each other (`DistinctAssumption`).
* Kernel: the boundaries of the address space are ordered as in `kernel.hh`, there are
  at least two process slots, and `NPROC + MaxLost < 255`: a page's count is a byte. The
  real kernel has 16 slots; how often a program remaps a page is not limited by it, so
  `MaxLost` is a genuine premise of every theorem about the kernel: after more losses of one
  shared page its count would wrap to 0, and a page that is mapped would be free. Neither page 0 nor the console's page is
  allocatable, as `allocatable_physical_address` has it. BootsInOrder and
  MemoriesPrivate have the premise `ProgramsFit`: there is a row of allocatable pages,
  with at most one before it, that suffices for the root, tables, program and stack of all
  processes of the largest boot; and the tables on the way to a segment are those of the
  kernel's own pages. The code relies on this and does not test it. It holds in
  `kernel.hh`'s memory map: pages 1 to 63 lie before the kernel, a process takes a
  root, four tables and its own pages, and the kernel's last page and the
  programs below 0x200000 share one table. The run's machine has a page that lies alone
  before its row; TLC evaluates `ProgramsFit` for it (`MachineFits`).
* dmalloc: `size_t` holds two headers, a header is two aligned words or more.
* Shards: there is a character and a granularity, `split_into` is asked for no more
  servers than the finest granularity has buckets, and what a user types is strings.
* Client: what a user types is a sequence of strings, keys in calls are keys
  (`KeysNamed`), configurations are numbered by naturals. AnswersInPlace speaks of users
  who give each key its own name as value (`SelfNamed`), a labelling by which keys
  and values that belong together can be told from others.

**Queue.** NoLostWakeup is not inductive. A thread may fall asleep only when the
queue is empty (`WaitOnlyWhenEmpty`: at the step before the wait the queue is empty
and stays so, as the thread holds the mutex), which needs mutual exclusion
(`LockMatchesCritical`). When a push makes the queue non-empty it moves to
`push_notify`, and nobody falls asleep until the queue is empty again. The refinement
also needs `PushHasArgument` and `LateStopsAtCheck` (a pop that began after the stop
never passes its test of the flag).

**ConcurrentKvStore.** `LockInv`: a thread's locks are recorded at their
buckets (`HeldIsOwned`), a bucket with a writer has no readers
(`WriterExcludesReaders`), and what a call touches is among what it holds
(`TouchesHeld`). Locks left by a failed MultiGet only add readers, so they
cannot break exclusion; they block writers.

AllKeysSound needs `DataInv`: the types, where each loop is, and what the scan has found
so far: of the buckets it has passed, every key that was there since the call began, and of
any bucket no key that never was.

Linearizability: the instant of a call is the step that takes its last lock
(`StartAccess`), or the test that refuses a MultiPut. From there the abstract store is
ahead of the concrete one. `LinInv` says by what: a bucket has at most one call that
writes it, so each key has the value that this call will have given it
(`ViewOK`), and a call's answers so far are those of the reply fixed at its instant
(`Answers`). The effect and the reply of a request depend on each key on its own
(`EffectLocal`, `ReplyLocal`). The loops over keys are followed one iteration at a
time (`AssignStep`, `ReadStep`); that a key given twice ends with its last value needs
a last position, which is a least counterexample on a well-founded order.

**SimpleKvStore.** The instant of a call is the step that takes the mutex, and from there
the abstract store is ahead by what the call has still to do (`SimpleInv`); only one call
has the mutex, so the lemmas about loops and replies of the other store apply as they are,
with AllKeys one more read.

**KvServer.** An open connection is in exactly one place: with the listener, in the queue,
with one worker, or with `stop()` (`OpenPlaced`, `OnePlace`). Each step moves at most
one connection, or all that are queued, from one place to the next. The steps on the
queue are steps of `SynchronizedQueue`, which is UsesQueue, so everything proved of the
queue holds in the server. When `stop()` has returned no place is left.

**StaticShardmaster.** RemovalFindsConnection rests on `ConnsTracked`: a handler
that has been spawned and has not removed its connection has it in
`current_conns`, unless the listener is still between the spawn and the
insertion, in which case it owns the mutex (`MutexOwned`, `ListenerHolds`).
NoThreadOutlivesStop adds `SocketsMatch` and `ListenerJoined`: once `stop()` has
passed the join, the listener can add nothing, so an empty `current_conns` stays
empty.

**MessageConnection.** As long as no call on a kept connection has failed, what is on the
wire towards a side is exactly the piece between what that side has taken and what
its peer has sent of one message, the one that the side awaits or will await
(`Protocol`, `Flow`); calls and answers alternate, so a wire never holds bytes of two messages.
A body of the wrong length ends the call before anything follows it on the wire (`GoodBody`).

**ShardKvClient.** `Executions`: a call is untouched, under way (executed at the servers
already asked, nowhere else) or stopped after a first part of its servers, with at most one request
of it still held by a server (`LateOnce`), which is the next part (`LateOK`). `Homes`
ties stores, calls and held requests to configurations that have been in force, which only
grow in number. AnswersInPlace adds
`Aligned`: what is stored, held or collected under a key is made of that key's own name.

**WeensyKernel.** All steps of the kernel are fifteen kinds of moves on references (take a fresh
page, enter a leaf, enter a table, drop, lose, ...). The invariant is exact counts in
every state inside the loops, together with what each loop has done so
far. Exact counts make a page that `kalloc` finds unused by everyone; a shared page is
referred to by leaf entries at one address of at most `NPROC - 1` processes, plus what is lost,
so the byte does not wrap. Isolation and KernelMapped follow from the same invariant.

The refinement of `ProcessMemory` needs the contents of pages too (`Contents`): what
`fork` has copied so far, the zeroes that `page_alloc` holds, and what `process_setup` has mapped
and loaded. `kalloc` writes only to a page that nobody refers to and `kfree` only to one
that nobody refers to any more, so neither is seen (`KallocKeeps`, `KfreeKeeps`). With
these, each step of the kernel is a step of one process on its own memory, a start, a fork,
an exit, a switch or a restart, or changes no process's memory; there is one lemma for each
(`SetupImplements`, `ForkImplements`, `StoreImplements`, ...). That Load writes the program and
nothing else follows from LoadedInOrder (`LoadRange`): there is memory, and a segment's pages
are in a row.

LoadedInOrder comes from the constants. A boot frees nothing, so free pages are those from
`next_alloc_pa` on. How many pages the process under way has taken is its root, its tables and the
pages it has filled (`Spent`); that all processes so far have not taken more bounds
`next_alloc_pa` within the row (`BootTakes`, `KallocRow`). The first root takes the page that can
lie before the row (`PastBelow`). The kernel's own pages are mapped first and leave no table to
take while a segment is mapped (`KernelTables`), so its pages follow one another (`InRow`).

**MemoryViewer.** The viewer walks page tables and never looks at a count; exact counts tie
what it finds to `pages`. The proof needs one thing more, that the roots of processes
are different pages (`Rooted`); then a table page is seen in one role and by one
process, and each process that maps a page is a reference of its own.

**Dmalloc.** Chunks lie apart; the headers of live and freed blocks are as `dmalloc` and
`dfree` left them, because a program writes only into live blocks and, `frees` being empty,
nothing is given out again. A step gives out a block, fails, reports, accepts a free, or
writes; each is one lemma. The active size is a sum over a set; that it changes by the element
that is added or removed is proved on the recursive function that defines it, by taking the
least size of a set for which it is wrong.

**Shards.** Two words of one length are ordered as their buckets are (`BucketOrder`: from the
first difference on, the sum of one stays ahead by a power that the rest of the other
cannot make up), and `bucket_to_str` undoes `str_to_bucket` (`BucketWord`). So shards
are intervals of numbers, and the invariant is that they follow one another and leave no
number out (`Divided`). `split_into`'s boundaries rise from 0 to the last bucket, remainder
included; a split replaces an interval by two that meet, and the rank of each lower
bound is its place after the sort (`Sorted`). The keys of a shard are those whose prefix
lies between its bounds; since the bounds are keys themselves, inclusion and
intersection of the sets are comparisons of bounds, the cases of `get_overlap`.

What a recursive function computes is proved here without an induction theorem: a set of
numbers that has 0 and with each number the next has them all, because the library's
well-foundedness of `<` gives the others a least member (`UpTo`, `Smallest`).

Only model-checked: all liveness (StopReleasesSleepers, CallsReturn, StopReturns,
ConnectionsReleased, WorkerReleased, RunnableRuns), which is outside the prover's reach.

## Not modelled, and why

* `KvServer` does not read its requests: whether one arrives is `MessageConnection`'s
  subject, what it does `ShardKvClient`'s and the stores'. `responsible_for` and
  `query_shardmaster` are stubs in the code, as are the shardmaster's Join, Leave, Move
  and Query and the GDPR delete.
* The bytes of a message body are zpp_bits' work; that it refuses a body whose end is
  missing is taken from it.
* Opening sockets, address parsing, command-line options, and commands that only print.
* The four levels of x86-64 page tables are a root and one or two inner nodes in the model; the address arithmetic of
  `vmiter` is left out; so are devices, boot sectors, assembly and the console.
* WeensyOS's C library subset and its programs: the programs are the environment.
* `fileio` and `snake` are stencils: there is no cache and no board update to model.
* Inputs that the functions' callers never give, or that are undefined at once: a
  `split_shard` at a shard's own bound or at a key of another length (`shard.cpp:141`), a
  `move` line with an odd number of bounds, which reads past its tokens
  (`movecommand.cpp:11`).
* Counting the descriptors of a client process: `~ServerConn` never closes its socket
  (`network_conn.hpp:74`).
* A count of references that wraps (`kernel.hh:51`): `PageAlloc` stops at `MaxLost`.
* What ends the server from outside its threads: that SIGPIPE may kill it is in
  `MessageConnection` only.
* The leak report's step back from the first element of its map (`dmalloc.cc:117`), after
  which the process ends as it would have.
* Build tools, tests and the vendored `zpp_bits.hpp`.

## Plan

Done, in this order: queue and its proofs; abstract store, concurrent and simple
store; server composed with the queue; shardmaster and its proofs; the kernel with its
abstract machine and viewer; messages; commands and sharded client; shards; dmalloc;
the proofs about the server, the kernel, the messages, dmalloc, the client, and the
linearizability of the concurrent store.

After these came the proofs about the simple store, the sums of dmalloc, the viewer, the
shards, and the refinement of the kernel.

Liveness stays with TLC.
