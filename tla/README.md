# xlibsax in TLA+

This directory specifies the parts of `src/libsax/sax` whose correctness depends on the order in which
things happen: the event queue between threads, the stages built on it, the timer wheel and its stage, the network transport, the
reader-writer lock, the fifo, the pools, the buffers, the log files and the B-tree database.  TLC checks the specifications on small
instances; TLAPS proves the central facts about the event queue, the stages, the timer wheel, the transport, the reader-writer
lock, the fifo, the pools, the buffers, the log files and the B-tree for every instance.

* [The system](#the-system) - inventory of the library
* [The modules](#the-modules) - what models what
* [The runs](#the-runs) - what TLC checks, with which bounds and which fairness
* [The proofs](#the-proofs)
* [What the checks found](#what-the-checks-found)
* [What is left out](#what-is-left-out) and [The plan](#the-plan)

`PROJECT.json` lists, for every definition, the source lines it stands for, and the hazards of the code
with the properties that watch them.

## The system

libsax is a C/C++ library for servers in the staged event-driven style (SEDA): *stages* of worker threads
exchange events through bounded queues, a timer stage turns delays into events, a transport turns socket
readiness into callbacks, and a logger is itself a stage.

```
   create_stage / stop_all                       g_timer_poll, callbacks
        main thread                                    |
            |                                     timer wheel (timer.c)
            v                                          |
   stage_mgr (_lock, _stages)                     stimer stage (stimer.h)
            |                                          |  timer_timeout_event
            v               dispatcher                 v
   stage  --+-->  thread_obj  <---- event_queue <---- allocate_event / push_event by handlers
            +-->  thread_obj  <---- event_queue          of any stage
                    |  on_start, on_event, on_finish
                    v
                  handler  ---->  transport (net/netutil.cpp) over EDA (os_net.c), linked_buffer
                           ---->  log stage -> log_file_writer
```

### Components, their state and what makes them correct

**Event queue** (`stage/event_queue.h`).  State: a byte buffer `_buf` of `_cap` bytes, the positions
`_alloc_pos` (written by producers under a spin lock) and `_free_pos` (written by the consumer without one).
Operations: `allocate_event` (reserve and construct), `commit_event`, `pop_event`, `destroy_event`.
Hard: the consumer reads what producers write inside their critical section; a producer works with a copy
of `_free_pos` that may be stale; blocks wrap to the front behind a `SKIPPED` marker, or without one where
the rest of the buffer is too short to hold it; events are committed in another order than allocated.
Correct when: live blocks never overlap; full is never taken for empty; only headers are read as headers;
events come out intact, once, in the order of their allocation, and only after their commit; a waiting
producer gets its turn.

**Stages and worker threads** (`stage/stage.h`).  State: per thread `_create_status`, `_thread`, `_stop`,
its queue; per stage its threads, dispatcher and `_stopped`.  Operations: `create_stage` with a failure path
that unwinds threads already started, the run loop, `allocate_event`/`push_event`, `signal_stop`,
`wait_for_stop`, destructors that drain what is left.  Hard: threads run before their stage is
complete; a thread start that fails half way; events that arrive while a thread decides to leave; a thread
that waits for room in the queue of one that has left.  Correct when: handlers run only in complete stages;
nothing is deleted that somebody may still use; events committed in time are handled; creation and stopping
come to an end.

**Stage manager** (`stage/stage_mgr.cpp`).  State: the list of stages and a spin lock.  Operations:
`register_stage`, `get_stage_by_name`, `stop_all`.  Hard: `stop_all` holds the lock while it joins threads
whose handlers may ask for it.

**Dispatchers** (`stage/dispatcher.h`).  State: `_curr`, incremented by all senders without synchronisation.
Correct when the index returned is that of a queue of the stage.

**Event types** (`stage/event_type.h`).  No state; class constants number the events.  A user event carries
`TID` where its class constant is `TID + USER_TYPE_START`.

**Timer wheel** (`timer.c`).  State: four levels of 256 slots, each a list of nodes, a 32-bit clock `last`
and a count.  Operations: `g_timer_start`, `g_timer_cancel`, `g_timer_poll`; callbacks run inside the poll
and start and cancel timers.  One thread owns a timer.  Hard: cascading on all levels at once, the wrap of
the clock, calls made in the middle of a poll, nodes reused by the pool.  Correct when every timer fires at
its tick, once, unless cancelled first.

**Stimer stage** (`stage/stimer.h`).  A timer wheel inside a stage with a run loop of its own; it may wait for
room in the queue of a stage whose thread waits for room in the stimer's queue, and starts timers relative
to a clock that lags behind.  Correct when the wheel follows the clock and every request is answered.

**Network transport and poller** (`net/netutil.cpp`, `os_net.c`).  State: an array of contexts by descriptor, shared by
the transports that were cloned from one another, each context with the sequence number of its
connection, a read and a write buffer; the poller's set.  Operations: `listen`, `bind`, `connect` and their clones, `send`,
`close`, and `poll`, which turns readiness into `on_accepted`, `on_tcp_received`, `on_tcp_sent`, `on_closed`, in
which the handler calls back.  Hard: readiness events of a round that arrive after a callback
closed the descriptor and another connection got the number; other threads that get it; ids kept for too long, and compared while another
thread stores a new one; partial writes; a write buffer that cannot grow.  Correct when: a context in use belongs to the socket of its descriptor;
every stream has its bytes in order, once; the poller watches for room exactly while bytes wait; an id closes its
own connection only; a callback is about the connection it names.  How far the code is that, see `strayed` below.

**Buffers** (`net/linked_buffer.h`, `net/buffer.h`).  A byte sequence, in a chain of blocks or in one piece of memory that is
replaced by a larger one, with position, limit and mark.  Hard: positions at the end of a block; blocks and
memory that move while positions are held.  Correct when bytes read back as they were put.

**Log file writer** (`logger/log_file_writer.h`).  State: the files on disk, numbered by rotation; `_curr_logfiles`,
`_curr_size`, the stream.  Operations: `log`, `rotate`, `open`, `close`, the setters.  Hard: the end of the process
between two renames; a file that cannot be opened; the files miscounted after either.  Correct when smaller
numbers mean newer lines, and only the oldest are dropped.

**Memory pools** (`mempool.c`, `slabutil.h`, `c++/pools.h`).  The slab allocator: page entries, lists of free runs and of
pages by size of chunk, bitmaps.  The fsb pool: a ring of free ids between one thread that allocates and one that frees, and
keys with magic numbers by which blocks are looked up.  xslab: a stack of free nodes.  Correct when nothing is
handed out twice or lost, and a key of a freed block finds nothing.

**Thread primitives** (`os_api.c`).  Spin lock, reader-writer spin lock (a flag and a count in one word, and a count of
waiting writers), semaphores.  Correct when a writer is alone, the counts come back to 0, and writers that
are to be preferred are not starved.

**Thread manager** (`sysutil.cpp`).  A count of threads that are alive, which each thread raises itself once it runs: `stop` may
return before.  Nothing in the repository uses it.

**Bounded fifo** (`c++/fifo.h`).  Two semaphores and a spin lock at each end.  Correct when items come out in the order they went
in, once, and no place is lost.

**Embedded databases** (`db/btreedb.cpp`, `db/btree_node.cpp`, `db/hashdb.cpp`).  btreedb: a file of pages with a header, the nodes loaded from it, the root,
the counts of items and pages, and cursors that name a node and a place in it.  Operations: `insert`, `del`, `update`,
`find`, `search`, `seq`, `range`, `commit`, `flush`, `close`, `open`, `optimize`, `clear`, `fillCache`.  Hard: splits of one node into two and of two
into three, loans and merges on the way down; a cache that unloads all nodes but the root at the start of a call, under cursors
too; commits that come when they come, and a process that ends between them.  Correct when the client sees the dictionary it made, in the order of the
keys, and a later `open` finds it as it was last saved.  hashdb is the same over a hash table of chained buckets.

**Containers, hashes, text utilities, protocol encoding, logger front end**: sequential code without
behaviour over time.  **xml, stx, tools, net2, net_old, win32**: vendored code, or not part of the
library's build.

## The modules

| module | models | role |
| --- | --- | --- |
| `EventChannel` | - | abstract: a first-in first-out channel with allocation, commit and handling |
| `EventQueue` | `stage/event_queue.h` | the ring, word by word; implements `EventChannel` |
| `EventQueueProofs` | - | theorems about `EventQueue` |
| `Stage` | `stage/stage.h`, `stage/stage_mgr.cpp`, `stage/dispatcher.h` | threads, stages, creation, stopping; every queue an `EventChannel` of bounded length |
| `StageProofs` | - | theorems about `Stage`, its queues as `EventChannel`s, and `Stimer` in `MCStage` |
| `TimerService` | - | abstract: a timer fires after exactly its delay |
| `TimerWheel` | `timer.c` | the four-level wheel; implements `TimerService` |
| `TimerWheelProofs` | - | theorems about `TimerWheel` |
| `TimerClients` | `timer.h`, `test/t_timer.cpp` | users of one `TimerWheel` and the handles they keep |
| `Stimer` | `stage/stimer.h`, `stage/stage.h` | the timer stage over `TimerService`, a stage that asks it, and the clock |
| `Transport` | `net/netutil.cpp`, `os_net.c` | transports, their handlers and users, over an abstract kernel |
| `TransportProofs` | - | theorems about `Transport` |
| `ByteTape` | - | abstract: a tape of bytes with position, mark and limit |
| `LinkedBuffer` | `net/linked_buffer.h` | the chain of blocks; implements `ByteTape` |
| `Buffer` | `net/buffer.h` | the buffer in one piece; implements `ByteTape` |
| `SpinRW` | `os_api.c` | the reader-writer spin lock, an atomic operation per step |
| `Fifo` | `c++/fifo.h` | pushers and poppers, an operation on a semaphore or lock per step |
| `FsbPool` | `mempool.c` | the pool of fixed blocks, with its two threads |
| `SlabPool` | `mempool.c` | the slab allocator |
| `SlabPoolProofs` | - | theorems about `SlabPool` |
| `LogFileWriter` | `logger/log_file_writer.h` | rotation, a rename per step, with restarts |
| `PartsProofs` | - | theorems about `SpinRW`, `Fifo`, `FsbPool`, `LogFileWriter` and the buffers, and about all parts as `MCParts` composes them |
| `ItemStore` | - | abstract: a dictionary that is saved now and then |
| `BTreeSteps` | `db/btreedb.cpp`, `db/btree_node.cpp` | one round of each loop, and the file, as functions of trees |
| `BTree` | `db/btreedb.cpp` | whole insertions, deletions and searches: rounds until they end |
| `BTreeDb` | `db/btreedb.cpp`, `db/btreedb.h` | a file, its nodes in memory and a client, a call per step, with cursors; implements `ItemStore` |
| `BTreeCalls` | `db/btreedb.cpp` | the same without cursors, a round of a call per step; implements `ItemStore` |
| `BTreeInsertProofs` | - | lemmas about `BTreeSteps`: cuts, joins, loans and insertions keep a B-tree |
| `BTreeProofs` | - | theorems about `BTreeCalls` |
| `MCEventQueue`, `MCStage`, `MCTimerWheel`, `MCTimerClients`, `MCTransport`, `MCParts`, `MCDatabase`, `MCLiveness` | - | the instances TLC runs |

The modules about code also hold, beside some operators, a variant commented as *a slip*: the same operator
with a plausible programming error.  No specification uses them.  Each property of the runs fails when the
variant named in `PROJECT.json` takes the place of the original, which shows that the property can tell the
difference.

### EventQueue

| variable | code |
| --- | --- |
| `allocPos`, `freePos`, `mem` | `_alloc_pos`, `_free_pos`, `_buf` |
| `lock` | `_lock`, with the thread that has it |
| `pc`, `len`, `wait`, `ptr`, `skip` | a producer inside `allocate_event`: `new_len`, `wait`, `new_alloc_pos`, `skip_flag` |
| `held` | the pointers it has been given and not committed |
| `cpc`, `ev` | the consumer inside `pop_event` ... `destroy_event`, and its event |
| `blocks` | none: the live blocks in the order of their allocation, for the properties |

*One step per access to shared memory.*  `allocate()` reads `_free_pos` once (`Load`), writes the header
(`WriteHeader`), the marker (`WriteMarker`) and `_alloc_pos` (`Publish`), each a step.  `_alloc_pos` changes
only under the lock, so `Load` may read it in the same step.  The consumer is cut the same way.  The two
header fields are written in one step: both precede the store that publishes them, and before that store the
consumer does not touch these words (`ReadsOnlyHeaders` checks that it reads no header but those of published blocks).

*Words.*  The ring is counted in words of 4 bytes: a header is 2 words and every block a whole number of
words, as `ALIGN_SIZE` makes them.  `Cap` need not be a multiple of anything, as the constructor takes any
capacity.

*Values.*  A word holds a state, a length, the name of the producer whose event it is part of, or `Junk`.
`mem` is never trusted: a header field read from a word that holds something else yields any value (`StateAt`,
`SizeAt`), so that an invariant which fails to keep the consumer on headers would be found out.

*Memory model.*  Sequentially consistent.  The positions and states are `volatile`, stores are not reordered
with stores on the machines the library is built for, and `commit_event` is kept out of line so that the
compiler does not sink the construction of the event below the commit (the comment at
`event_queue.h:100-113`).  On a weaker machine the model would claim too much.

### Stage

The main thread creates the stages of `NumThreads` one after the other, and then may call `stop_all` (an action
without fairness: a server may run for ever).  `mpc`, `cur`, `idx` say where it is; the loops of `stop_all`
(`SignalStop`, `WaitForStop`, `Drain`/`Drop`/`DeleteStage`) take one step per thread, or one per event.  A stage
thread goes through `born -> on_start -> pop <-> check / on_event -> on_finish -> exited`.

The handlers are those of the pipeline in `test/t_stage.cpp`: `on_start` sends `Emits[s]` events, `on_event`
forwards one event to `Dest[s]`; the handlers of `LooksUp` also call `get_stage_by_name`.  A stage sends only to stages created before, as
there. `Dispatch` takes any queue of the destination: with several senders incrementing `_curr` at the
same time every index can come out, and no order is promised.

After a `create_stage` that failed the main thread creates nothing more, and stops what there is; this is what the
test's `main` does, and it is an assumption about the environment.

A queue is a sequence of events of at most `QueueCap`, that is, `EventChannel` with a bound.  Blocks of one size
are assumed, so that "has room" is a question of numbers.  `QueuesAreChannels` checks that stages use each queue
as the channel allows, by one consumer at a time in particular: first the thread, then, once it is joined, the
destructor.  `EventQueue` implements the channel for such users, so the two compose.  The events are marked `late` when their commit came after the
receiving thread had last looked, for `LeftBehindCameLate`.

### TimerWheel

`where[h]` is the slot whose list the node is linked into, `expire`, `last` and `count` are the fields of the same
names, `polling` and `busy` say how far `g_timer_poll` has got.  The list of a slot is a set: the order in which
timers of the same tick fire follows the list in the code, any order in the model.  Digits have `Base` values
instead of 256, and the clock wraps at `Base^4` as the `uint32_t` does.

`Tick` is one round of the loop in `g_timer_poll` up to `fire()`, cascade included; `Fire` and `Return` bracket a
callback, between which clients may start and cancel; `EndTick` is the end of the list.  A `Start` may take any
free node, which includes the last one freed, the one the pool in fact prefers.  The node of the callback that runs is not
free: `fire()` returns it to the pool after the callback.

`Rescheduled` says what `reschedule()` does, including that it empties the list at the end: a node that `schedule()`
put back into the slot it came from would be lost.  `Placed` and `ImplementsService` show that it never happens.

`TimerService` states the promise as counters: `left[h]` ticks to go.  The wheel's slots and digits do not appear in
it, only one consequence of theirs: a delay of 0 asked for outside a callback finds its slot already
served and waits for a whole lap of level 1 (256 ticks in the code).

### Stimer

| variable | code |
| --- | --- |
| `requests`, `timeouts` | the queue of the timer stage, that of the stage that asks |
| `pc`, `turns`, `idles` | where `stimer_threadobj::run` stands, its `count` and `idle_count` |
| `behind` | `g_now_ms() - _last_ms` |
| `ticks`, `ahead` | the ticks that the `g_timer_poll` under way has still to do, and `now_ms - _last_ms` |
| `left`, `inTick`, `busy` | the timers, as in `TimerService` |
| `bpc`, `stop` | where the asking thread stands; `_stop` of each |
| `due` | none: the time left by the clock, counted from the last poll before `on_event`, for `WheelKeepsTime` |

The clock (`Clock`) ticks at any moment: between a request and `on_event`, between the reading of the clock and the ticks, inside a
callback that waits for room.  It is not set back (the code would note the new time and go on from there).
`on_event` starts a timer in the wheel, whose time is that of the last poll: a timeout may therefore come early, by what had passed since, and
the model has it so.  A delay of 0 waits for a lap, as in `TimerService`.

`count` of the run loop is never reset.  Once it is `POLLING_COUNT` every round ends with a poll, until the `int32_t` overflows and stays
below for about 2^31 rounds; the model lets it start over at 0 at any time, which makes `TimeoutsArrive` rest on the polls of
idle rounds too.

`_timer_proc` waits for room in the asking stage's queue in the middle of a poll, and a handler there may wait for room in the queue of the timer
stage, which only the thread in that poll could make.  `TimeoutsArrive` names this state, `CircularWait`, as an exception: nothing in the code
prevents it, and it occurs in the instance.  `run` leaves at once when `_stop` is set, with what is in its queue; this is the other exception.
The asking thread handles a timeout and may ask again, for the same request; other threads ask when nothing of that request
is under way.

### Transport

| variable | code |
| --- | --- |
| `ctx`, `seq`, `interest` | `_ctx`, `_seq`, the epoll set of `_eda` |
| `stack` | the call stack of each transport's thread inside `poll`: `eda_callback`, the `handle_...` function, the handler's callback, and what `close` still has to do |
| `round` | the events of the `g_eda_poll` under way that are still to be handed out |
| `known` | the ids the program has been given, and keeps |
| `sock`, `opened` | external: which socket a descriptor names |
| `by` of a context | none: the transport that opened its socket, for the properties |
| `strayed` | none: whether a thread has used a context for another socket than the one it meant, for the properties |

A step ends where the program's own code runs, at each callback, and where another thread can take a context for its own.  There are two such places.
In `close` the context is cleared before `g_close_socket` (`Close`, `CloseSocket`).  In `add_fd` the number of the new id is stored before the name
of its transport (`netutil.cpp:136`, `137`): `NewSocket` ends with the first, `NameContext` is the second, and hands the id out.  In between the context has
the new number and the name of the transport that had the descriptor before, and that one's old id of the same number, if the program has kept it,
compares equal.  What each step takes together:

* The stores of `add_fd` before line 136 leave `seq` at -1, so nobody who compares an id takes the context for open; they are one step with that store.
* `operator==` (`netutil.h:45-48`) reads the number and then the name, in one step here.  Only a transport itself ever stores its own name,
  so a thread that finds its name found the number beside it.
* `close` up to `g_close_socket`, `send` and `handle_tcp_write` between two callbacks are one step each: on a connection of its own a
  thread is alone.  On another's it is not, which is where the model stops to claim anything, as follows.

`strayed` is set when a thread uses a context of another socket than the one it meant.  There are two ways to that.  One is a late event: it is looked
up by descriptor, so its error, its write part or its end closes the *new* connection's context; if that belongs to another transport's thread, which is
about to close it too, two threads come to `g_close_socket` with one descriptor, and the second closes whatever has got the number in the
meantime (`EdaCallback`, `EndConnection`, `HandlerClose`).  The other is an old id that compares equal in the middle of `add_fd`: `close` with it ends
the new connection, `send` puts bytes into its write buffer and asks its own poller to watch (`UserClose`, `Send`); or `NameContext` finds that
this has happened.  The code guards against neither.  From then on two threads may be in one context without a lock, in orders the model does not have, so
no property but the types claims anything; `ClosesItsOwn`, whose subject is the very step that strays, has an exception for the middle of
`add_fd` (`BeingNamed`).  Without that exception TLC shows the race within seconds, as it
shows the context with two owners without the one in `ContextsMatchSockets`.

The handler may, in any callback of `CloseFrom`, close its own connection; between polls the program may
close (sockets of the kinds `UserCloses`) and send on any id it has ever been given, old ones included.  Two transports share their contexts, as
`clone` makes them, and the kernel may hand out a descriptor as soon as it is closed.  `listen_clone` and `bind_clone` are called
with the id of a socket that is open; the code looks at the type in the context only (`netutil.cpp:164-165`, `189-190`).  Any registered descriptor may
be reported, for reading, for room if that was asked for, or with an error.  Payloads are numbers, so that a
stream is intact when it counts from 1.

`Read` and `EdaCallback` are the two halves of `eda_callback`; the callbacks called by the first run
between them, and whatever they close and open is what the second finds.  `CallbacksFindTheirs` is about just that.

`Callback`, `Users`, `HandlerReads` and `HandlerReturns` are the program's, and external.  A handler that closes *another* connection with an
event in the same round, or its own in its last `on_tcp_received` (`CloseFrom = "last"`), meets the code outside of
what it can do: the first dereferences a buffer that is gone or reads a wrong context, the second closes the
descriptor twice.  The runs have neither.

### LinkedBuffer, Buffer

A position of `LinkedBuffer` is the number of a block in the chain, a place in it and the count of bytes since `_zero`, as
in `struct pos`; blocks are renumbered when those in front are freed, and no position is held across
that except those that `compact` sets.  `Advance` is the loop of `put`, `get` and `skip`, with its one peculiarity: a block filled by the
*first* bytes is left, one filled by *later* bytes is not.  `Buffer` is a sequence.

Callers ask `remaining()` before `direct_get`, and keep the argument of `limit()` within what was written and beyond
position and mark; these are assumptions about them.  Numbers of 1, 2, 4 and 8 bytes are `put` and `get` of such lengths.

Both refine `ByteTape` with a mapping that is a few lines (`Tape`, and the fields).  The tape is only as long as
something can be read of it: behind position, mark and limit nothing is promised, and `DirectPut` of the tape
says that memory which moves takes only what is before the position along: bytes between the
position and a mark ahead of it are lost.

### SpinRW

`flag` and `readers` are the two parts of `sem`.  One step per access to `sem` or `w`: a compare-and-swap, an addition, a load.
The plain test before a compare-and-swap belongs to it, as it can only spare one that would fail.  `LockW` and `LockR`
stand for the blocking and for the `try_` calls, which may leave at `NoTime`, `GiveUp`, `GiveUpR`.

### Fifo, FsbPool, SlabPool, LogFileWriter

`Fifo`: waiting is a guard on the count; a wait in vain changes nothing.  Items are numbered when they are stored, which
is the order they should be taken in.  Between `enter` and `leave` there is a step for the place and one for moving the end and
leaving, so that a pusher and a popper can each be half done.

`FsbPool`: as in its header, one thread allocates and one frees.  `live` are the blocks handed out, `stale` the keys of freed ones with
their age; a magic number comes back after `Magics - 1` allocations (2^32 - 1 in the code), and keys older than that are forgotten.

`SlabPool`: the page entries with their `next`, `prev` and `slab`; list heads are nodes after the pages.  Types of pages, the
three encodings of `slab`, bitmaps with the bits of the bitmap's own chunks, splitting of free runs and the order of
the lists are those of the code; addresses count from `pool->start`.  Only pointers that were handed out, once each, are
freed, and calls are serialised, as the users in `slabutil.h` do.  Free runs side by side are never joined, in the code and
here, so the pool may refuse a large run when all is free: no property says otherwise.

`LogFileWriter`: `file[n][k]` is the set of lines in file `n.k`, `{0}` if there is none.  A rotation is a step per
`remove` and `rename`, and `Restart` may come between any two: everything but the files, and the setting of
`_max_logfiles`, is lost.  `clean` is a history variable for `DropsOldest`.  A `rename` or `remove` that fails is left out.

### ItemStore, BTreeSteps, BTree, BTreeDb, BTreeCalls

| variable | code |
| --- | --- |
| `tree.mem`, `tree.dirty` | the `btree_node`s with `isLoaded`, those with `isDirty` |
| `tree.root`, `tree.num`, `tree.pages` | `_root`, `_sfh.numItems`, `_sfh.nPages` in memory |
| `file` | the pages of the file and its header |
| `cursor` | a cursor of the client: node and place |
| `open`, `answer`, `scope`, `steps` | `_isOpen`; what the last call returned; the client's keys, values and size of cache, and its number of calls |

`BTreeSteps` and `BTree` have no variables.  In `BTreeSteps`, `InsertStep` and `DeleteStep` are one round of the loops of `insert` (at `L1`) and `_delete` (at
`L0`): they map a tree and the page the loop is at to a tree and either the call's result or the page where the loop goes on, by way of
`_split`, `_split3Leaf`, the loans and `_merge`, places and order of pages included.  `InsertItem` and `DeleteItem` of `BTree` repeat them until they
end.  These operators were compared with the compiled btreedb on 180 random
sequences of calls, and gave the same trees.  Keys are numbers; what a node holds is its sequence of items.

In `BTreeDb` every call is one step: the model has one thread, as no promise of the code covers several (`insert` and `del`
take no lock).  `Ready` is what every call does first: if more nodes than the cache may hold are loaded, all are written and all but the root
unloaded.  `Kill` is the end of the process between two calls; one in the middle of `commit` leaves pages of two
trees and nothing is promised.

`BTreeDb` starts from files that insertions and deletions left behind (`Starts`), with the model's own operators, so that few calls reach splits, loans
and merges on three levels; the client of `BTreeCalls` goes through these calls first.

*Preconditions.*  The client does not call `get` by key.  `btreedb.h:95` calls that "the same as find", but it assigns its by-value parameter and then copies
the value over the value's own length in the loaded node, which it does not mark (`btreedb.cpp:193-194`): the caller's buffer is never filled, and what
the next `find` reads is a length made of the value's first bytes, until the node is unloaded or, marked by another call, written like that.  Nothing in the repository
calls it (`dump` and the tests use the `get` that takes a cursor).  Every property and theorem about btreedb is of clients that leave it alone.

`Careful` keeps the client away from what `btree_flush` shows: while the root has no items ("hollow"), it
only reads and deletes.  Nor does it call then with a full cache (`Call`), where `del` would unload the very node that is to become the root.
`seq` is called from an item, as from a default cursor in a tree of one leaf it reads through a null
pointer (`btreedb.cpp:1671`).  Keys and values are not empty: an empty value is read back as none, and an
empty key is taken for the mark of an overflow page (`btree_node.cpp:154`, `113`).

`BTreeCalls` has the same database with one step per round, so that it can be proved about: nothing in it is recursive.  `call` is what is under way,
with the page its loop is at: an insert (also from `update`) or a search at `at`; a deletion that looks for `seek`, which is the key asked for or
that of the neighbour that has taken its place; the search for that neighbour (`pred`, `succ`).  `items` and `saved` are not in the code: they are the
dictionary that the calls so far amount to, and what it was when the file was last written.  Here the process may also end in the middle of a call (but
not of a commit).  Cursors, scans, `fillCache` and `optimize` are only in `BTreeDb`.  The preconditions are the same, and are seen in `Begin`,
`Insert`, `Update` and `Written_`.

Not modelled: overflow pages of items that do not fit a node, custom comparators, `_autoTunning`, `dump2f` by itself (which hands its comparator over as
`thread_safe`), the locks.  `optimize` is one step; it removes the old file before it renames the new one (`btreedb.cpp:301`).

### MCStage, MCParts, MCDatabase, MCLiveness

Parts that have no state or call in common are checked in one run: a behaviour chooses one of them and leaves the others as
they were initially, so the run explores their state spaces side by side.  `MCStage` has the stages and the timer stage; `MCParts` has the lock, the fifo, the two pools, the log files
and the two buffers; `MCDatabase` `BTreeCalls` and `BTreeDb`, whose names begin with `Db!`; `MCLiveness` an instance of the stages and one of the timer wheel, each with its own fairness.

## The runs

| run | instance | states | checks |
| --- | --- | --- | --- |
| `queue_safety` | 2 producers, 13 words, blocks of 4 and 6, up to 2 events held each | 324,031 | types, `NoOverlap`, `EqualMeansEmpty`, `ReadsOnlyHeaders`, `HandlesIntactEvent`, `FreesTheHead`, `ImplementsChannel` |
| `queue_liveness` | 2 producers, 12 words, none held while asking | 123,000 | `WaitingIsServed`, `EveryBlockIsFreed` |
| `stage_safety` | the pipeline 1 <- 2 <- 1 threads, queues of 1 event, creation may fail, the middle stage looks up stages; the timer stage with three requests, delays of 0 and 1, a lap of 2, queues of 1 event, a clock at most 2 ms ahead of the last poll | 346,657 | types, `RunsInWholeStage`, `DeletesOnlyTheQuiet`, `LeftBehindCameLate`, `QueuesAreChannels`; `WheelKeepsTime`, `TimeoutsArrive` |
| `wheel_safety` | base 2, three timers, every delay | 418,654 | `Placed` (with the types), `ImplementsService` |
| `liveness` | two sending threads and a sink that looks up stages; a wheel of base 2 with two timers | 25,832 | `CreationEnds`, `EventsEnd`, `StoppingEnds`; `TimersEnd` |
| `wheel_second_cancel` | base 2, two clients, two nodes | - | `SecondCancelRefused`, which fails |
| `transport_safety` | 2 transports, 2 descriptors, 2 openings of any kinds, listeners and udp sockets cloned, 3 bytes over the connections that are open | 1,296,279 | `ContextsMatchSockets` (with the types), `StreamIntact`, `WaitingIsWatched`, `ClosesItsOwn` |
| `transport_late_event` | 1 transport, 2 descriptors, a handler that reconnects | - | `CallbacksFindTheirs`, which fails |
| `parts` | the seven of `MCParts`, below | 713,271 | `WriterIsAlone`, `CountsReturn` (with the types), `WritersGetIn`; `FifoIntact`; `BlocksIntact`; `SlabIntact`; `Ordered`, `DropsOldest`; `BuffersAreTapes` |
| `database` | a btreedb with 6 keys a node, from eight files, 3 calls; the same round by round, after up to 125 calls that grow and thin the tree, 2 calls | 48,473 | `TreesIntact`, `DbIsItemStore`, `ScansFollowOrder`; `TreesIntact`, `CallsIntact`, `IsItemStore` |
| `buffers_at_end` | the parts, smaller but for the buffers | - | `DirectGetEnds`, which fails |
| `btree_flush` | a root above two leaves | - | `FlushWritesAll`, which fails |

### Why the bounds are enough

*Queue.*  13 words hold two blocks of 6 with a word over, or three of 4 with one over, so the end of the buffer is reached
with 0, 1, 3, 5, ... words left: with a marker, and without one because the rest is not longer than a header.
The two sizes make a block that fits in front, one that does not, and a ring wrapped by either.  Two
producers suffice for a critical section against another thread's construction and commit, and holding two events
gives commits out of order within a thread as well as between threads.  That the sizes are not special is what the
proofs are for.

*Stages.*  A queue of one event is full as soon as anything is in it, and the sender has two to send.  The pipeline has a stage
with two threads, which the failure path can catch half started, a stage both sent to and sending, and two
senders to one queue.  For the pipeline `stage_safety` leaves out fairness and so covers threads that stop anywhere.

*Wheel.*  The clock starts at every value, so every alignment of a delay against the digits and against the wrap
occurs, as do all delays; with base 2 each level's boundary coincides with another's as often as possible.  Three timers are enough for one to be cancelled and one
started by the callback of another in the same slot.  Count and clock are bounded by the instance, not by a
guard.

*Timer stage.*  Three requests are the fewest for the circular wait: one being answered, one in each queue.  The clock may be 2 ms ahead of the last poll
(`MaxBehind`), so that one poll does two ticks, and a millisecond passes in the middle of it.  `POLLING_COUNT` is 1 and `SLEEP_IDLE_COUNT` 2, so that rounds
with a poll at either place, at both and at none occur.

*Transport.*  With two openings a descriptor is taken again, by either transport, while the other is in the middle of a round or of `add_fd`, or keeps
an id of it, with the same number or another; and two sockets are open at once, such as a listener, its clone and a connection accepted by either.  Three
bytes are the fewest that `send` and `handle_tcp_write` can split twice.  A write buffer may fail to grow.  `Together` stops TLC at the step that strays, which is still
checked: nothing is claimed of what comes after.  With three openings the instance is larger than the other runs; it was checked apart, with
listeners and connections (3,861,000 states with two bytes and closing in `on_tcp_received` only, 2,750,000 with one byte and every callback), and with listeners
and udp sockets (3,700,000, stacks of at most four frames).  The program closes connections only; the theorems
below cover the other kinds, and all numbers of openings.
`SeqLimit` stands for 2^31 and is not reached: an id kept for 2^31 openings is excluded (`TransportAssumption`).

*Parts.*  Four threads at the lock: two readers and two writers, or one against three.  The fifo has two threads at each end and three
places, so both ends block, and both wrap.  The pool has three blocks, and magic numbers that come round after
three allocations.  The slab pool has two pages of 16 bytes with words of 4 bits, so that chunks of 2 are small (with the
bitmap in the page), of 4 exact and of 8 big, and runs of one and two pages occur (`Sizes`); at most 8
allocations, enough to fill a page of each kind.  Logs: up to two numbered files, two lines each, six lines in all: the oldest are dropped after
the fifth.

*Buffers.*  Blocks of two bytes and lengths from 0 to 3: a call starts and ends at the start, in the middle and at the end of a
block, and passes over a whole one.  Every sequence of calls that three blocks of the chain have room for is explored; the buffer in one
piece has two (`MaxPieces`), so its memory is replaced once.

*Database.*  Six keys a node are the fewest for which `MinDegree` (a third) is 2, so that nodes can lend.  Three calls on a tree that is one call away from a
split, a loan or a merge go through it and look at the result.  The files: none, a full leaf, two full leaves; then three levels, thinned out so that nodes have as few items as they may, with a
full root, and with a full internal node (`MCStarts`).  Caches of one node (everything is unloaded before every call), of 7 and of 100
(never).  The keys are chosen in the node at issue: at its separators, in its leaves, and missing between them.

*Database, round by round.*  The calls of a start (`MCStarts`, the same eight) bring a tree to the point where the next call reaches a case: a root, a leaf or an internal node that
is cut in two, leaves that are cut in three or share, a neighbour on the left or on the right, loans and merges on either level, a root that loses its
last item.  Then the client is free on two or three keys for two calls (`Free`), enough to change something and look; `open` is not counted.  The cache
holds 7 nodes and `_optimizeNum` is 7, so that these calls save and unload, too.

Deadlock is checked except for stages, which end in `done`, or hang in `stop_all` (see `StoppingEnds`), the timer stage, which may be stopped or wait for ever (`CircularWait`), and the clients of a database, which stop after their last call.

### Fairness

Weak fairness only, of threads that can run: `allocate_event` and the construction of an event are not abandoned half way, an
event held is committed at some time, stage threads keep looping and their handlers return, the main thread gets on with the
call it is in, the owner of a timer keeps polling, the clock goes on.  Nothing obliges a producer to call, a client to cancel or the
program to stop.  No lock is fair: a spin lock lets anyone in.  Hence the exceptions in the liveness
properties, which are properties of the code:

* `WaitingIsServed`: a waiting producer is served *unless other producers are served for ever in its place*.  It also
  needs two things the code does not enforce.  The ring must be at least twice as long as its largest block: an
  empty ring with both positions at `p` refuses `n` words when `Cap - n < p <= n`, and as nobody frees anything
  the positions never move.  And no producer may wait while it holds an uncommitted event, since it may wait for
  itself (`MaxHeld = 0`).
* `StoppingEnds`: `stop_all` returns *unless a handler waits for room in the full queue of a thread that has
  exited, or for the manager's lock* (`Abandoned`).  `stop_all` tells every thread to stop and joins them in the order of registration,
  the receivers first.  A receiver sees `_stop` at its first empty look and leaves; a sender
  that still has events to send then waits in `allocate_event(wait = true)` for ever, and so does the join.  The other
  case is a handler that calls `get_stage_by_name` while `stop_all` holds the spin lock over its joins.  Neither is
  promised not to happen by any comment, so the property excludes them by name and shows that there is no third.
* `WritersGetIn`: a spinning writer gets in, or all writers give up, *given that threads run on and leave the lock*
  (weak fairness of `Runs`).  It needs `prefer_writer`; without it readers that overlap for ever keep the count above 0.  Which writer gets in is
  nobody's promise.
* `TimersEnd`: *unless callbacks that keep starting timers with no delay hold one poll for ever*: `fire()` walks the
  list until it is empty and a delay of 0 goes into that list.

### What the properties say

The comment above each property in its module states it in full.  In short:

* `ImplementsChannel` - refinement: whatever the interleaving, the ring is a first-in first-out channel.
* `HandlesIntactEvent` - the handler sees the event its producer constructed, every word of it.
* `LeftBehindCameLate` - a thread leaves a committed event behind only when it was committed after the thread's last look (or stands
  behind one that is not committed).  The run loop looks at the queue first and at `_stop` after; the other order loses
  events that had been there for long.  It follows that an event committed while the thread is between the two *is* destroyed
  unhandled.
* `DeletesOnlyTheQuiet` - when `stop_all` deletes a stage, its threads and all that send to it have exited.
* `RunsInWholeStage` - no handler runs while the stage may still fail to be created.
* `ImplementsService` - every timer fires at exactly its tick, with calls from callbacks, cascades and the wrap in between.
* `WheelKeepsTime` - no millisecond is lost or counted twice between the clock and the wheel, however long events and callbacks take.
* `TimeoutsArrive` - every request to the timer stage is answered.
* `ContextsMatchSockets` - the context is cleared before its socket is closed, whoever gets the descriptor next, and has its owner's name except in the
  middle of `add_fd` (until a thread strays).
* `StreamIntact`, `WaitingIsWatched` - until then: the bytes of a connection, through direct sends, partial writes and the write buffer; none is
  stuck because nobody watches for room, and none is lost, unless the write buffer could not grow.
* `ClosesItsOwn` - until then, the check of `close` holds against ids of any age and of other transports, but for the moment between the two stores
  of `add_fd`, for which the code has no guard.
* `WriterIsAlone`, `CountsReturn` - exclusion, though readers add themselves before they know; the assertions of `g_spin_rw_free`.
* `FifoIntact` - order and permits, whatever the order in which threads pass semaphore, lock and post.
* `BlocksIntact` - each block is free, handed out or in the hands of one thread; stale keys find nothing, live ones their block.
* `SlabIntact` - nothing handed out overlaps anything else, bitmaps included; no page is lost or in
  the wrong list; `g_slab_free` will know what it is given.
* `Ordered`, `DropsOldest` - the files of a log are in order whatever happens; as long as nothing makes the writer miscount, the lines dropped
  are the oldest.
* `BuffersAreTapes` - refinement: what is read is what was written there; in the chain, block, place and count of every position agree, and
  the next block is there when `put`, `get` and `skip` go to it.
* `TreesIntact` - whatever is split, lent, merged and unloaded, what is in memory and what is in the file are B-trees, after every call and, in
  `BTreeCalls`, between the rounds of one (`WholeTree`), of the items of the dictionary between calls; and `commit` will find all that is to be written.
* `CallsIntact` - three things, after every round.  The loaded nodes fit each other, which says of these alone, and without a walk through the tree, that they
  are a part of a B-tree (`NodesInPlace`); `numItems` counts the items (`CountKept`); a node that is not marked as dirty is as it is in the file
  (`MarkedWhenChanged`).
* `IsItemStore`, `DbIsItemStore` - refinement, of `BTreeCalls` and of `BTreeDb`: a client that does not call `get` by key sees its dictionary, and after `open` the one that was
  saved last.
* `ScansFollowOrder` - `range` reads a slice of the dictionary (`RangeIsSlice`), `seq` moves by one item and a search puts the cursor at the next one
  (`SeqMovesByOne`, `SeekFindsNext`), also when the node under the cursor has been unloaded.

## The proofs

### EventQueueProofs

It proves, for every set of producers, every capacity, every set of block sizes and every `MaxHeld`:

| theorem | statement |
| --- | --- |
| `TypeCorrect` | `Spec => []TypeOK` |
| `LiveBlocksDisjoint` | `Spec => []NoOverlap` |
| `EqualOnlyWhenEmpty` | `Spec => []EqualMeansEmpty` |
| `OnlyHeadersRead` | `Spec => []ReadsOnlyHeaders` |
| `HeadFreed` | `Spec => []FreesTheHead` |
| `IntactEventHandled` | `Spec => []HandlesIntactEvent` |
| `RingImplementsChannel` | `Spec => ImplementsChannel` |

*Assumptions* (all in `EventQueue`, evaluated by every run): the capacity is a number of words greater than a
header (`CapAssumption`), blocks are longer than a header (`LensAssumption`), `MaxHeld` is a number, and the tokens for
threads, lengths and junk are different things (`ValuesAssumption`).  A block may be longer than the ring; it is just never granted.

*The argument.*  None of the invariants is inductive.  That blocks do not overlap follows from where they lie, and
where they lie depends on a producer's decision that was taken with an old `_free_pos`.  `IInv` has four parts:

* `RingInv`: with `_free_pos <= _alloc_pos` the live blocks lie between the two; with `_alloc_pos < _free_pos`
  the older ones are at or above `_free_pos`, the younger ones below `_alloc_pos` (`PlaceInv`); a block allocated
  earlier is met earlier (`OrderInv`); the first block is at `_free_pos`, or at 0 with a marker or a
  short end at `_free_pos`, and the last ends at `_alloc_pos` (`EndsInv`); from one block the consumer finds the next, directly or by
  such a jump (`ChainInv`); headers say what they should (`HeaderInv`).
* `ProducerInv`: exactly one thread is in the critical section (`LockInv`); the plan made by `Load` still holds *now*, whatever
  the consumer has freed since (`PlanInv`: this is where the stale copy is shown to be harmless - `Plan` survives both
  a free, `ReleasePlaced`, and a return to the front, `RewindPlaced`); and the words a producer may still write belong to a block of its own (`HoldInv`).
* `ConsumerInv`: what the consumer has concluded at each of its steps remains true while producers go on.
* `TypeOK`.

The statements about intervals of words are lemmas on numbers (`PlacedDisjoint`, `AllocatedPlan`, `ExtendPlaced`,
`ReleasePlaced`, ...), plain linear arithmetic; `StepLoad`, `StepPublish`, `StepFree` and the others, one per action,
apply them; `NextIInv` puts the steps together.  Of the arithmetic of `allocate()` only `AllocatedPlan`
knows anything.

`IntactEventHandled` is about what the words hold, which `IInv` says of headers only.  `EventInv` adds that a block whose event has been constructed is
whole: every word after its header is its producer's.  Each action that writes to memory has a lemma saying that its words
are in no such block, which is what `NoOverlap`, `HoldInv` and `PlanInv` are good for.

The refinement is proved from `IInv` step by step: each action
either leaves the channel alone or is one of its actions, and four lemmas (`SlotsAppend`, `SlotsExcept`, `SlotsTail`, `SlotsSeq`) say
how the mapped sequence changes.

### StageProofs

For any number of stages and threads, any events of `on_start`, any capacity of queues and any destinations among the earlier
stages (`ShapeAssumption`, which also asks for at least one stage, and a thread in each):

| theorem | statement |
| --- | --- |
| `TypeCorrect` | `Spec => []TypeOK` |
| `WholeStages` | `Spec => []RunsInWholeStage` |
| `QuietDeleted` | `Spec => []DeletesOnlyTheQuiet` |
| `LeftBehindOnlyLate` | `Spec => []LeftBehindCameLate` |
| `QueuesImplementChannels` | `Spec => QueuesAreChannels` |
| `TimerStageKeepsTime` | `MCSpec => []WheelKeepsTime` |

The argument follows `_create_status`.  A thread that runs has been told `ok` (`ThreadInv`); `ok` is given to the stages in the order
of their creation, and to the threads of a stage only once all are started (`CreationInv`); hence the threads that the failure
path unwinds, and all that could send to them, have never run.  A stage whose threads are `ok` is registered when
`stop_all` takes its list (`RegisteredInv`), so all of them are stopped, and joined in the order of the loops (`StopInv`,
`MainInv`); this, and not any check in the destructors, is why nothing sends to a stage under deletion (`GoneInv`).  That no event is
left behind in time needs that an event in hand is the oldest and committed (`QueueInv`), and that a thread is not in the
middle of sending when it looks at `_stop`.

*Queues.*  The channel of thread `o` is mapped from `queue[o]` and from whether somebody has its oldest event in hand: `o` itself, or `~thread_obj`.
That these two never do at once is `DropsAlone`, from `StopInv`.  `push_event` in `Stage` commits "the event of `t`"; that there is
exactly one such event is `OwesInv`, an invariant of its own: a thread owes an event in one queue, and only between allocation
and commit.  `ThreadChannel` and `MainChannel` show that every step of the system is one of the five of `Step(o)`, and
`StepIsChannelStep` that these are the actions of `EventChannel`, or none.

*The timer stage.*  `TimerStageKeepsTime` is about `Stimer` as `MCStage` composes it, for any requests, delays, `POLLING_COUNT`,
`SLEEP_IDLE_COUNT`, capacity and `MaxBehind` (`TimerAssumption`, which TLC evaluates on the instance).  The equation between the wheel and
the clock needs `PollInv`: the ticks of a poll that are still to do lie between 0 and what it read from the clock, and that is at most what
the clock shows now; outside of a poll nothing is due, so that the next tick takes no timer below 0.  `AskedInv` says what is in the queues,
and that whoever handles an event has one.  That the history `due` forgets nothing by being bounded to `MaxBehind` is part of `TimesClock`:
no pending timer is ever as late as that.  TLC checked the invariant first, on the instance of `stage_safety`.

### TimerWheelProofs

For every base above 1 (`BaseAssumption`), any nodes (`HandlesAssumption`: the token for "no callback" is none of them) and any set of delays the clock can express
(`DelaysAssumption`):

| theorem | statement |
| --- | --- |
| `TypeCorrect` | `Spec => []TypeOK` |
| `TimersPlaced` | `Spec => []Placed` |
| `WheelIsService` | `Spec => ImplementsService` |

`Placed` says where a node stands, but not that it will be moved in time.  `OnLevel` adds it: on a level above the first, what is left of the delay is
less than the level's reach and more than the lower digits of `expire`, so that the tick at which these are all that is left, when its slot
is handed down, is still to come.  `TimeComes` says that at this tick `g_timer_poll` looks at the level (the clock's lower digits are 0) and at the
node's slot; `DueTest`, the converse, that a node in the slot it looks at has nothing but the lower digits left.  All of it is arithmetic of
remainders modulo powers of the base, which the provers do not do by themselves: it rests on `Quotient`, `OneWay` and `Apart`, the three facts about
division, and on lemmas that follow from them.  `CountInv`, with the cardinality of the pending nodes, gives the count.  For the refinement a
node's `TicksLeft` are what is left of the delay above the first level, and the ticks until its slot comes round on it; cascades and
the wrap of the clock must leave them alone, and each tick must take one off.

### TransportProofs

For any set of transports, any finite set of descriptors, any length of the table, any kinds of sockets, any callbacks in which handlers close and any
kinds the program closes, with write buffers that may fail to grow or not (`TransportAssumption`, which asks that no transport comes round with its
sequence numbers):

| theorem | statement |
| --- | --- |
| `TypeCorrect` | `Spec => []TypeOK` |
| `StreamsIntact` | `Spec => []StreamIntact` |
| `ContextsMatch` | `Spec => []ContextsMatchSockets` |
| `WaitingWatched` | `Spec => []WaitingIsWatched` |
| `UserClosesItsOwn` | `Spec => ClosesItsOwn` |

`TypeCorrect` holds whatever the threads stray into, and is proved first.  The rest of the invariant, `IInv`, is claimed until somebody strays:
`KnownInv`, `StreamInv` and `Matched`.  Each step changes at most one context, in one of a few ways (`TableStep`: it names it, opens it, closes it or moves bytes),
and a context is only ever the bytes it has taken and has waiting moved along (`Moved`): this is where `SubSeq` and concatenation are reasoned about, once.

`KnownInv` knows the ids: a transport has only ids of its own, numbered below its `_seq`, and an id whose number a context *of its owner* still has is of
the same socket.  That is all there is to say of the number and the name in the context of `add_fd`'s two stores, so the owner is `by`, not
`trans`; that the two agree outside of `add_fd` is `NamesInv`.

`Matched` needs what a thread still has to do.  Every frame and every event of a round is about a connection of the
thread's own transport *if* the socket it is about is still the one of the context (`Mine`); a descriptor that is watched is that of an
open socket, for room only by the transport of the connection (`FdOK`); a context in use matches its descriptor (`ContextOK`); a thread on its way
to `g_close_socket` is alone there, with a socket that is still open and a context that is not in use (`ShutOK`), which is what
makes the order of the two steps of `close` matter; and `NamesInv`.  A step that uses a foreign context sets `strayed`, so
`Matched` need only be shown for the others (`UsesOwn`): there the socket is the context's, and the context is the thread's own.
A socket may be closed and its number opened again while frames and events are about the old one: `Fates` says that no context ever
becomes that of an older socket, so `Mine` stays true.

`UserClosesItsOwn` then is this: an id that compares equal has its transport's name in the context; if that is not being named, the name is the
owner's (`NamesInv`), and the owner's ids of that number are of that socket (`KnownInv`).

### PartsProofs

About the lock, for any finite set of threads (`ProcsFinite`) and both values of `prefer_writer`; about the other parts, under
`PartsAssumption`, which says of the constants what each part asks for, and which TLC evaluates:

| theorem | statement |
| --- | --- |
| `TypeCorrect` | `Spec => []TypeOK` |
| `Exclusion` | `Spec => []WriterIsAlone` |
| `CountsCorrect` | `Spec => []CountsReturn` |
| `BlocksTyped` | `Fsb!Spec => []Fsb!TypeOK` |
| `BlocksInOnePlace` | `Fsb!Spec => []Fsb!EveryBlockInOnePlace` |
| `NoStaleKeyFinds` | `Fsb!Spec => []Fsb!StaleKeysFindNothing` |
| `LiveKeysFind` | `Fsb!Spec => []Fsb!LiveBlocksAreFound` |
| `FifoTyped` | `Fifo!Spec => []Fifo!TypeOK` |
| `FirstInFirstOut` | `Fifo!Spec => []Fifo!TakesInOrder` |
| `NoPermitLost` | `Fifo!Spec => []Fifo!PermitsAddUp` |
| `LogFilesOrdered` | `Log!Spec => []Log!Ordered` |
| `LogTyped` | `Log!Spec => []Log!TypeOK` |
| `OnlyOldestDropped` | `Log!Spec => [](Log!TypeOK /\ Log!DropsOldest)` |
| `FifoStaysIntact` | `MCSpec => []FifoIntact` |
| `BlocksStayIntact` | `MCSpec => []BlocksIntact` |
| `SlabStaysIntact` | `MCSpec => []SlabIntact` |
| `LogFilesInOrder` | `MCSpec => []Ordered` |
| `LogFilesDropOldest` | `MCSpec => []DropsOldest` |
| `BuffersImplementTape` | `MCSpec => BuffersAreTapes` |

`WriterIsAlone` is not inductive.  A writer's compare-and-swap finds `sem = 0`; that nobody reads then is what
`CountsAdd`, the other part of `CountsReturn`, says, as every reader is in the count.  A reader's addition finds no flag; that no writer is inside then is what
`Ownership` says: the flag is up exactly when one thread, and only one, has it.  `CountsAdd` is an equation between a variable
and a cardinality: four lemmas (`Joins`, `Leaves`, `Stays`, `NobodyCounted`) say what a step of one thread does to
the number of threads at some places.  Types come out of the same invariant: that a subtraction does not go below 0 needs the
count.

*The pool of blocks*, for any number of blocks and at least two magic numbers (`FsbAssumption`).  The two threads share the ring and nothing
else.  The allocating thread's decision, that the ring is not empty, stays right because the
other only adds; the freeing thread never asks whether there is room, and `CountInv` says why there is: the ring has a place more than there
are blocks, and the ids in it, the blocks handed out and the one that each thread has in its hands (`Mine`, `Yours`) add up to
`block_count`.  `RingInv` says that they are all different and none is missing.
`KeyInv` says that a block which is not handed out has the magic number 0, but for the moment between the two assignments of
`g_fsb_alloc`.  `StaleInv` says how many allocations ago a magic number was given (`Since`): a block's present number was given after any
stale key of it, and while the stale key is younger than all magic numbers are many, two numbers given at different times differ.  TLC
checked the invariant first, with up to four blocks and four magic numbers.

*The fifo*, for any positive capacity, more numbers to tell items apart than the capacity, and any finite and disjoint sets of pushers and
poppers (`FifoAssumption`).  Order needs to know where the items are, and that
needs the permits: `PermitInv` says that the items that are stored and the places that hold none, each counted as permits
and threads on their way, add up to the capacity.  `OrderInv` puts the items in one row from the head to the tail, both as they will
be once the thread that moves one is done; `LockInv` has one such thread at each end.  A pusher that stores finds a free place because it is itself one of
the threads that stand for a free place, however many posts are outstanding; `StoredRow` and `TakenRow` say what that does to a
row.  `PermitsAddUp` is `PermitInv` with the four sets of threads put together (`PermitsFromCounts`).

*The log files*, for any set of names, any `MostFiles` and `MaxLines` in `Nat` and any positive size, if the process starts with a name of a file or with
stdout (`LogAssumption`); for the last theorem, with a name of a file (`ToAFile`).

*Order.*  The invariant adds two things: no line on disk is newer than the last one logged, and a rotation that has begun is one of a file's name and
renames to numbers that exist.  The files of one name are a row; `RemovedRow`, `RenamedRow`, `LoggedRow` and `OpenedRow` say that removing, moving to
the next number, appending the newest line and opening keep a row in order.  That a renamed file overwrites
what had the next number does no harm is seen in `RenamedRow`, so the order never depends on the files having been
counted rightly.

*What is dropped* does depend on that.  `KeptInv` says which files there are as long as `clean` holds: those with the numbers from 1 to
`_curr_logfiles`, or one more after a restart, since the constructor does not count the last file that may exist (`RowInv`); and while a
rotation moves them up, all of these but the one that has just been moved away (`Parted`).  Hence what is removed is the last of the row (or
no file at all), by `Ordered` the oldest, and no rename lands on a file that is there (`WholeRemoved`, `WholeRenamed`).  `CountedStanding`
says that counting files from 1 on to the first that is missing finds the length of a row without gaps.  `SizesInv`, for the types, says
besides that a line goes only into a file that exists, and only if it is not full.  TLC checked both invariants first, with one name, three
files and five lines.

The theorems `...StayIntact`, `LogFilesInOrder` and `LogFilesDropOldest` carry what is proved of one part over to what the run `parts` checks: `FifoAlone`, `FsbAlone`,
`SlabAlone` and `LogFilesAlone` show that every behaviour of the composition is one of the part, as each step of `MCNext` is a step of the part or
leaves its variables as they are.

`BuffersImplementTape` is the refinement of `ByteTape` by both buffers, for any positive size of the blocks, any numbers of blocks, any set of
lengths, and bytes that are the numbers from 0 to some other (`BufferAssumption`).  A call is a step of the tape if it moves the
positions as the tape does and keeps every byte but those it may change (`KeptBut`).  The difficulty is in the second.

* `PieceInv`, for the buffer in one piece, says that position and mark lie in the memory and, while something is read, before the limit; so
  a byte of the tape is a byte of the memory (`PieceEnd`).  `PieceReserved`, `PieceCopied`: what is before the position survives a larger
  memory, and a copy changes nothing but its own place.
* `ChainInv`, for the chain, says that every position *stands* (`Stands`): block and place, counted in bytes from the start of the chain,
  give the count of the position, and there is a byte more behind it.  That makes all positions agree on where the byte of a number is
  (`AtPosition`, `TapeAt`).  `AdvanceAgrees` shows it of the loop of `put`, `get` and `skip`, in spite of its peculiarity: wherever it stops, at
  the end of a block or at the start of the next, the place is the same byte.  `MissingIsEnough` says why `reserve` asks for the right number of blocks,
  and that the one byte more is what keeps a position inside; `GrownKeeps`, `WrittenStores` and `ChainShortened` what
  new blocks, a copy, and the blocks freed by `compact` do to the bytes.

Only three facts about division are needed (`Quotient`, `Apart`, `RoundedUp`); everything else is said in terms of the byte of a number
(`Stored`), which no step but a copy or `compact` changes.  `PositionsAgree` comes with the invariant.

### SlabPoolProofs

For any number of pages, any sizes asked for, and any sizes of page, word and smallest chunk that are powers of two such that the exact
chunk, of which a word has a bit each, is smaller than a page and not smaller than the smallest (`SlabAssumption`; in the code 4096 bytes,
64 bits and 8 bytes, so the exact chunk has 64 bytes: `mempool.c` derives it the same way):

| theorem | statement |
| --- | --- |
| `HandedOutApart` | `Spec => []AllocationsDisjoint` |
| `FreeRecognises` | `Spec => []KnownToFree` |
| `SlotsFindRoom` | `Spec => []SlotsHaveRoom` |
| `AllPagesReturn` | `Spec => []NothingLost` |

None of the four is inductive: what is handed out stays apart because bitmaps, entries and lists agree.  `IInv` is types and four parts.

* `RunInv`: the runs of pages and the pages that are cut into chunks tile the pool.
* `ChunkInv`: a page that is cut has the type of its shift, whose encoding of `slab` is then the one that is read; the chunks of its own
  bitmap are marked, and one more, for a page whose last chunk is freed goes back as a run.
* `LiveInv`: what is handed out and what is marked correspond to each other.
* `ListInv`: `Home` gives each page the list it belongs to by what it is: a free run `pool->free`, a page with a chunk to give its slot,
  any other none.  The links agree with `Home` both ways, and some rank falls along them.  So a page is reached from
  a head exactly if it is at home there, and after at most as many links as there are pages (`InList`), without induction over lists.

An operation is the composition of a few changes of lists: a page is taken out (`ListUnlink`), another takes its place, as when a run is split
(`ListReplace`), one is put first (`ListInsert`), each shown once for arbitrary links and ranks.  The step lemmas say which
pages an operation touches (`RunTaken`, `TakenSet`, `GivenBack`), and `RunStep`, `ChunkStep`, `LiveStep` and `ListStep` that the invariant then need
be shown of these alone.  Disjointness follows by the arithmetic of powers of two (`PowerNext` and what follows it), which the
prover knows nothing of: `2 ^ n` is counted as the subsets of a set.  `AllPagesReturn` compares a sum over a set, which
is a fold, with a cardinality; both folds and numbers are reasoned about by the least counterexample (`Least`, `Reaches`), as the library's
induction theorems cannot be used here.  TLC checks `IInv`, all but the rank, with three pages (186,405 states).

### BTreeInsertProofs, BTreeProofs

For any number of keys and any values, any size of the cache, any `_optimizeNum` and any number of keys in a node from 6 on, as `setMaxKeys` makes it,
with delayed splits or without (`BTreeAssumption`, `BTreeCallsAssumption`):

| theorem | statement |
| --- | --- |
| `AlwaysOK` | `Spec => []CallsOK`, the invariant |
| `TreeStaysIntact` | `Spec => []TreeIntact` |
| `FileStaysIntact` | `Spec => []FileIntact` |
| `NodesStayInPlace` | `Spec => []NodesInPlace` |
| `CountStaysKept` | `Spec => []CountKept` |
| `ChangesStayMarked` | `Spec => []MarkedWhenChanged` |
| `CallsStayIntact` | `Spec => []CallsIntact`, the last three |
| `StoreImplemented` | `Spec => IsItemStore` |

*Trees without induction.*  That something is a B-tree is said of all its pages at once: there are *places* `w`, which give each page of the tree a
height and the two keys between which everything at or below it lies, such that a leaf has height 0, a node has a kid before, between and
after its items, a kid is one lower and lies between the keys it hangs between, and two nodes are apart unless the lower lies within the
upper (`Shape`); then the size of each (`Sized`) and the items of all (`Contents`).  Nothing needs to be followed from the root.  A search is at a node
whose bounds include its key, and if the key is not there it is in no node but those below one kid (`Apart`).

*Rounds.*  `BTreeInsertProofs` shows what happens to places when a node is cut (`CutPlaces`: splits, also into three, are cuts), when two become
one (`JoinPlaces`) and when items move between siblings by way of the parent, each for nodes of any height, and that every
round of `insert` is one of these or an insertion into a leaf.  `BTreeProofs` does the same for `_delete`.

*The invariant.*  `CallsOK` says that the pages, in memory and else in the file, are a B-tree of `items`, and those of the file one of `saved`, that what
is not marked is the same in both, that all pages are below the count of pages; and where the call under way is (`CallOK`).  An insert: its key lies between
the bounds of its node, which has room.  A deletion: its node has an item more than the least or is the root, so that a merge or a loan below it leaves
enough.  A hollow root is a B-tree like others, but exempt from being marked.  While a neighbour stands in for the item to be deleted, its key is in the
tree twice, and that is none; `Lend` then speaks of a tree `M` in which the old item is still in its place, and which is that in memory from the node
of the call downwards (`Dig`).  The rounds that follow do to `M` what they do to the memory, and the last, which removes the neighbour from
its leaf, leaves what `M` is without the old item.  That the order is right again rests on `EdgeAt`: the search for the neighbour ends at the greatest
or the least key beside the item.

*Refinement.*  The dictionary of `ItemStore` is `items` as a function (`Dict`); `DictOK` says that it is one, and that a call under way is about keys and
values there are.  `RightAnswer` comes with the invariant: what a round answers is what the dictionary says.  Only the last round of a call is a step of
the store's `Insert`, `Delete`, `Update` or `Find`; what comes before is its `Look`, which may save.

*Only model-checked*: all liveness (`WaitingIsServed`, `EveryBlockIsFreed`, `TimeoutsArrive`, `WritersGetIn`, and those of `MCLiveness`), as
fairness and `ENABLED` are beyond the prover; and what is said of `BTreeDb` (`TreesIntact`, `DbIsItemStore`, `ScansFollowOrder`), whose operators
are recursive, as whole calls and scans are; the theorems about `BTreeCalls` cover its calls, round by round, but neither cursors nor `optimize`.  `WholeTree`
is `TreeIntact` and `FileIntact` with places that TLC can compute, for every round.

## What the checks found

`g_timer_cancel` tells a live node from a dead one by `node->prev` (`timer.c:167-173`), and `test/t_timer.cpp:41` expects
a second cancel of the same handle to be refused with 1.  `wheel_second_cancel` shows that this depends on
nothing being started in between: the pool gives the node to the next `g_timer_start`, and the second cancel
returns 0 and removes the other client's timer.  The header only warns of handles whose timer has *fired*
(`timer.h:37`).

`transport::eda_callback` (`netutil.cpp:262-265`) tests whether "the connection may already be closed by handle_tcp_write()" by
looking for a sequence number of -1 in the context.  `transport_late_event` shows a handler that connects again in `on_closed`, gets the
same descriptor, and whose new connection is handed the read part of the old one's event.  The read itself does no
more than find nothing, or the new connection's bytes early, but an end or an error on it ends the new connection.

The comment in `linked_buffer::reserve` (`linked_buffer.h:650-654`) says that `_current.remaining` "will never be zero".  `put` leaves it at
zero when its last bytes fill a block (other than the one it started in).  `buffers_at_end` flips there and reads in
two pieces, the second with `commit_get`: the reader is in the next block, the limit in the one before, and
`direct_get` shows a whole block where `t_linked_buffer.cpp:513-514` expects nothing.  Callers that ask `remaining()` first are not affected.

`flush` of btreedb is to "write all the items in memory to file" (`btreedb.h:80`).  `btree_flush` shows a deletion that merges the last two children of the root, and a flush
after it: `_merge` marks the merged child as dirty, twice, and the root never (`btreedb.cpp:781`), so the file keeps the old root, whose
item is now in the child as well, beside a child that is gone.  The next `del` would have replaced the root; `flush`, `close` and a full cache do
not wait for it.

Met while modelling, and left out of the models by a precondition: `get` by key of btreedb, which `btreedb.h:95` calls "the same as find", returns no
value and spoils the stored one (`btreedb.cpp:193-194`).

Met while modelling, and recorded as hazards rather than contradictions of a document: the moment between the two stores of an id in `add_fd` (`netutil.cpp:136-137`), in
which an id that another transport was given earlier may be taken for the new connection, the two ways in which `stop_all` may hang, the empty queue that
refuses a block for ever, the lap that a delay of 0 waits for outside a callback, the gap that a restart inside a rotation
leaves in the numbers of the log files, the stdout that is closed after it stood in for a file, and the handler that closes its connection in its last
callback.

## What is left out

* Destruction and creation of queues and of timers as operations; allocation failure in `g_timer_create2` and in
  `g_xslab_alloc` (a `g_timer_start` that returns NULL changes nothing).
* `stage_mgr::unregister_stage`, which nothing calls.
* Memory that leaks, such as the dispatcher on the failure path of `create_stage`.
* An unoptimised build in which `default_dispatcher::dispatch` reads `_curr` a second time for its result.
* Cyclic pipelines and handlers that send to their own stage: `ShapeAssumption` allows only earlier stages.
* Sleeping, yielding and spinning: stuttering steps.
* `transport::send_udp` and `has_outdata`, which change nothing, its destructor, and what `send` returns; the poller for platforms without epoll.
* The transfer between two `linked_buffer`s (a `Get` and a `Put`), and the numbers with their byte orders.
* In the pools: a pointer freed twice or never handed out, xslab, the wrappers.  In the log files: renames that fail, levels,
  `set_size_per_logfile`, and the logger in front of the writer.
* Creation and destruction of the stimer stage, and a `g_timer_start` there that gets no node, whose request is forgotten.
* The thread manager; it has no users, and a `stop` right after `run` returns at once while its
  threads are about to start, so there is little to state about it.
* `btreedb::get` by key, hashdb, and what `BTreeDb` leaves out (see there).
* The components marked `not_modelled` in `PROJECT.json`, for the reasons given there.  Most of the repository's lines are theirs:
  vendored xml, stx b-tree and thrift sources, earlier generations of the network code, and functions without state.

## The plan

Done: `EventChannel`, `EventQueue` and its proofs; `Stage` and its proofs; `TimerService`, `TimerWheel` and its proofs, `TimerClients`, `Stimer` and its proof; `Transport` and its proofs;
`SpinRW`, `Fifo`, `FsbPool`, `SlabPool` and `LogFileWriter` with their proofs; `ByteTape`, `LinkedBuffer`, `Buffer` and their proofs; `ItemStore`, `BTreeSteps`, `BTree`, `BTreeDb`, `BTreeCalls` and its proofs.

What would come next:

1. `Dispatcher`: senders racing on `_curr`, one memory access per step, in both builds.
2. hashdb as an `ItemStore`, as `BTreeDb` is.
