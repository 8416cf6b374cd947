# A TLA+ model of mini-redis

This directory models the server in `src/src/`: a single-threaded, poll-driven
key-value server in the style of Redis, with string and sorted-set values,
time-to-live (TTL) timers, idle-connection timers, and a pool of worker threads
that destroys large values in the background. It is checked with TLC and, for
the parts listed under *Proofs*, proved with TLAPS.

## Inventory

| Part (source) | State | Operations | What makes it correct |
|---|---|---|---|
| Event loop (`server.cpp`) | `fd2conn`, the `Conn` objects, the idle list, poll's arguments | accept, read, write, close, timers | no byte or response lost, repeated or reordered; waits for what makes progress; sleeps until the earliest deadline; a connection is closed for a reason only |
| Commands (`exec.cpp`, `state.cpp`) | the top-level map of entries | get, set, del, keys, zadd, zrem, zscore, zrank, zquery, pexpire, persist, pttl | each entry has one owner; its timer lives and dies with it |
| TTL heap (`heap.cpp`) | array of (deadline, back reference) | upsert, delete | heap order; every entry's `heap_idx` names its own slot |
| Hash map (`hashtable.cpp`) | two tables, `migrate_pos` | lookup, insert, delete, foreach, progressive rehash | no node lost or found twice while migrating |
| Sorted set (`zset.cpp`, `avl.cpp`) | AVL tree and hash map over the same nodes | insert, update, delete, seek, offset, rank | both indexes hold the same pairs; order, balance, sizes |
| Doubly linked list (`list.cpp`) | circular list with a dummy head | insert, detach | is the sequence it represents |
| Buffer (`common.cpp`, `common.hpp`) | four pointers into one allocation | append, consume, resize | is a byte FIFO |
| Thread pool (`thread_pool.cpp`) | deque, mutex, condition variable, workers | queue, consume | each task runs once; no lost wakeup |
| Wire protocol (`server.cpp`, `server_utils.cpp`, `client.cpp`) | none | parse, print | what is written is what is read |
| Client (`client.cpp`, `common.cpp`) | socket | send_req, read_res, REPL | requests and responses stay in step |

How the parts interact. One thread runs `main()` of `server.cpp`: it calls
`poll()`, hands each answer to a connection handler, which parses requests and
calls `execute_command()`; commands work on the global `g_data` (the top-level
hash map, the TTL heap, the table of connections, the idle list). Timers are not
threads: `process_timers()` runs at the end of every iteration of the loop, and
`next_timer_ms()` bounds the sleep of the next `poll()`. The only other threads
are the workers of the pool, which receive an `Entry*` that the main thread has
already unlinked. All containers are intrusive: map, heap, tree and list hold
pointers into the objects they contain (`Entry::node`, `Entry::heap_idx`,
`Conn::idle_node`), so that every removal has to be made in each of them.

What is hard: threads (the pool against the main thread); the peers and the kernel,
which move between any two system calls (short reads and writes, hang-up, reset,
interrupted `poll()`, connections accepted and closed between an answer and its use);
timeouts against late activity; pointers that outlive what they point at; long
sequences of legal calls on data structures that keep indices into each other
(heap, rehashing map, tree). There is no persistence, hence no recovery.
`PROJECT.json` lists each hazard at its line under `hazards`.

## Modules

| Module | Models | Checked by | Proved in |
|---|---|---|---|
| `TaskQueue` | what a pool promises: a FIFO of tasks, each run once | (abstract) | |
| `ThreadPool` | `thread_pool.cpp`, one action per lock, wait, unlock, signal, task | `ThreadPool.cfg` | `ThreadPoolProofs` |
| `DList` | `list.cpp`, as operators on the two pointers of every node | through `EventLoop` | `EventLoopProofs` |
| `EventLoop` | `server.cpp` with clients and kernel, over the idle list of `DList` | `MCEventLoop`, `EventLoop*.cfg` | `EventLoopProofs`, `StreamsProofs` |
| `Buffer` | the `Buffer` of `common.hpp` and `common.cpp`, as operators | through `Connection` | `ConnectionProofs` |
| `Wire` | requests and responses byte by byte, as each side writes and reads them, over `Buffer` | through `Connection` | `ConnectionProofs` |
| `Connection` | one conversation: `client.cpp`, `readn()`, `writen()`, the framing of `server.cpp`, over `Wire` | `MCConnection`, `Connection*.cfg` | `ConnectionProofs` |
| `Store` | what a client may expect: a map of values with deadlines | (abstract) | |
| `Keyspace` | `exec.cpp`, `state.cpp`, the expiry in `process_timers()`, explicit memory | `MCKeyspace`, `Keyspace*.cfg` | `KeyspaceProofs` |
| `Timers` | a set of deadlines, one for each owner | (abstract) | |
| `TtlHeap` | `heap.cpp`, one action per iteration of a sift loop | `TtlHeap.cfg` | `TtlHeapProofs` |
| `NodeSet` | a set of nodes with lookup, insert, delete | (abstract) | |
| `HashMap` | `hashtable.cpp`, one action per iteration of the migration loop | `MCHashMap`, `HashMap.cfg` | `HashMapProofs` |
| `AvlTree` | `avl.cpp` as operators on the memory of the nodes | through `SortedSet` | `SortedSetProofs` |
| `SortedSet` | `zset.cpp` and the walk of `avl_fix()`, one action per iteration | `MCSortedSet`, `SortedSet.cfg` | `SortedSetProofs` |

How they compose. `Keyspace` takes the containers below it as what their abstract
specifications promise, and each of these is shown to be implemented by its detailed
module: `Keyspace`'s `heap` is `Timers`' `timers` (implemented by `TtlHeap`), its
`db` is a set of nodes found by key (`NodeSet`, implemented by `HashMap`), a sorted
set is a function from names to scores (as `SortedSet` keeps in two indexes, of
which one is again a `HashMap`), and its `Reclaim(a)` is `Run` of `TaskQueue`
(implemented by `ThreadPool`), used there as a bag since `Reclaim` assumes no order.
`EventLoop` in turn sees of the key space only what the timers can: which keys exist
and when they expire; it extends `DList`, whose links it keeps for the idle list.
`EventLoop` and `Connection` are two views of one code: the first has all
connections, the timers and the idle list, and takes a message for a unit or two;
the second has one connection and takes it byte by byte, with both ends of the
socket. The modules are not joined into one state machine: their product is far
beyond TLC, and the joints are the abstract specifications.

### ThreadPool

`pc[w]` is where worker `w` is in `consume()`: before `pthread_mutex_lock`, at the
test of the loop around `pthread_cond_wait`, asleep, at the unlock, running the
task. The main thread has its own program counter for `thread_pool_queue()`, which
signals after it has unlocked. Waking is modelled as POSIX has it: a signal wakes
one waiter or several if there is one and is lost otherwise, a waiter may wake
spuriously, and a woken one competes for the mutex. `runs`, the number of times a
task has been run, is a history variable.

`RunOnce` (no task is lost, held twice or run twice) and `NoSleepOnBacklog` (as
long as a worker sleeps, at least as many threads are on their way to the deque as
there are tasks in it) are the properties that a test cannot reach;
`ImplementsTaskQueue` is refinement of `TaskQueue`, and `QueuedTasksRun` is the
liveness of the pool.

### EventLoop and DList

`pc` walks through the body of the loop of `main()`: `prepare` (the poll arguments
and the timeout), `poll`, `accept`, `serve` (the next descriptor that `poll()` has
reported: its idle timer starts again, and `read()` is called), `parse` (an action
for each call of `try_one_request()`), `write` (`handle_write()`, called by the loop
or at once by `handle_read()`), `close`, `timers`; `dead` after `SIGPIPE`. Between
any two of these steps the clients connect, send, receive, hang up, and the clock
moves. Bytes are units: a request is a header and a payload, a response is one unit
carrying the number of its request, so that a lost, repeated or swapped response is
visible. `sock[c]` holds the two kernel buffers and whether FIN or RST has arrived.
`read()` returns at most `ReadMax` units of what has arrived, `write()` takes as
much as there is room for. `poll()` may be interrupted (`EINTR`), and with
`SpuriousPoll` it may report a socket that has nothing to read, as Linux says it
may; `accept()` may fail, and does when descriptors have run out.

`idle` are the pointers `prev` and `next` of `g_data.idle_list` and of every
`Conn::idle_node`; `next_timer_ms()` and `process_timers()` read the first
connection from them. `idle_list`, the connections in the order in which they were
last active, is a history variable: that following the pointers gives exactly
this order, both ways round, is part of `TablesAgree`.

The command set is abstracted to what changes timers (`set`, `del`, `pexpire`,
`persist`), to a malformed request (`bad`) and to one that is too long (`long`).
The cast to `int32_t` in `next_timer_ms()` is arithmetic modulo `T32`. Which keys a
pass removes (`ExpireKeys`: the earliest, up to the quota) is the heap's doing, seen
from above; that the heap's root is the earliest is `RootIsEarliest` of `TtlHeap`.

### Connection, Wire and Buffer

A `Buffer` is the size of its allocation, the offset of `data_begin` in it and the
bytes between `data_begin` and `data_end`. `BufAppend` has the three cases of
`buf_append()` (there is room behind; there is room when the data are shifted to
the front; a larger allocation, which keeps the gap in front). `BufResize` writes
its zeroes at the offset that `resize()` has taken before it appends. That the
data lie inside the allocation (`Fits`) is a property, not an assumption.

A byte in `Wire` says which request it belongs to, which field and which byte of
the field it is, so that a reader that is off by one byte, or takes one response for
another, is visible. `parse_req` and `print_res` read the bytes as the code does,
with the checks that the code makes; the place of a size that is not known yet
is reserved and filled in later, as `response_begin()` and `response_end()` do.

`Connection` runs the client of `client.cpp` through `prompt`, `send` (the loop of
`writen()`), `sent`, `header` and `payload` (the two calls of `readn()` in
`read_res()`, one action per `read()`), and the server through `poll`, `parse`,
`write`, `close`. A write may be cut anywhere, a read gets what has arrived by
then; the number of strings that a request announces may be wrong; a command may
be too long to be sent; a response may be too long, and is then replaced by an
error; the server may close at any time, as it does when the connection has been
idle; a signal may interrupt a `read()` of the client, and what it leaves in
`errno` is modelled, since `readn()` looks there even at end of file. `ahead` is
the number of requests a client sends before it reads: 1 is `client.cpp`, more is
a pipelining client, which the server means to support.

### Keyspace and Store

`mem` is the memory: an address is `Free` or holds an `Entry`, and a freed address
can be allocated again, which is what makes a dangling pointer visible. `db` maps
keys to addresses, `heap` maps the address that a heap item's `ref` points into to
the deadline, `doomed` are the entries that the pool has been given. Each handler
of `exec.cpp` is an operator whose disjuncts are its returns; `reply` is the
response. `process_timers()` is a loop of actions (`TimersBegin`, `ExpireOne`,
`TimersEnd`), interleaved with workers only, as in the program.

`Store` says what all of it amounts to: values and deadlines by key, replies
computed from these alone. It shows what the code does about expiry: a key is
found by commands until `process_timers()` removes it, and `set` on an existing
key keeps its TTL, as an update of the entry in place does. `Store` may let a key
expire at any time after its deadline, so the refinement does not say how soon
that happens: `ExpiredKeysRemoved` of `EventLoop` says that it happens.

### TtlHeap and Timers

`arr` and `heap_idx` are the array and the back references. A call of
`heap_upsert` or `heap_delete` is an action that ends with `pc` in the sift loop;
each iteration of `sift_up`/`sift_down` is an action. While a sift runs, one
slot is a hole and its item is in the local variable `item`; the refinement
mapping counts that item. `entry_remove_ttl()` resets the entry's index after
`heap_delete()` has returned, which `dropped` stands for.

### HashMap and NodeSet

`newer` and `older` are the two tables, a slot being a sequence of nodes (the
chain). A call begins with `hm_insert` or `Call`, goes through iterations of the
loop of `hm_progressive_rehash`, an action each, and ends with `Return`. The number
of slots and the hash codes are real, the mask included (`hcode % slots`).
`hm_foreach` is the sequence of nodes handed to its callback, compared with
`hm_size()` because `keys` announces one and lists the other.

### AvlTree and SortedSet

`tree[n]` is the `AVLNode` in the node of name `n`, with its three pointers, height
and count, or `Free`; `hmap` is the set of names that the hash map has nodes for.
A call is an action that changes the two indexes up to the first `avl_fix()`, an
action for each iteration of its loop, and an action for what is left: the
successor that takes the place of a deleted node (`Deleted`), the node that is put
back with its new score (`Updated`). `AvlTree` has no state of its own: its
operators return the memory as the C++ functions leave it, pointer by pointer, so
that a link that is not updated is visible. Queries do not change the state and
are operators (`avl_rank`, `avl_offset`, `zset_seek_ge`, `exec_zquery`), compared
with the sequence of the pairs in order. `zquery` counts a pair as two items of its
limit: it returns the limit's half, rounded up.

## Runs

| Run | Bounds | Distinct states | Shows |
|---|---|---|---|
| `ThreadPool` | 3 workers, 4 tasks | 24 thousand | safety, refinement of `TaskQueue`, every queued task runs |
| `EventLoop` | 2 clients, 2 descriptors, 2 keys, reads of 3 units, room for 1 response, clock 0..1, spurious `poll()` | 3.0 million | no byte or response is lost; answers used for the right connection; tables and links agree; waits for what makes progress; sleeps until the earliest deadline; closed for a reason; all connections that time out found, longest idle first |
| `EventLoop_live` | 1 client, 2 keys, clock 0..2, one key per pass | 131 thousand | requests executed, responses arrive, silent connections and expired keys go |
| `EventLoop_far` | TTL of half of `T32` | violation | finding 1 |
| `EventLoop_sigpipe` | 1 client | violation | finding 2 |
| `Keyspace` | 2 keys, 2 addresses, 2 names, 2 scores, clock 0..1 | 137 thousand | ownership, the assertion on the root, refinement of `Store` |
| `Keyspace_negative` | a negative TTL | violation | finding 3 |
| `TtlHeap` | 6 entries, deadlines 0 and 1 | 402 thousand | back references, root, refinement, termination of sifts |
| `HashMap` | 6 nodes, tables of 2, 4 and 8 slots, one node migrated per call | 239 thousand | migration, walk, load, refinement, termination of calls |
| `SortedSet` | 12 names, one of which changes its score | 3.6 million | both indexes agree, balance and cached fields, queries |
| `Connection` | 2 requests, up to 2 of them ahead, 1 signal, messages of up to 9 bytes, 10 bytes in a socket, 2 bytes in a 32-bit field | 90 thousand | request and response stay in step, bytes stay in the allocation when the client waits, a command ends |
| `Connection_pipelined` | 24 bytes in a socket | violation | finding 4 |

Why these bounds are enough for the cases that matter:

* `ThreadPool`: a worker can sleep, another be on its way and a third run a task
  while the main thread is between unlock and signal, with tasks in the queue.
* `EventLoop`: with room for one response in the socket and two pipelined
  requests, responses are left in `outgoing` and requests behind them; a request
  can be cut between header and payload and within a read. Two connections make
  the cases of the idle list (first, last, only one), and the clock makes one of
  them older than the other. The loop accepts before it serves, so a descriptor that
  one iteration closes is given away at the start of the next one or later, never
  between two answers of the same `poll()`. What needs more clients or
  a longer clock is left to the proofs, which bound neither.
* `EventLoop_live` has more keys than one pass may remove, and a script that moves
  a deadline to an earlier one, and one that takes it away.
* `Keyspace`: `LargeZset = 0` makes every sorted set with a member a large one
  and an emptied one a small one, so that both ways of freeing occur; with
  two addresses an entry can be in the hands of the pool while its key has a new
  one, and an address is used again after it was freed.
* `TtlHeap`: six items give three levels, so an item moved into another subtree
  on deletion may have to move up. Two values decide every comparison; equal
  deadlines included.
* `HashMap`: the load factor is 1 and the work per call 1 (8 and 128 in the
  code), so two rehashes happen with six nodes, and a migration lasts several
  calls during which nodes are in both tables. Two nodes have the same hash code.

* `SortedSet`: a deletion that rotates twice on its way to the root needs an AVL
  tree of height 5, which has twelve nodes at least. All scores but one are equal,
  since the tree sees only the order of the pairs; the one that changes moves its
  name to the end of the order and back.
* `Connection`: with two bytes in a length field a header can be cut, too. The
  longest request reaches `MaxMsg` and another exceeds it, and so do the answers; a
  socket holds less than two messages, so that both sides meet a full one; a buffer
  grows, is shifted and is emptied within two requests.

Bounds on unbounded counters: `MaxTime` stops the clock, `Scripts` bounds what a
client sends, `Tasks` bounds what is queued; each client connects once; `Rounds`
and `Signals` bound the requests and the signals of `Connection`, `Addrs` the
memory of `Keyspace`. `CHECK_DEADLOCK FALSE` stands in the configurations in which
these bounds end behaviours.

## Fairness

* `ThreadPool`: weak fairness of each worker and of `thread_pool_queue()` once it
  has been called (the scheduler runs every thread that can run). Nothing obliges
  the main thread to queue a task, a sleeping worker to wake unprompted, or the
  mutex to be given to a particular thread.
* `EventLoop`: weak fairness of the server's steps (its one thread runs); strong
  fairness of `PollReturn`, since signals (`EINTR`) may interrupt `poll()` any number
  of times but not for ever, and of the clock up to its bound, since the model stops
  it while `process_timers()`, which reads it once, is running; and, of a client,
  only that it receives what has arrived (needed for `ResponsesArrive`, which says
  so: "a client that reads") and that its kernel answers data for a closed socket.
  No client is obliged to send.
* `Connection`: weak fairness of the client's process and of the server's. Nobody is
  obliged to type a command, no signal has to come, and the idle timer of the
  server need not run out.
* `TtlHeap`, `HashMap`: weak fairness of the loop that is running, which is that
  of the only thread that uses the structure.
* `Keyspace` and `Store`: safety only.

## Proofs

TLC checks the instances above; the theorems hold for every value of the constants
that satisfies the named assumptions (`PoolAssumption`, `LoopAssumption`,
`KeyspaceAssumption`, `OrderAssumption`, `FreeAssumption`, `HeapAssumption`,
`InitCapAssumption`, `WireAssumption`, `ConnectionAssumption`, `TreeAssumption`, `SortedSetAssumption` and those of `HashMap`,
each in its module and evaluated by TLC on every run of it).
They are of the form `Spec => []Inv`, `Spec => [][A]_vars` or
`Spec => Abstract!Spec`, but for those about the list in `EventLoopProofs` and about the
buffers in `ConnectionProofs`, which are about operators.

* `ThreadPoolProofs`. `LockInv`: the mutex is held by exactly the thread whose
  program counter is in a critical section. With it a pop sees the deque that the
  test saw, which gives `TypeOK` (no `front()` of an empty deque) and
  `RunOnceInv`. `NoSleepOnBacklog` is inductive with these: it counts
  the workers that are `Looking` (on their way to the queue), and the signal that
  the main thread has yet to send, against the tasks in the deque. The
  refinement of `TaskQueue` follows action by action (its safety part; fairness
  stays with TLC).
* `TtlHeapProofs`. `Refs` says, during a sift too, which slot each entry knows,
  the hole and the dropped entry excepted; `Order` that no item is
  earlier than its parent, but for the item in hand, which may be earlier than
  its parent while it moves up and later than its children while it moves down. That the root is earliest then follows
  by the least-element principle: a slot that is a least counterexample has a
  parent that is one too. The refinement of `Timers` reads the deadlines off
  the indices, including the item in hand.
* `KeyspaceProofs`. `DataInv` is type correctness and the parts of `Ownership`
  together with the fact that two keys never share an address, inductive only as
  a whole: what keeps a freed address out of the heap is that items point at
  entries of the map. `RootIsInMap`, an assertion of the program, follows.
  `KeyspaceIsStore` is the refinement of `Store`: what a client sees of a key is the
  value at its address and the deadline of the item of its address, so a command
  that changes one entry must be shown to leave the view of every other key alone,
  which is where `DataInv` comes in. `zquery` answers by recursion over the order of
  the pairs, `Store` by a range of ranks; that they agree rests on a closed form of
  the recursion, which is shown to satisfy its equation, and on the least length
  at which another function that satisfies it could differ.
* `HashMapProofs`. The invariant says that a node is in the slot of its hash
  code, once, and in one table only; that the slots below `migrate_pos` of the
  older table are empty; and that `size` is the cardinality of the set of
  nodes. `LoadBounded` needs more: insertions are not checked against the
  threshold while a migration is in progress, and what saves it is that a call
  migrates at least one node. `LoadInv` therefore counts two for each node that is
  still to be migrated. It also shows that the guard of `hm_trigger_rehash` on an
  unfinished migration is never what stops a rehash. `ForeachAgrees` follows from
  the first invariant: the slots have no node in common because each node is in the slot
  of its hash code, so putting the chains of both tables one behind the other
  repeats nothing, and a sequence without repetition is as long as its set is large.
  `FlattenSeq` is a `CHOOSE` of a recursive function: that there is one comes first.

* `EventLoopProofs`. First the list: `Represents` says that the pointers of the head
  and of a sequence of nodes form a ring, both ways. Inserting before the head
  appends to the sequence; detaching a node removes it and keeps the order of the
  rest, for lists of any length. Then the loop: the inductive invariant `Inv` is a
  conjunction of
  `TypeOK`; `InRange` (what a buffer holds was sent, so that a unit names a request
  of the script); `Fresh` (a client that is not connected has no `Conn` and no
  place in the list); `Phases` (what each `pc` promises about the answer being
  handled); `Past` (no connection was active in the future, which is what keeps the
  list sorted); `TablesAgree`; and `Modes`: every live connection is `Settled`,
  which is what `WaitsForTheRightThing` asks of it when the loop sleeps, except
  the one being served, which is in a `ServedMode` on its way back there. Each
  event of the loop disturbs one connection, so the lemma of an action shows what
  becomes of this one and that the others are left alone. `SleepsUntilDeadline` is
  proved under `TimeoutsInRange`, that no TTL is as long as half of `T32`: the cast
  is the only thing that can break it, and `EventLoop_far` breaks it there.
  `IdlestTimeOut` rests on the order of the list in `TablesAgree`: the head, which
  is all that `process_timers()` looks at, has been idle for as long as any other.
* `StreamsProofs`, on top of `Inv`. A sequence of consecutive numbers is given by
  its first one and its length (`IsRun`), so `StreamsIntact` becomes a sum: the
  units of executed requests, in the buffer and in the socket add up to the units
  sent, each run starting where the one before it ends; the responses likewise, as
  long as the socket has no error (a reset throws away what was in flight).
  `WantsForAReason` says that behind every `want_close` there is an error, an end
  of file with nothing left to execute or to send, or a request that cannot be
  executed; `ClosedForAReason` follows from it at the step that closes.
* `SortedSetProofs`. The first part knows nothing of the memory: a tree is three
  functions (left, right, parent) and `sub`, the set of nodes below each node, and
  it is a `SearchTree` for an order if everything below the left child comes before
  the node and everything below the right child after it. `FitsAt` says that height,
  count and balance are right at a node; in a tree that is `Unsettled` at `x` they
  are, except at `x` and at its parent, which would fit if `x` had the height that
  it had before, and that height is at most one off. Rotations, hanging a leaf,
  cutting out a node and renaming one are shown to keep such a tree on one side;
  the other side is the same lemma about the mirrored order. The second part shows
  that `avl.cpp` does these things to the memory, pointer by pointer. The
  inductive invariant `TreeInv` then says that at every step of a call the allocated
  nodes form a search tree in the order of (score, name) that is unsettled at `cur`
  at most, which nodes the hash map has, and, while a node is being deleted, that the
  victim, already out of the tree, is the node itself or the next one in the order. With `cur = NULL`
  the tree is `Settled`, which is `Balanced`. For `IndexesAgree` and `QueriesAgree` each node gets
  its place in the list of the nodes in order; the cached counts give the distance
  between the places of a node and its child, and so the places satisfy the recursions of `InOrder`, `avl_rank`, `avl_offset`, `zset_seek_ge` and
  `exec_zquery`. Each of these functions is a `CHOOSE` of a solution of an
  equation: a solution is exhibited first, and that the chosen one agrees with it
  is then an induction over the tree, from the leaves up or from the root down, by
  a least counterexample (`TreeInduction`).
* `ConnectionProofs`. First the buffers: the doubling of the capacity ends and reaches
  what is needed, for any sizes; appending puts the bytes behind the data, and inside
  the allocation if there is no gap in front of the data or no reallocation is needed -
  which is where finding 4 stops; consuming takes them from the front and keeps the
  rest inside. Then the messages: a request has its size in its first field and is
  as long as that says (`RequestIs`); an answer is one of seven shapes, whatever the
  command has output and wherever in the buffer it is written (`OutputIs`), the
  size that is reserved and filled in behind included; `print_res()` reads each of
  them to its last byte (`PrintsAll`); and `response_end()` leaves a header with the
  length of what follows, cut off or not (`ResponseIs`). The functions that
  build and read messages by recursion are shown to exist and to be unique first,
  by a least counterexample.

  The inductive invariant `IInv` has four parts. `Types` has the types and what
  the variables of one side have to do with each other. `InFlight` is the one that
  matters: what has been read of a response, the socket, and what the server has still to
  write are, put together, exactly the responses that are awaited and have
  been computed, whole and in order; and what the server has received, the socket,
  and what the client has still to write are the requests that are not answered
  yet. So a response that is cut, twice there or left over contradicts it, and an
  action only moves bytes from one place to the next or takes a message off the front.
  `Shown` and `Single` say what is shown last and that, with one request at a time, no
  buffer has a gap when something is appended. `InStep` alone is not inductive: it
  says nothing while bytes are under way. `AppendsFitWhenWaiting` needs `InFlight`
  too: that the buffer is empty when the next request comes follows from there being
  nothing else in flight.

Proofs are laid out as one lemma per action, which the invariant, the action
properties and the refinement share.

Only model-checked: liveness (`QueuedTasksRun`, `SiftEnds`, `CallsReturn`,
`CommandsEnd`, and the four of `EventLoop_live`), which is out of the prover's
reach, as is `ENABLED`. Every invariant, every action property and every refinement
that a passing run checks is also a theorem (of a refinement, the part without fairness).

## Findings

1. `EventLoop_far`: `next_timer_ms()` returns `(int32_t)(next_ms - now_ms)`
   (`server.cpp:315`). A TTL of 2^31 ms or more on the only timer makes it
   negative, which `poll()` takes for no timeout: the key is not removed until
   something else wakes the server. The comment (`server.cpp:291`) keeps -1 for
   "no timeout".
2. `EventLoop_sigpipe`: responses left over from a short write are written later
   to a connection that the peer has closed and reset; `SIGPIPE` is not ignored,
   so the server ends, although `handle_write()` has a branch that closes the
   connection on such an error (`server.cpp:76-81`).
3. `Keyspace_negative`: `pexpire k -1` passes `str2int()` and fails the assertion
   `ttl_ms >= 0` (`exec.cpp:273`), which aborts the server instead of answering
   `ERR_BAD_ARG`.
4. `Connection_pipelined`: when `buf_append()` reallocates, the new capacity covers
   data and new bytes but not the gap in front of them, which is kept
   (`common.cpp:97-106`). With pipelined requests the gap is there when the next
   bytes are read, and the data can end behind the allocation, although the server
   loops over requests "to support 'pipelineing'" (`server.cpp:134`).
   `AppendsFitWhenWaiting` shows that it does not happen with a client that waits
   for each response.

## Not modelled, and why

* The conversions `str2dbl()`, `str2int()` and `str_hash()` as functions of
  characters: `Keyspace` has the outcomes of the first two (a number, or
  `BadNumber`), `HashMap` has hash codes in place of the third. The splitting of a
  line into words in the client, and the text that `print_res()` prints.
* `fd_set_nb()` and the setting up of the sockets and of the pool's threads: they
  run once and change nothing that is modelled.
* The memory of a connection's buffers, which `conn_destroy()` does not give back;
  memory exhaustion and failing `pthread_*` calls (the code asserts on them).
* Signals that interrupt `write()`: `writen()` fails where `readn()` goes on; only
  reads are interrupted in `Connection`.
* Values inside the responses, in `Connection`: a response is its type and sizes.
  What is answered is `Keyspace`'s `reply`.
* Deadlines are unbounded naturals: the 64-bit clock does not wrap within the life of
  a machine; the one narrowing conversion of the code is modelled in `EventLoop`.
* `hm_insert` is called by the code only after a lookup has failed, and `HashMap`
  keeps to that.
* There is no persistence in the code, hence no crash and restart in the models.

## Plan

Done, in this order: `ThreadPool`, `EventLoop`, `Keyspace`, `TtlHeap`, `HashMap`,
`SortedSet`; then `DList` with its pointers under `EventLoop`, `Buffer`, `Wire` and
`Connection`, the remaining commands of `Keyspace`, and the proofs about the event
loop, the list and the buffer.

Then the refinement of `Store` by `Keyspace`, the invariants of `SortedSet`
and of `Connection`, and `ForeachAgrees`.
