# Verification of the fuse_node19 file system

The repository is a FUSE file system (`src/src`) whose data lives in the
memory of several servers, which it reaches through an RDMA client library,
DHMP (`src/dhmp_client`). This directory keeps TLA+ modules that model it, the
TLC configurations that check them on small instances, and TLAPS proofs.

Paths below are relative to the repository: `src/dhmp_fs_io.c` is the file
system's, `dhmp_client/src/dhmp_work.c` the library's.

## The system

    kernel / libfuse
        |  path operations           |  read and write of an open file
        v                            v
    directories, hash maps      file index: places -> chunks
    (dir_ops.c, hashmap.c)      (index.c, dhmp_fs_read/write in io.c)
        |  get_free_inode,           |  chunk = part of a bank
        |  reset_indoe               v
        +----------------->     DRAM cache of banks, flusher (io.c)
                                     |  whole banks
                                     v
                                replication and recovery (io.c, recovery.c)
                                     |  dhmp_read / dhmp_write / dhmp_malloc
                                     v
                                client: work queue and work thread (dhmp_client.c, dhmp_work.c)
                                     |  messages, RDMA reads and writes
                                     v
                                links: connection manager, event loop (dhmp_transport.c, dhmp_context.c)
                                     |
                                     v
                                server: areas and buddy system (dhmp_server.c, dhmp_transport.c)

| Component | State | Operations | What is hard | What makes it correct |
|---|---|---|---|---|
| Directories, `dhmp_fs_dir_ops.c` | tree of inodes: list of sons, `son_nums`, `d_hash` | mkdir, mknod, unlink, rmdir, rename, path resolution | entries are kept twice; recursive removal goes by a counter; inodes are used again | no inode lost or shared; lookups see exactly what was made |
| Hash map of a directory, `dhmp_fs_hashmap.c` | array of entries with chains, `size`, `listSize` | put, get, exists, remove, resizing | lookups take no lock; put and remove resize; a resize calls put | the map is a function; nothing leaks; lookups are right |
| Inodes, chunks, file index, `dhmp_fs_index.c`, `dhmp_fs_io.c` | pointers of the index, contexts with back pointers, bitmap, inode slab | read and write loops, double-checked allocation of a chunk, removal | racing writers of one file; tests outside the lock | a chunk has one place; bitmap exact; sizes add up |
| Level tables, `dhmp_fs_index.c` | direct, first, second and third level of an index | splitting an offset, making tables on first use, removal through back pointers | units and ends of the levels; racing threads make one table | the levels are one array |
| DRAM cache, `dhmp_fs_io.c` | slots with two labels, buffer, dirty flag, lock | read, write, eviction, flusher thread | labels are read without the lock; write-back of whatever the label says | eviction and flush are invisible; a clean buffer is what the servers have |
| Replication and recovery, `dhmp_fs_io.c`, `dhmp_fs_recovery.c` | server states, pending rewrites, recovery flags | fan-out of writes, read with retry, recovery thread | connections break at any moment, also during a recovery | a server that was never lost has every write and serves it |
| Client of DHMP, `dhmp_client.c`, `dhmp_work.c` | work queue, table of remote addresses, registered buffers, flags | malloc, free, read, write, send | works on the callers' stacks; callers and the work thread spin on flags without end; answers are copied while somebody reads them | requests are those of one memory, each answered once |
| Links, `dhmp_transport.c`, `dhmp_context.c` | `trans_state`, `cm_id`, `qp`, event channels, `in_recovery`; `client_list`, `cur_connections` at a server | connect, accept, loss, retry, close; the event loop | handlers take the latest `cm_id` for the one an event is about; retries go by a clock; the server guesses which link is which | lists and counters are exact; a link that says CONNECTED can be used; the loop goes on |
| Memory of a server, `dhmp_server.c`, `dhmp_transport.c` | areas, free lists of each order, `max_index` | malloc and free requests | splitting, merging, areas that change lists | no byte lost or given twice |
| Entry points, `dhmp_fs.c` | the initial state of all others | main, mount options, `dhmp_init` | | (the state it sets up is where the modules begin) |
| Hot-data migration, `dhmp_poll.c` | counters, thresholds | poll of the address table | | not built: `DHMP_CACHE_POLICY` is commented out (`dhmp_client/include/dhmp.h:25`) |
| Devices, timers, watcher, configuration, logging, hashing | | | | (not modelled) |

Threads: libfuse workers (many, or one with `-s`), the flusher
(`rewrite_dirty_cache`), one `write_pthread` per server and write, the recovery
thread, the work thread and the event loop of the client, and one event loop on
a server. `PROJECT.json` lists the hazards, each at its line.

What the kernel and libfuse, which are outside the repository, guarantee is
used as follows. The kernel lets one thread modify a directory at a time;
libfuse locks the path of an unlink, rmdir or rename against the operations on
that path and below it. Lookups of paths below a directory may overlap with a
modification of that directory. Unlinking an open file arrives as a rename. The
kernel sends an operation only where its own tree has the file or the directory
that it is about. That tree is the file system's as long as no rename went into
another directory (`strayed` in `DirTree`); from then on it is sent anything.

## Modules

One line of TLA+ stands for several of C; `map` in `PROJECT.json` gives the
lines of every definition.

**`DramCache`** (refines **`BankStore`**). A worker is at a place `pc` of
`dhmp_fs_read_from_cache` / `dhmp_fs_write_to_cache` and what they call; each
access to shared memory or a lock is an action (`Visit` tests the hash label
without the lock, `LockWrite`, `Store`, `ExpelCheck`, `LockExpel`, `WriteBack`,
`RelabelHash`, `RelabelBank`, `Refill`, ...). The flusher has actions of its own.
The servers are one store `remote` that may be lost (`LoseServers`). A transfer
ends at once, or a lost connection cuts it off and its thread spins for good with
`rewrite_lock` held (`CutOff`, `hung`), as in `Replication`.
`BankStore` is a memory of banks that changes only by a write which a worker has
asked for.

**`Replication`**. One client process per bank (its slot's lock serialises
accesses to it), its `write_pthread`s `th`, the recovery thread with a place
`rpc`, and a boolean for each connection. `Drop` is `on_cm_disconnected`. A
transfer that was handed over when the connection broke never completes
(`Hung`, `GetStuck`): `dhmp_wc_error_handler` sets no flag. Uses of a NULL
server or a freed node end in `crashed`; values that the program reads
uninitialised are chosen freely (`JoinGarbage`).

**`FsIndex`** (refines **`ChunkOwners`**). The levels of an index are one
array of places, which `LevelIndex` justifies. A worker is at a place of
`dhmp_fs_write`, `dhmp_fs_read`, `level3_local_index`, `getFreeChunk` or
`reset_indoe`; `file_lock` and `context_lock` are owners. Sizes wrap at `SIZE_T`
as `size_t` does. A full disk (`NoSpace`) and an offset beyond the largest file
(`BeyondIndex`) crash it, as they crash the program. `ChunkOwners` says that a
chunk is taken by one place and given back before another one takes it.

**`LevelIndex`** (refines **`FlatIndex`**). The places of the inode and of the
three levels of tables, the arithmetic by which `level3_local_index` finds the
place of an offset, the tables and chunks it makes where it finds NULL, first
without the inode's lock and again under it, and `reset_indoe`, which goes by
the back pointers of the chunks. `FlatIndex` is an array indexed by offset /
`CHUNK_SIZE`: a thread asks, and is told a chunk or makes one.

**`DirTree`** (held to **`Namespace`**). An operation on paths is one step, see
the guarantees above; `dhmpDelete` covers unlink and rmdir and gives back the
whole subtree that `dhmpDeleteALL` reaches; `reset_indoe` keeps `son_nums`, as
the code does. Inodes are used again at once. The order of lists is left out.
Once the kernel's tree differs (`strayed`), `Mknod`, `RenameLost` and `Resolve`
also have the steps that go through NULL, which end in `crashed`. `Namespace` says
of paths what the comments at `src/dhmp_fs.c:300-319` promise: rmdir removes an empty
directory, rename gives the file its new path. The code keeps neither promise in
full, see "What was found", and `Promised` says what it does keep: mkdir, mknod,
unlink, rmdir of an empty directory and rename within one directory do exactly what
`Namespace` says; an rmdir of a directory that is not empty and a rename into
another one change no path outside what they are about.

**`HashMap`**. The statements of `defaultPut`, `defaultRemove` and
`resetHashMap` that write shared memory are steps of the modifier, the loads of
`defaultGet` and `defaultExists` steps of a reader that runs beside it. `map` is
the function that the table stands for, `overlap` the worst thing that happened
during the present lookup. Reading freed memory or an entry without a key in
`strcmp` ends in `crashed`. `realloc` may move the array or not.

**`Requests`** (refines **`RemoteMemory`**, with the exceptions below). A caller
appends its work to `works` and waits; the
work thread's place `pc` goes through the handlers of `dhmp_work.c`; `dhmp_send`
does its steps in the caller's thread. A queue pair is a FIFO `wire` to the
server and a FIFO `back` of answers and completions; the server's event loop
serves its `inbox`, the client's has one event in `hand`, so that what it does
in two steps (a buffer goes back before the flags are set, an answer is copied
field by field) can be seen half done: `AwaitTorn` is the work thread that is so
quick. `Lose` drops what was under way, with
the server's memory or without; a transfer with a key of an earlier life of the
server puts the queue pair in error. `Hash` is any function, so that addresses of
two servers may share a bucket. Which block a server gives out is free
here, `Buddy` has the choice. `RemoteMemory` is one memory on which each request
takes effect at once, between its call and its return. Three things that the code
allows end this, and the history variable `past` keeps which of them has happened
(`Remember`): an answer was seen half written ("torn"), a lookup found another
server's entry ("stray", `Foreign`), a dhmp_send met a free of its block or a
restart of its server ("wild"). The properties that need it say from which of
them on they promise nothing; the steps themselves are taken in any case.

**`Connections`**. The application goes through the steps of
`dhmp_client_init` and `dhmp_client_destroy` (`Program`), the event loop takes
events out of the transports' channels and runs the handlers, a recovery thread
per lost transport tries again, and a server accepts, hears and closes. Each
call of `dhmp_transport_connect` makes an attempt, and is two steps, since it
writes `trans_state` only after `rdma_resolve_addr`, when the event loop may have
been there already (`Connect` and `Connecting`, `Reconnect` and `Reconnecting`);
events name the attempt they
belong to, but the handlers use the transport's latest one, as the code does.
The recovery thread's `Wake` after `sleep(1)` waits for nothing.
Faults: a server's process ends (and is started again), a connection is lost, an
attempt cannot be begun (`rdma_create_id` or `rdma_resolve_addr` fails,
`StartFails`), gets no answer, ends in an error, or is asked for and the server's
`rdma_accept` fails (`RequestFails`: the transport stays listed and counted, and
is never served). A handler that uses a NULL `cm_id` crashes the process. The
history variable `races` keeps which orders there have been that the code does
nothing against: an attempt that began before the one before it was over ("retry"),
a `trans_state` written over ("late"), a request that came to the server before the
established event of the connection accepted before ("request"). What fuse_recover
does once the thread calls it is in `Replication`.

**`Buddy`**. A request to a server is one step (one thread handles them).
Areas are free memory, buddy areas or given out as a whole. Sizes and addresses
count `buddy_size[0]`. Any block of a free list may be its first.

`MC_*` give the constants, scenes and symmetries for TLC; `*Proofs` hold the
proofs.

How they fit together: `DramCache` takes the servers as one store, whose
behaviour under lost connections is `Replication`; `Replication` takes a request
as one handed-over transfer, whose life is `Requests`; `Requests` takes a
connection as up, in error or down, how it gets there is `Connections`, and a
server's choice of a block as free, which `Buddy` refines; `FsIndex` takes the
levels as an array, which is the theorem `LevelsAreOneArray`; `DirTree` takes a
directory's map as a function, which is the theorem `MapsAreFunctions`.

## Runs

| Run | Shows | Bounds, and why they do |
|---|---|---|
| `cache_workers` | locks and labels of a slot are kept (`SlotDiscipline`), clean buffers equal the servers' copy, refinement of `BankStore`; a single worker stores and reads what it asked for (`SingleIsCurrent`); once no accesses come, all return and buffers get clean, unless a transfer is cut off | one slot, two banks, two workers and the flusher: every race in the cache is about one slot and the two banks in its labels |
| `cache_write_miss` (violation) | a write that misses is not stored | one worker |
| `replicas_three` | intact servers keep and serve every write; the recovery flags follow the thread; an access ends unless a transfer was cut off | three servers (one recovered, one helping, a third), two writes, two lost connections: a second loss may fall into the recovery of the first one |
| `replicas_recovered` (violation) | a recovered server serves without the banks' content | as above, three losses |
| `index_files` | looked-up chunks stay, sizes are sums, index, back pointers, bitmap, lists and slab agree; refinement of `ChunkOwners` | two files that compete for two chunks; five pieces to read or write: inside a chunk, across two, over the end of the last one, beyond it |
| `index_size_reloaded` (violation) | the reader's count wraps | one file, one chunk |
| `levels` | tables and chunks are made once, back pointers are exact, the levels are one array | one direct place and tables of two: 15 places, offsets in every level, at both sides of ends, and beyond; two threads, three chunks |
| `tree` | no inode lost or shared, counters and names agree, operations do on paths what they promise, except for what is listed below | three inodes below the root, two names, paths of three names: nesting, siblings, reuse of inodes, renames onto a name and into another directory, and removals of directories with sons all occur |
| `hashmap` | the map is a function with exact size and nodes; a put that does not resize disturbs no lookup | up to three keys of four, starting with two cells: it grows twice, shrinks twice, and chains have three entries |
| `requests` | works are alive when the thread uses them, buffers belong to one at a time, nothing leaks, entries are found, refinement of `RemoteMemory`, every request is answered unless a connection fails | two callers, two blocks; seven scenes, see below |
| `connections` | lists and counters at servers, one recovery at a time, the loop goes on, CONNECTED links can be used, both ends agree which link polls, a recovery gets to its callback | one server with both its links; seven scenes, see below |
| `buddy` | no byte lost or given twice, `max_index` exact, buddies merged | three orders, two areas, sizes at and on both sides of the limits |

Some runs choose a scene at the start and keep it (`scene`, `single`): the
whole product of what may vary is too large, and the cases that matter do not
need it. `MC_DramCache` has many workers, or calls that never overlap. `MC_Requests` has
callers who race for one block; `dhmp_send` beside the work thread; `dhmp_send`
beside a free of its block; transfers of
three lengths, one of them above the threshold, so that buffers of two lengths
are in the pool; one lost and restarted server; two servers with equal
addresses, one of them in the same bucket (`MCHash`); answers that are seen half
written. `MC_Connections` has every kind of fault once, after the links are up in a
program that may end, or before; a crash before a server that starts
without a watcher; a crash, and then an attempt that fails in any way at either end
while the connection is made again; the same after a loss, with a `trans_state`
written over; no fault, but requests that come too early; a loss after which
attempts overlap. That the first of two faults ends a connection, and the second
does not, keeps the number of states within reach; the theorems have no such bound.
`MC_FsIndex` restricts the pieces by an action constraint. Symmetric are workers
(`index_files`), chunks (`levels`), inodes and names but the root (`tree`),
values and nodes (`hashmap`), areas (`buddy`); no run that checks liveness uses symmetry.

Deadlock is checked where the system goes on for good (the buddy system) and not
where it may stop: a crash (also of the tree), a stuck work thread, threads of the cache that all
wait for one whose transfer was cut off, the end of the program, or a bound that
is reached.

Bounds in guards: `MaxWrites`, `MaxDrops`, `MaxLosses`, `MaxFault` (writes, lost
connections, faults), `MaxAttempt` (attempts that are remembered; they are
reused when nothing refers to them), `MaxInfo`, `MaxSmr` (structs and registered
buffers), `MaxOffset`, `MaxSize` (arguments of calls), `Depth`, `MaxSons` (paths
and `son_nums`), `MaxListSize` (keys of a map).

Assumptions that the runs make, beyond the guarantees of the kernel:

* a server that was started again refuses the keys of its earlier life;
* of an answer, the address and length of a block become visible together, before
  the keys (`AwaitTorn`); of a refusal the length first, as it is written;
* `watcher_trans` of a server is the watcher process' own link, or NULL, or,
  since `dhmp_server_init` does not set it, a value that is no link of this
  client (`Watchers`).

### Fairness

`SettlesClean` assumes weak fairness of each thread as a whole: the operating
system runs every thread, but a mutex is not handed out fairly, and the flusher
only tries it (`pthread_mutex_trylock`). So it speaks of the time after the last
access. It excludes transfers that were cut off, like `AccessEnds`: the flusher
or the evicting worker then keeps the lock of its slot for good. `AccessEnds` assumes weak fairness of the FUSE threads and write threads,
none of the recovery thread, and no connection that stays up. It excludes
transfers that were cut off: after one of them the program really waits for
good. `Answered` assumes that the work thread, a caller in `dhmp_send`, the event
loops and the network go on; it excludes lost connections for the same reason,
and callers that use `dhmp_send` for ever, see below. `RecoveryEnds` assumes that
threads, loops and network go on and that a server that ended is started again,
without which there is nothing to connect to; faults may come until their bound
is reached. It has three exceptions, all of them reached by the run: an attempt
that ends with CONNECT_ERROR takes the transport's channel out of the event loop
(`dhmp_client/src/dhmp_transport.c:1488`), so that the recovery never hears of any
later one; an attempt that overtakes the one before it, or a CONNECTED that is written
over; and the end of the program. No fairness is assumed of faults or of the application's wish to end.

## What is proved

Each of the theorems holds for all values of the constants under the named
assumptions in the modules (positive sizes, values outside the sets they are
told apart from).

* `DramCacheProofs`: `TypeOK`, `SlotDiscipline` (`LockOwner` and `LabelsAgree`),
  `CleanIsRemote`, the refinement `Hidden`, for one worker
  `LoneStoreHitsItsBank` and `LoneReadIsCurrent`, and the same for any number of
  workers whose calls do not overlap (`SingleIsCurrent`): what counts is not who
  calls but that nobody relabels a slot between another's hit and its copy
  (`InTurn`, `LabelHolds`). `CleanIsRemote` speaks of unlocked slots only; `Coherent` says what holds inside the critical sections
  (before the relabelling, between it and the refill, while the flusher clears
  `dirty`), and needs `Placed`, which ties a worker's place to its request.
* `ReplicationProofs`: `TypeOK`, `IntactServes`, `IntactIsCurrent`,
  `ReadIsCurrent`, `FlagsMatchThread`. The invariant `IInv` adds where the
  recovery thread's servers can be (`RecoveryPlaced`: never at an intact one) and
  how far the write to an intact server has come at each place of the client
  (`IntactProgress`).
* `FsIndexProofs`: `TypeOK`, `OneOwner`, `BitmapExact`, `StableTarget`,
  `ChunksBelong`, `SlabIsUnused` and the refinement `Owned`. None of them is
  inductive alone. `IInv` joins them with who holds the locks (`LockHolders`),
  which inode a worker is at (`Heads`), and what it knows about the place and
  the chunk it is at (`Knows`): that a place is still empty while `file_lock` is
  held, that two workers do not link one chunk. `SizeIsSum` rests on `Unsized`
  besides: a chunk that is at no place of an inode counts for nothing. Its sum goes
  over the places of the inode, and each step of a writer changes one summand.
* `LevelIndexProofs`: `BackPointers`, `NothingHidden` and the refinement
  `OneArray`. The arithmetic comes first: the four ranges of offsets are
  disjoint and cover everything below the largest file, and the number of a place
  (`Number`) is injective and is offset / `CHUNK_SIZE`. `IInv` adds where a thread
  is (`Placed`): which tables on its way exist, and what it has seen under the lock.
* `DirectoryProofs`, the tree: `TypeOK`, `OneParent`, `NamesAreSons`. `IInv` says that
  lists belong to directories (`ListsAreOfDirs`), that an inode in use is in one list
  (`HasFather`, `OneFather`), that the lists have no cycle (`Rooted`, stated as:
  every set of inodes has one that no member has as a son, which needs no
  recursion), and that a counter is never below the number of sons (`Counted`),
  without which `dhmpDeleteALL` would stop above a subtree. `Promised`, that
  operations do on paths what `Namespace` says, with the two exceptions named above,
  compares the lookups before and after a step. `Lookup` says what `search_d_hash` finds one name further on, and
  since no two paths lead to one inode, a step leaves, moves or ends
  exactly the lookups of the paths below the one it is given.
* `DirectoryProofs`, the map of a directory: `MapTypeOK`, `MapIsFunction` and
  `PutsDoNotDisturb`. `MapIInv` says of the chains that each node comes after
  exactly one entry and none after itself (`Chained`), that an entry is in the
  bucket of its key (`Sorted`), that a key has one entry (`OneEntry`), and that
  every key but those the modifier is busy with has its value, in an entry or
  in `tempList` (`OthersKept`), also halfway through `defaultRemove` and
  `resetHashMap`. `Exact` ties `size` to the keys and `Room` to the array: there is
  room for the entries that `resetHashMap` puts back, so it never calls itself. `MapAt`
  says what the modifier knows at each of its places, `ReaderAt` that the entry of
  the reader's key is ahead of it as long as only puts overlapped with the
  lookup. Assumed are an array within its bound, finite memory, and nodes that
  are not places of the array.

  What is defined by recursion here (a path that is resolved name by name, a chain that is
  walked, lists that are joined) is a recursive function, whose equation is
  proved first. Where an induction would follow, the proof takes the least
  index at which the claim fails (`Least`, `WFMin`, from the well-foundedness of
  < on the naturals): the induction theorems of the library cannot be instantiated.
* `BuddyProofs`: `TypeOK`, `MaxIndexIsExact`, `Partition` and `Coalesced`, and
  that an area is chosen exactly if it has a block for the request. Blocks lie at
  multiples of their sizes (`Laid`), which the code never says: only then does the
  remainder tell which neighbour is the buddy (`HalfFacts`, `BuddyFacts`).
  `Partition` replaces pieces of a range by others that tile the same range
  (`Retile`): what `dhmp_get_free_block` splits off, what `dhmp_recycle_free_block`
  merges. Of the table `buddy_size` the proofs use that it begins with 1 and doubles.
* `RequestsProofs`: `WorkIsLive`, that every answer and completion on the way is
  awaited by whoever posted it (`Outstanding`), and `BuffersAreExclusive`. Works are
  live only because of `Outstanding`: an answer
  that came twice would end a later call; buffers are exclusive because at most
  one transfer of the thread is on the way. `EntriesAreFound` and `NothingLeaks`
  rest on `Books`, which relates structs, table, messages and what the servers
  have given out, and holds until an answer was seen half written or a lookup found
  another server's entry (`Clean`). That the books agree before such a step, whatever
  the buckets are, is proved step by step: until then every lookup has found its own
  server's entry (`Straight`) and no answer is half written (`Remembered`).
  `NothingLeaks` also needs `Kept`: while no connection was lost, a block that is
  given out is known or its address is on the way.
  `OneMemory`, that requests refine `RemoteMemory`, needs two more parts.
  `Outcome` says when a request has taken effect: at which places of the work
  thread and of dhmp_send, before its message is taken (`Open`), after its answer
  is given (`Settled`). An address has a content while an entry of the server's
  present life is listed (`Current`), is `gone` while only older entries are, and
  `absent` otherwise (`ContentIs`); each step that changes the table, the memory or
  a life is then one effect of the abstract memory, every other step is none.
  `SendEntries` says that dhmp_send's entry is still in the table, which is true
  until a dhmp_send was wild. The theorems assume of the constants only what `Requests`
  itself does (`MarkAssumption` keeps `absent` and `gone` apart from contents).
* `ConnectionsProofs`: `ServerLists`, `OneRecovery`, `LoopRuns`, `ConnectedIsUsable`
  and `KindsAgree`, as the run checks them, for any number of servers, attempts and
  faults. The first two follow from `IInv`, which ties
  lists, counters and `watcher_trans` to what a server serves, or once listed and failed to
  accept (`Held`), and hold through all faults and races. For the next two
  `InOrder` says what a channel may hold in each phase of the transport's latest
  attempt (`Fits`), that no other attempt is under way (`Latest`), and that
  nobody has begun what `dhmp_client_init` has yet to connect (`ToConnect`); it is kept
  until a "retry" race, and false after one.
  `Usable` adds that the qp is the latest attempt's from its `rdma_connect` on.
  `KindsAgree` speaks of the time in which nothing failed and no "request" race
  happened. In it (`Smooth`) each
  transport has made one attempt, nobody has lost anything, and the order of the
  steps of `dhmp_client_init` (`LinkSteps`) has a server hear of its normal link
  before it is asked for the other one.

Only model-checked are the liveness properties, which are out of the prover's
reach: `SettlesClean`, `AccessEnds`, `Answered`, `RecoveryEnds`. Every invariant and
every refinement that a passing run checks is proved.

## What was found

Three runs end in a counterexample, see `findings` in `PROJECT.json`: a write
that misses the cache is lost (`src/dhmp_fs_io.c:447`), a recovered server serves
empty banks (`src/dhmp_fs_recovery.c:118`), and a reader's count wraps when a
writer extends the chunk (`src/dhmp_fs_io.c:349`).

Further observations, which shaped the models. The properties named here are
stated in the modules and are false; no run claims them, and each is refuted within
the bounds of its module's run when it takes the place of that run's properties
(`LookupIsRight` in `MC_HashMap` and so on, without the symmetry).

* `HashMap`: `LookupIsRight` is false. While a map is resized a lookup without a
  lock may read beyond the array (`listSize` changes first,
  `src/dhmp_fs_hashmap.c:298`), in the moved block, or find nothing; while the
  first entry of a bucket is removed it may pair a key with the other inode
  (`:184`). `PutsDoNotDisturb` is what is left. `defaultRemove` returns a key
  for a name that is not in a non-empty bucket.
* `DirTree`: `Renamed` is false. A rename into another directory stays in the
  old one (`src/dhmp_fs_dir_ops.c:514`), although the comment says what rename
  is for (`src/dhmp_fs.c:318`). After it the kernel and the file system disagree
  about what is where: `MknodRefuses` is false, the message about a father that is
  not there reads his name (`src/dhmp_fs_dir_ops.c:100`), rename does not test for
  him (`:506`), and `search_d_hash` goes on below a file. `OnlyEmptyRemoved` is
  false: rmdir removes a directory that is not empty (`:471`, against
  `src/dhmp_fs.c:316`), and with it the inodes of open files. A rename onto an
  existing name leaves the old inode in the list of sons, with its chunks.
  truncate does nothing.
* `DramCache`: a reader may copy from a slot that is relabelled but not yet
  refilled (`src/dhmp_fs_io.c:404`), which is why current reads are stated for
  one worker.
* `Replication`: a recovery that is given up leaves its helper RECOVERING
  (`src/dhmp_fs_recovery.c:174`); the early return leaves `recovery_in_use` set
  (`:66`); writers do not take the mutex that the recovery takes
  (`src/dhmp_fs_io.c:522`); a write that fails is not queued for the recovery
  (`:582`).
* `FsIndex`: a full disk (`src/dhmp_fs_index.c:258`) and an offset beyond the
  largest file (`:399`) end in a NULL pointer; the test of an unsigned difference
  at `src/dhmp_fs_io.c:344` never fails.
* `Requests`, half-written answers: the work thread spins on the length of an
  answer (`dhmp_client/src/dhmp_work.c:101`) and then uses the address and keys,
  which the event loop may still be copying
  (`dhmp_client/src/dhmp_transport.c:360`, and `:373`, where a refusal is stored
  length first). `ResultIsWhole` is false.
* `Requests`, `write_flag`: it is tested and set in two steps
  (`dhmp_client/src/dhmp_work.c:307`) by callers of `dhmp_send` and the work
  thread, so that two transfers of one entry may be under way
  (`OneWritePerAddress`), and callers of `dhmp_send` can keep the work thread
  waiting for as long as they go on. `dhmp_send` to an address that is unknown
  uses a NULL pointer.
* `Requests`, losses and buckets: after a connection is lost with a request under way, the
  work thread waits for good and with it every later caller. While any server is
  recovered, frees for all servers are not sent (`:189`), so that the others'
  memory leaks. Entries of a server's earlier life stay in the table; when the
  addresses of two servers' blocks share a bucket one server's entry is found for
  the other's address (`LookupFindsOwn` is false, `dhmp_client/src/dhmp_work.c:155`).
* `Connections`: an attempt that ends in an error ends the wait of
  `dhmp_client_init` (`ClientConnectsAll`), one that is refused makes it spin for
  ever. The callback of a recovery may run before the normal link is back, when
  the poll link took the recovery slot (`RecoveredIsReachable`), and the early
  return of fuse_recover then leaves the file system without recoveries.
  `dhmp_client_destroy` sets `stop` after the last event and joins a thread that
  waits for an event (`DestroyReturns`, `dhmp_client/src/dhmp_client.c:579`);
  `dhmp_server_destroy` never sets it. A `rdma_connect` that fails stops the loop
  of all connections (`dhmp_client/src/dhmp_transport.c:1294`). The recovery thread
  tries again after `sleep(1)` (`:51`), whether or not the last attempt is over:
  from then on an event of one attempt is taken for the other's, and `LoopRuns` and
  `ConnectedIsUsable` without their condition on `races` are false, as is `KindsAgree`
  without its own (`:1341`). An attempt of a recovery that ends with CONNECT_ERROR
  ends the recovery for good (`:1437`, `:1488`). A transport that
  `rdma_accept` fails for stays in `client_list` and in `cur_connections` (`:1386`).
* `Buddy`: `dhmp_free_one_area` and `dhmp_free_more_area` compare with the head
  of the wrong list (`dhmp_client/src/dhmp_transport.c:517`, `:550`), which is
  harmless as long as the area is found.

## Not modelled

Hot-data migration (not built) and the byte and access counters that only it
reads; the watcher, configuration, logging and hash functions; opening devices
and arming timers (wrappers of libibverbs and timerfd); the sizes of receive
buffers and the release of RDMA resources; verbs other than the connection
manager's that fail; `free_inode` and `free_indirect_class*`, which run when the
file system is unmounted; the older versions in `src/src/test` and the test
programs.

The map covers a little more than half of the program's own lines of C. Most of
the other implementation files of the repository are headers of third parties
(libibverbs, rdmacm, libxml, json-c, pthread) that were copied into
`dhmp_client/include`: they declare what the program calls and hold no behaviour
of it, so nothing in them is mapped.

## Plan

What is left: `Replication` over `Requests` and `Connections`, with the
recovery's own mallocs and frees as one more caller. Today they meet in
assumptions that each of them states.
