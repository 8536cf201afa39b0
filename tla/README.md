# Formal models of heguangyu5.github.io

The repository is a collection of programs that accompany articles on systems
programming: a copy of PHP 7.1.3's thread-safe resource manager, programs that
drive the Linux display through DRM/KMS, the expanded source of Apache's hooks
and two Apache modules, readers of MySQL's on-disk formats, and tools for
looking into a Linux kernel.  This directory holds TLA+ models of them, TLC
configurations that check the models on small instances, and TLAPS proofs that
hold for instances of every size.

**TSRM**, where threads share a table, **the two mode-setting programs**, whose
difficulty is in partial failure, **Apache's hooks and modules**, whose runners are
re-entered by what they call, **the programs of several processes** and **the
sequential readers and tools** are modelled, checked and proved about.  Every
safety property of the passing runs is a theorem; what is left to TLC is liveness
(see "Checked by TLC only").

    tlc -workers 2 -config MCTsrm_serve.cfg MCTsrm.tla
    tlapm TsrmProof.tla

## 1. Inventory

### Thread-safe resource manager (`php7.1.3/TSRM`)

*State.*  A hash table `tsrm_tls_table` of entries, one per thread, chained by
bucket; in each entry an array `storage` with one slot per resource id; the
table of resource types (constructor, destructor, `done`); `id_count`; one
mutex; per thread a pointer to its entry in thread local storage, and in each
dynamic module a static cache of that pointer.

*Operations.*  `tsrm_startup`, `tsrm_shutdown`, `ts_allocate_id`,
`ts_resource_ex` (for the calling thread or for another one), `ts_free_thread`,
`ts_free_worker_threads`, `ts_free_id`, `tsrm_new_interpreter_context`,
`tsrm_set_interpreter_context`, `tsrm_free_interpreter_context`, and the
`TSRMG_*` / `TSRMLS_CACHE_*` macros that read without a call.

*Interactions.*  All threads share the table and the types under the mutex.  A
lookup whose thread has an entry does not take it: it reads the entry, its
`count` and its `storage` pointer while another thread may be reallocating that
array.  Constructors and destructors are callbacks that run under the mutex and
may call back into the fast path.

*What is hard.*  Two threads of one bucket that miss together; building an entry,
which gives up the mutex before the caller uses the entry; ids that appear while
entries are built; failing allocations; stale thread local storage after a free.

*Correct means.*  One entry per thread, in its bucket; no entry leaked or freed
while reachable; every entry has every resource a client can ask for, and none
of a retired id; a read outside the mutex finds an existing array, an index
inside it and the right thread's resource; the mutex is released on each path.

### DRM mode setting (`fb-drm/modeset.c`, `modeset-double-buffered.c`)

*State.*  `modeset_list` of devices, each with a connector, a CRTC, one or two
buffers (dumb buffer, framebuffer, mapping), `front_buf` and `saved_crtc`.  In the
kernel: which of these objects exist, what every CRTC scans out, which CRTC
drives each connector.

*Operations.*  `modeset_prepare`, `modeset_setup_dev`, `modeset_find_crtc`,
`modeset_create_fb`, `modeset_destroy_fb`, the loop of `main` that saves and
sets each CRTC, `modeset_draw`, `modeset_cleanup`.

*Interactions.*  Each step is a call into the kernel; connectors compete for
encoders and CRTCs; setting a CRTC or removing a framebuffer changes what other
connectors show.

*What is hard.*  Nine calls may fail, and what has to be undone is different for
each; a flip that fails in the middle of an animation; the order in which
configurations are saved, changed, restored and their buffers destroyed.

*Correct means.*  No CRTC for two monitors; every linked device complete; nothing
leaked; never drawing into the buffer on the screen; the screens as they were.

### Apache hooks and modules (`httpd/hook.c`, `mod_helloworld`, `mod_choices`)

*State.*  Nine arrays of functions, `_hooks.link_*`, in the configuration pool;
the library's list of the arrays to sort and reset; the runs in progress, one
inside the other; per request what was read of its body and who answered.

*Operations.*  `ap_hook_*`, `ap_run_*`, sorting, restart; the configuration
directives; `helloworld_handler` with `check_postdata`, `choices_select`.

*Interactions.*  A function that is run may register functions for
any hook, its own included, and run other hooks.  The handlers are functions of the `handler` hook, asked in turn.

*What is hard.*  A runner keeps the address of its array and reads the length
again; three kinds of runner that differ in one condition; buckets that fail in
the middle of a body.

*Correct means.*  A run reads inside its array and returns what its kind
promises; a restart forgets every function; a handler that declines has left the
response alone; the length reported for a body is what was delivered.

### Programs of several processes (`httpd/test-*`, `my-linux/tools/my-simple-shell.c`)

A server that echoes lines with clients that come and go; a client that forks
three hundred children against a server with fewer processes; a shell and its
children, which share the position of standard input.  *Hard:* a close at any
moment, a write to a closed connection, a child that fails after the fork.
*Correct means:* each client gets its own lines and every client its turn; the
keep-alive test shows the waves it is there to show; each line is run once.

### Sequential readers and tools (`mysql`, `my-linux/tools`, `fb-drm/drm.c`)

Programs that walk through bytes somebody else wrote, where each step's length
comes from the step before: `read-MYI.c`, `read-frm.c`, `print_cpio.c`,
`print_elf64.c`, the free lists of `print_node_data.c`; `range2freearea.php`,
which computes such free lists; and `drm.c`, which asks the kernel twice for each
array.  *Hard:* every special case of a length; data that changes between two
reads.  *Correct means:* the reader is where the writer put what it reads, and
reads all of it; the free lists are those of a buddy allocator.

### The rest

Frame buffer drawing (`fb.c`, `mandelbrot.c`), the APR and semaphore
demonstrations, the printers of kernel structures, the huge page and exec tests
and the image builders are not modelled; section 5 says why.

`PROJECT.json` lists all of them with their status, and 40 hazards with the line
where each one bites and the properties that would catch it.

## 2. The models

### `Tsrm`: the resource manager

| Model | Code |
| --- | --- |
| `table`, `owner`, `count`, `slot` | `tsrm_tls_table`, `thread_id`, `count`, `storage` |
| `arr` | the identity of the `storage` array: a new number when `realloc` moves it |
| `used` | addresses `malloc` has handed out |
| `tls`, `cache` | `pthread_getspecific(tls_key)`, `_tsrm_ls_cache` |
| `idCount`, `done`, `lost` | `id_count`, the `done` flags, `resource_types_table == NULL` |
| `mutex`, `pc`, `loc` | `tsmm_mutex`, where each thread is, its locals |
| `home`, `ctx` | what the client remembers: the context to go back to, and those to free |

A call is `CallX` (what happens before the mutex), `Lock`, and the steps under
the mutex.  Those are cut only where somebody without the mutex can look:
between two slots of an entry under construction (`BuildSlot`), between two
entries that `ts_allocate_id` extends (`Enlarge`), at the unlock that
`allocate_new_resource` does before `ts_resource_ex` starts over (`Built`), and
between loading a `storage` pointer and indexing it (`Load`, `Deref`; for id 0 the
macro returns the address of the field, and neither happens).  Freeing
and unlinking happen under the mutex in one step (`FreeThread`, `FreeWorkers`,
`FreeId`).

A bucket's chain is a set; that the pointers of the code implement one is what
`TsrmChain` is for.  A resource is `live`, `null` or not there yet.
Constructors are taken not to wait for other threads; that they may read
earlier resources of their own entry is `ConstructorSeesEntry`.

The model makes assumptions about the client, each named at the action that has
it: startup is single-threaded; `tsrm_shutdown` is called when no call is in
progress; contexts are freed as the comment in the code asks; nobody registers another id after `ts_allocate_id` failed; an id is used once
`ts_allocate_id` has returned it (`Known`), although it is in `*rsrc_id` earlier,
where another thread could read it in a race of the client's own.  `Api` selects which calls a client
makes and `LateIds` whether ids are also registered later than startup, so that
a run can say which client a property holds for.

`Crash` and `FreeContextCrashes` are the dereferences of NULL after the types table
was lost or when `malloc` had no room for an entry: they end the behaviour, and
what memory a program corrupts after that is not followed.

### `ResourceMap`: what TSRM promises

A map from threads to sets of resources, with atomic operations `Attach`,
`Detach`, `NewId`, `Retire`.  `ImplementsMap` is the refinement mapping: an entry
counts from the unlock that ends its construction, and a new id from the return
of `ts_allocate_id`.

### `TsrmChain`, `EntryTable`: the chains of the table

`TsrmChain` has the pointers that `Tsrm` leaves out: `table` and `next` are
`tsrm_tls_table` and the `next` fields, `p` and `last` the locals
`thread_resources` and `last`, `bucket` is `hash_value`.  `next` and `owner` keep
what they held when an entry is freed, so a new entry starts with the pointers of
an old one.  One action is one turn of a loop of `ts_resource_ex`,
`ts_free_thread`, `ts_free_worker_threads` or `tsrm_shutdown`.  All of it happens
under the mutex (`LockInv` of `TsrmProof`), so there is one call at a time; what a
call does between its turns nobody else can see.

`Chain(b)` is what can be reached in bucket `b`: the least set that has the first
entry and with an entry the next one.  `tsrm_shutdown` frees entries without
unlinking them, so while it runs the chain is what is still before it (`ChainHead`).

`EntryTable` is what the chains promise: a set of entries, no two of one thread,
which each call changes at once.  `ImplementsTable` is the refinement.  What
`ts_free_worker_threads` and `tsrm_shutdown` will free counts as gone when they
start, so the mapping holds only if at their end nothing of it is left.

### `Modeset`: both mode-setting programs

`nbufs` chooses the program in the initial state.  `pc` is the label of the call
to be made next; one action is one call with the code around it, and has one
disjunct for success and one for failure (`Failing` is the set of calls that may
fail).  `dev` and `buf` are the arguments of `modeset_create_fb` /
`modeset_destroy_fb`, and `ret` is where the latter was called from.

The kernel (external) is modelled by three facts: `drmModeSetCrtc` with one
connector takes that connector from the CRTC it had, and takes the CRTC's other
connectors away (`SetCrtc`); removing a framebuffer turns off the CRTCs that
scan it out (`RemoveFbs`); what a dead process leaves is freed (`Exit`).  The
initial routing of connectors is any that the hardware allows, so the model
starts with mirrored, crossed and dark screens.  A device that the program has
freed is named by nothing but the kernel objects left of it.

Colours, sizes, strides, modes and ioctl payloads are left out.

### `Hook` and `Httpd`: Apache

`link` is `_hooks`, each array with its functions, its capacity and the pool it
is in; `registry` is what `apr_hook_sort_register` was told; `stack` is the C
stack: a run with the return values so far and the capacity of the block it holds
on to.  The nine expansions of the macros are three operators with a hook as
parameter, and one definition for each function.  Sorting puts the functions in
an order of the library's; the model keeps the one it has.  A function may
register for any hook, the one that runs it included (`MayRegister`).  A runner
keeps the block it found and reads the number of functions again (`After`), so a
block that is outgrown meanwhile leads it `Astray`: nothing is said of what it
calls then, and `ReadInBounds` says that this is the one way there.

`Httpd` extends it: registered functions are those of the two modules, and
`Return` carries what the handler does with the request.  `check_postdata` is
taken apart at each brigade, and a brigade is a sequence of data, metadata, end
of stream and buckets that cannot be read (`BodyAssumption`).

### `Echo`, `Keepalive`, `Shell`: processes

Processes interleave at system calls.  In `Echo` the kernel's queue takes one
connection more than the backlog, the server is killed by its second write to a
connection that the client closed or ends when `accept` fails (`AcceptFails`), and
lines fit in the buffer.  In `Keepalive`
the clock ticks only when nothing can be done without it.  In `Shell` standard
input is a terminal or a file: the position is shared by the processes, the bytes
read ahead are not, and `exit` in a child whose `execv` failed puts the shared
position back by what the child's copy of the buffer still holds.  Words of a
line are left out.

### `ReadMyi`, `ReadFrm`, `ReadCpio`, `ReadElf`: readers

Each has two halves: what the writer puts where, as functions of the file's
contents (external), and the reader, one action for each thing it reads, with
nothing but its own position.  Bytes are digits in base `Base` where their values
matter (the numbers of `read-MYI.c`, with the sign extension of `buf[4] << 24`);
elsewhere a thing is its length, and `Layout` says where a writer puts things of
given lengths.  `printBtreeNode`'s recursion is the stack `pages`.  `ReadElf`
starts `pt_note_count` with any of `StackValues`, as the program does not assign it.

`IsFile` says which files `read-MYI.c` is for.  Most of it is MyISAM's format: the
values of a column fit in it, a column in the buffer (`BUF_LEN`), and the pages of
a tree have keys of its index.  Two conditions are the program's: a node has at
most `MAX_SUBPAGES` children, as it keeps them in an array and does not count, and
the number of a child keeps clear of the bit that `buf[4] << 24` takes for a
sign (`Held`).  The number of records need not: `HeaderRead` says for which ones it
is read right, and `MCReaders` has files on both sides.  `IsForest` says that the
pages make trees: a page is one page's child at most, and that once, and a root is
nobody's.  The program takes that for granted (it would print a shared page twice,
and follow a circle for ever); `EveryPageOnce` rests on it, `MyiInSync` does not.
The pages of a tree are defined without the reader: those in every set that has the
root and, with a page, its children (`PagesOf`).

### `FreeArea`, `FreePages`, `NodeData`: free lists

`FreeArea` is `range2freearea.php`, one action for a range, a page or block added
and a turn of `mergeFreeArea`.  `FreePages` is what it promises: a set of free
pages that grows by one aligned block at a time.  `FreesOnce` is the refinement.
The powers of two are a parameter with the property that each is twice the one
before; ranges ascend, as those of `dma-ranges.php` and `dma32-ranges.php` do.

`NodeData` is `print_node_data.c`: the loops over zones, orders and types, and on
each free list the walk from page to page.  Both dumps are taken at one stop of
the machine, as the article does it (`html/14-start-kernel-mm-init.html:217-219`),
so they agree; the second one is optional and covers only the first `pagesSize`
bytes (`MappedPfns`), beyond which the program is killed.  The links of the pages
in use are any (`PageDump`), since they are on lists of slabs, of a CPU or of the
LRU.  The program knows pages by address: `IsPage` is its test with `PAGE_MASK`,
which addresses of the kernel image pass as well (`KernelImage`), and which the
head of a list does not pass, as it is in the direct mapping (`NodeAssumption`).

### `DrmQuery`: `drm.c`

One action for each ioctl.  None of them is checked, so each may fail, the two
`GETRESOURCES`, the two `GETCONNECTOR` and the master ioctls included, and leaves
what it was given as it was.  `connectors` and `others` are what the kernel has;
monitors come and go between any two steps (`MaxPlugs` times), so that the counts
of one call meet the lists of the next one.  The arrays have `RES_BUF` and
`CONN_BUF` places; a card that has more runs the program past their end, where the
model stops (`overrun`).  A line of a buffer may be longer than its picture
(`Pads`), and what is drawn is compared with what was mapped.

### Mutated forms

The operators whose name extends that of an action (`FreeThreadKeepsTls`,
`ShowLast`, ...) are not part of the specifications: each is the action with a
plausible mistake, and PROJECT.json says which property notices it.

### Runs

| Run | Instance | States | Shows |
| --- | --- | --- | --- |
| `MCTsrm_serve` | 3 threads, two in one bucket, 3 entries, 1 id, the types table may fail to grow | 41,823 | the usual server, ids first, then requests: nobody gets two entries, constructors and reads find what they ask for |
| `MCTsrm_late` | 2 threads in one bucket, 3 entries, 2 ids registered and contexts made at any time, lookups for other threads, freeing of workers, failing table growth and `malloc` | 459,736 | no entry is lost or freed while it is linked, under every operation that adds one or takes one out |
| `MCTsrm_context` | 2 threads, 4 entries, contexts, switches between them and cached TLS pointers | 69,821 | no context leaks, reads stay safe and find the right thread's resource across switches of contexts |
| `MCTsrm_live` | 2 threads, 2 ids registered and retired at any time, failing table growth; no symmetry | 114,507 | every entry has what is asked for, the mutex is released, reads end, `ResourceMap` is implemented |
| `MCTsrm_workers` | 3 threads, 2 buckets | violated | finding 1 |
| `MCTsrm_realloc` | 2 threads, 2 ids | violated | finding 2 |
| `MCModeset` | 3 connectors, 2 encoders, 2 CRTCs, 2 rounds, any call fails | 60,292 | all safety properties of both programs |
| `MCModeset_saved` | 2 connectors, 2 CRTCs, nothing fails | violated | finding 3 |
| `MCHttpd` | all nine hooks, 3 functions of 2 hooks per configuration, runs 2 deep, 1 restart, 12 requests, bodies of up to 2 bytes in 6 kinds of brigade | 647,488 | the registry stays whole, runners keep their contract, handlers theirs |
| `MCReaders` | seven programs, each over all its small inputs | 1,147,042 | readers stay in step with the writer, the free lists are right, `drm.c` draws only on what it mapped |
| `MCReaders_wide` | tables of 1 and 60 columns, records of up to 65,500 bytes | violated | finding 4 |
| `MCProcesses` | 3 echo clients and a queue of 2; 5 keep-alive clients for 2 processes; scripts of up to 7 lines; one chain of up to 3 entries, 3 threads, 3 addresses, and a second bucket | 285,677 | every client is served with its own lines, every line is run once, the waves of the keep-alive test; the chains of TSRM implement the set of entries, and no walk is endless |

`MCReaders` and `MCProcesses` hold programs that share nothing, `MCProcesses` among
them `TsrmChain`, whose one call at a time needs no other part of TSRM.  Their
initial states choose one in `program`, and the others stay where they start;
deadlock is not checked there because programs end.

No run repeats what `TypeCorrect` of `TsrmProof` and of `ModesetProof` say for
every value of the constants, that each variable keeps its type.

*Why the bounds are enough.*  For TSRM, two threads and one mutex give every race of the
slow path; the third thread is there for the second bucket and for a bystander.
Two ids are the fewest for which an entry can lack one it should have and for
which a slot can be built after another.  Three entries let two threads have one
each while a third is being built, a fourth leaves room for a freed address that
somebody still points to.  `MaxId`, the number of entries and `Rounds` are the
only counters, and the guards `RoomForEntry` and `RoomForId` keep a lookup or a
`ts_allocate_id` from starting when it could not finish; a new context may still
take the last entry (`Crash`).  Addresses are interchangeable, hence the
symmetry; the liveness run does without.  A chain of three has a first, a middle
and a last entry, which are the cases of the free functions, and with as many
addresses as threads most of what `malloc` returns was in the chain before, with
a `next` that leads back into it.  In the display instance the third
connector can use only the encoder and the CRTC the first two prefer, so a
search for a CRTC fails, and three devices cannot all be linked; two rounds
give every buffer a turn in front and in the back.  The proofs remove the bounds
for the properties they cover.

Apache: two functions in one array are needed for an order and for a capacity that
doubles, and a third for another hook, or to outgrow the block that two fill while it
is being run; depth two is a run inside a run; one restart
shows what is left of the configuration before.  Processes: two connections wait
while a third is served; five clients make two full waves and a part of a third;
blocks of three lines end inside a script and at its end.  Readers: indexes of one
to three columns, each kind of column the reader tells apart, NULLs, empty and full
leaves and a tree of three levels, with as many children as there is room for; tables up to the limits and one beyond; names
and files of every length modulo four; notes plain and padded; ranges within
eighteen pages with blocks of four in the middle and eight at most, which is every
alignment of both ends; a node of twelve pages, two of them beyond the dump, with
lists of two orders and two types that are empty, of one block or of three; for
`drm.c` up to four connectors where three have room, with up to three modes where
two have, so that every array is full in one instance and overrun in another.

*Fairness.*  In TSRM only `Step(t)` is weakly fair: a thread that is in a call and does
not wait for the mutex goes on, which is what the scheduler gives.  `Lock` is not
fair, since a POSIX mutex promises no order, and no client has to make a call; so
"whoever calls returns" is not claimed, "whoever holds the mutex releases it" and
"whoever reads without the mutex finishes" are.  In `TsrmChain` the call that holds
the mutex goes on (`Turn`).  In `Echo` the server's step is
weakly fair, as for any process that can run, and each client closes its
connection some time, which the server needs: it serves one at a time and has no
timeout.  `accept` may fail and need not (`AcceptFails` is not fair).

### Findings

1. `ts_free_worker_threads` walks one bucket, that of the calling thread, while
   its comment (`TSRM.c:414`, `TSRM.h:57`) says that it frees the resources of all
   other threads.
2. `ts_allocate_id` reallocates the arrays of other threads under the mutex, but
   `ts_resource_ex` reads through the array pointer outside of it, for every id
   but 0.  The comment at `TSRM.c:268` is aware of changes from outside, the code
   below it does not guard against them.
3. The mode-setting programs save and change one CRTC after the other.  With
   crossed connectors the first change turns off a CRTC that is saved only after
   that, so "the configuration of the crtc before we changed it" (`modeset.c:143`)
   is not what is restored.
4. `read-frm.c` takes the position of the forminfo from the lower two bytes of
   `fileinfo[10]` and subtracts 0x1000, while its comment (`read-frm.c:209-213`)
   says that four bytes are stored there and that the length to subtract is
   `forminfo[2]`.  A record near 64 KB or some sixty columns are enough to read
   the columns from the wrong place.

Some hazards are real and stay without a property, each with a note in
`PROJECT.json`: among them the array of `read-MYI.c` that a node with more than
100 children overruns.  Of others the property says only a part: of the runner
that outlives its block, when this happens and that it does not otherwise; of the
arrays of `drm.c`, that only a larger card overruns them; and nothing of the notes
that `print_elf64.c` skips because `pt_note_count` is not reset.  In programs or parts
that are not modelled, the NULL behind the twenty-first word of the shell's line
is one beyond `args` (`my-simple-shell.c:48`), and
`test-keepalive-timeout-max.php:11` reads for ever if the server closes the
connection before the end of an answer.

## 3. Plan

Done: the models of section 2, and the proofs of section 4.  Left, in this order:

1. The splitting of a line by the shell.
2. The other printers of kernel lists.

## 4. Proofs

### `TsrmProof`

For any threads, buckets, hash function, entries, ids and set of calls
(`ThreadAssumption`, `EntryAssumption`, `BoundAssumption`).  The invariant is

    IInv == TypeOK /\ LocInv /\ LockInv /\ TableInv /\ ReadyInv

- `LocInv`: what the locals of a call are at each label; without it the type of
  a new value of `loc` and of an entry field does not follow.
- `LockInv`: a thread is at a label of a critical section iff it holds the mutex.
  This is mutual exclusion (`MutualExclusion`), and what lets a step of one thread
  leave the critical part of the others alone.
- `TableInv`: `UniqueEntry` and `NoOrphan`, strengthened by what makes them
  inductive: interpreter contexts, entries being built and linked entries are
  disjoint, and no two threads have the same one.
- `ReadyInv`: each linked entry has slots for the known ids at least and `idCount`
  at most, each slot is right unless the entry is still under construction, and
  freed entries have empty slots.

From it follow `TypeCorrect`, `MutualExclusion`, `EntriesUnique`,
`NothingOrphaned` and `ResourcesReady`.  They cover clients that register ids
late, look up other threads' resources and lose the types table, that is, more
than the runs do one by one.

`MapImplemented` is the refinement of `ResourceMap`, under the same assumptions
and with the same invariant: five kinds of step change the map, and for each a
lemma (`MapBuilt`, ..., `MapShutdown`) says which operation of the map it
is; `QuietStay` is that all the other steps leave it alone.

The rest is about what the code of a client can rely on.

- `ConstructorsServed` and `ContextsOnRequest` hold for every client:
  `ConstructorSeesEntry` is inductive given `IInv`, and `ContextsInv` adds that the
  thread's own entry is not among its contexts, also while one is being made.
- `ReadsSafe` and `ReadsOwn` hold for clients that are `Disciplined`: all ids are
  registered at startup, nobody calls `ts_resource_ex` for another thread or frees
  the other threads' entries, and a thread that frees its entry has no cached
  pointer to it.  `MCTsrm_late`'s clients keep none of this and are not checked for
  reads; `MCTsrm_realloc` shows what late ids alone do.  The clients of
  `MCTsrm_serve` and of `MCTsrm_context` are disciplined, so both properties are
  also seen to hold there.  `ClientInv` says which calls are possible in which
  phase (`CallInv`), that a context belongs to its thread and has all its slots
  (`ContextInv`), and where a thread's pointers lead (`PointerInv`); from it no
  other thread's step takes away what a read has found.

### `TsrmChainProof`

For any threads, buckets, hash function and addresses (`ChainAssumption`).  A
chain is a least closed set, and is shown to be what it is by comparing it with
closed sets: `FromAppended`, `FromUnlinkedFirst` and `FromUnlinked` say what can be
reached after a pointer has changed.  Neither the order nor the length of a chain
occurs, so there is no induction.  The invariant is

    IInv == /\ TypeOK /\ ChainsExact /\ Apart /\ UniqueEntry
            /\ CallInv /\ LastLeadsHere /\ PassedInv

- `ChainsExact` alone is not inductive: with two pointers to one entry, changing
  one leaves the freed entry in the chain.  `Apart` says that no two allocated
  entries or buckets lead to one entry.
- `LastLeadsHere` says that `last`, or the table, leads to the entry at hand.
- `PassedInv` says of what is in the chain but no longer before the loop
  (`Chain(bucket) \ From(p)`) that it belongs to others or, for
  `ts_free_worker_threads`, to the caller.  It is why a search that reaches the end
  may allocate, and why nothing is left at the end of a free function.

`ChainsAreExact`, `LastIsBefore` and `TableImplemented` follow; the last one is the
refinement of `EntryTable`, one case for each action.  That the walks end
(`CallEnds`) is liveness and left to TLC.

### `ModesetProof`

For any connectors, encoders, CRTCs, routings, rounds and failing calls
(`ModesetAssumption`: no connector is listed twice, and buffers differ from the
constants that stand for no picture).  The invariant conjoins

- `Loops`, where the loops over the list are; `Prepare`, which connectors have
  been dealt with, and that the device being set up is none of the listed ones;
- `Pieces`, how much of a buffer exists at each label of its creation and
  destruction, from which it follows that nothing is left when the device is
  dropped;
- `Shown`, `Complete`, `Owned`: `FrontIsShown`, `BuffersComplete` and `NoLeak`,
  stated by position in the list, which the provers handle better than sets;
- `DistinctCrtcs`, and `Pictures`: a saved configuration never shows one of the
  program's own buffers.  This needs `DistinctCrtcs`: a device that is yet to be
  saved has a CRTC that no device before it has written to;
- `Restored`: a restored CRTC drives the connector it was restored for and shows
  what was saved, and no listed device has that CRTC.  Both halves are needed for
  the restoring of the other devices and the removal of their framebuffers to
  leave it alone.

`XEffect` lemmas say what an action does to the elements of the list, and
`XStep` lemmas that it preserves the invariant.  The theorems are `TypeCorrect`,
`CrtcsDistinct`, `FrontShown`, `DrawsBack`, `LinkedComplete`, `NothingLeaks` and
`ResetStays`: besides the types, every property of `MCModeset`.

### `HookProof`

For any functions, errors, requests, brigades, depth of runs and numbers of
registrations and restarts (`HookAssumption`; `ArrayAssumption` and
`ValuesAssumption` only say that a NULL link is no array and that "no value yet"
is no value).  `ServerMoves` shows that every step of `Httpd` changes the hooks by
adding a function, sorting, restarting, starting a run, returning a value or
leaving a run, or not at all; the rest is about these moves.  The invariant is

    IInv == TypeInv /\ LinkInv /\ RunInv /\ \A i \in DOMAIN stack : Contract(stack[i])

- `LinkInv`: the arrays there are, are those in the registry, each there once, in
  the present pool, and not longer than their blocks.  From this a restart leaves
  no link behind, and a first registration adds no second entry.
- `RunInv`: a run that is inside a function has a function left to call, in the
  block it holds on to, and the values so far did not stop it.  One that has
  gone astray has functions left as well, and has called as many as its block had
  room for (`Unfinished`).  A registration for the hook being run replaces the
  block of the hook, not the one the run holds on to, and adds to what is left.
- `Contract`: `RunnerContract` of each run.

Two more invariants are about the modules.

- `ServeInv`: only a function that has something to do for the request touches the
  response, and such a function does not decline.  Nothing is run inside a run of
  the handler hook, so there is one request at a time, and the requests that the
  two handlers want are different ones.
- `BodyInv`: as long as nothing was read in vain, `count` is what was delivered
  before the bucket that is read next.  Buckets are counted with sets of places in
  a brigade (`Of`), whose cardinality needs no recursion; metadata, which has no
  length, is passed over on both sides.

The theorems are `RegistryWhole`, `RunnersInBounds`, `RunnersKeepContract`,
`DecliningIsClean` and `LengthReported`: every property of `MCHttpd`.  The first
three hold for any registrations, those for a hook that is being run included;
`RunnersInBounds` then says that a runner leaves its block only when it has called
all that was in it and there are more by now.  `ValuesAssumption` also says that an HTTP status is not
`DECLINED`.

### `ProcessesProof`

- `EchoesOwnLines`, for any clients, texts whose lines fit in the buffer
  (`EchoAssumption`), backlog and moments of closing.  A connection is in the
  queue once and not the one that is served (`QueueInv`); what is on the way to
  the server is a piece of the client's text, what came back is its beginning and
  ends with a line (`BytesOf`); the buffer is the piece in between (`BufferOf`)
  and is never full, as it holds no newline (`LineInv`).
- `LinesOnce`, for any script, block and kind of standard input
  (`ShellAssumption`).  `ShellInputInv` relates the shared position to what has
  been read ahead, and holds even after a failed `execv` has put the position
  back; `OrderInv`, that lines are taken in order and each once, holds until then.
- `WavesSeen`, for any numbers of clients and server processes and any timeout
  (`KeepAssumption`).  The invariant is that the clients accepted before the n-th
  wave begins are as many as the server has processes for n waves, or all
  (`WaveInv`), that a client is accepted only when a wave begins (`ServedInv`), and
  that between two beginnings nobody has anything to do but wait, with the server
  full if a client is still in the queue.

### `DrmQueryProof`

`DrawsMapped`, for any cards, modes, lengths of the arrays, failing ioctls and
numbers of plugs (`DrmAssumption`).  `ResInv` says that the counts are never more
than the card has, so that a card within `RES_BUF` keeps the loop inside the arrays
whichever of the two `GETRESOURCES` failed; `SlotInv`, of the slots before the one
at hand, that what is on the screen is mapped, with at least the pixels that would
be drawn, and that `first_valid_connector` is the first mapped one, and of those
behind it that nothing was done to them.

### `MyiProof`

`KeysInSync`, for any index file (`MyiAssumption`: any even base, columns, keys,
trees, and pages that are not there): after every key on every page the reader,
who knows only the lengths it has read, is where the writer has the end of it.

The induction theorems of the library take an operator, which no prover here can
instantiate, so induction is done with sets: `LeastNumber` takes the least member
of a set of numbers, from the well-foundedness of `<`; `Induction` is that a set
with zero and the successors of its members has all numbers.  `Recursion` shows
by it that for every sequence of functions there is one that applies them in
turn, and `RecursionType` what its values are; every recursive function of the
models of the readers is one of these.  From there the proof goes outwards:

- `JoinsHold`: in what is joined, each part is where the lengths before it say;
- `BytesValue`, `ReadBack`, `LowAndHigh`, `SignBit`: the bytes of a number stand
  for it, and the conversions of `read-MYI.c` give it back if the sign bit is not
  set (`RecordsRead`, `ChildRead`);
- `SegRead`, `SegEndsAre`, `KeyRead`: a column, each column of a key, and with them
  the key, end where the writer's bytes of them end;
- `PrefixNext`: the bytes up to the next key are those up to this one, and it.

The invariant is

    MyiInv == MyiTypes /\ HeaderRead /\ MyiFrames

`MyiFrames` says of each activation of `printBtreeNode` that its page has keys of
the index at hand, that its offset is the length of the keys read and of their
children, and that the children it has are those of the page up to there
(`ReadSoFar`); of those that wait for another one, that they have read their whole
page; and of the innermost, that the file is where it takes it to be while it
reads.  The position is shared by all activations, so nothing can be said of it
for the others, and nothing has to be: they read no more, and `lseek` before each
child puts it right.

`PagesOnce` adds `ForestAssumption`.  What has to be known of a recursion that is
in the middle of a tree is, without any recursion,

    SeenInv == /\ SeenTypes /\ SeenIndexes /\ SeenOnce /\ ParentsFirst
               /\ StackSeen /\ StackKids /\ OffStack /\ Finished /\ AtEnd

`StackKids` says of every activation that of its page's children those before its
`i` were entered and the others were not; `OffStack`, that a page that was left has
no child that was not.  `EveryPageOnce` alone is not inductive: nothing in it keeps
`Descend` from a page that was printed before.  With `StackKids` the child whose
turn it is was not entered; its own children were not either (`KidsUnseen`: with a
child, the only page it is a child of would have been, by `ParentsFirst`), which is
`StackKids` for the new activation (`EnterWalk`).  When the activation on a root
returns (`ReturnWalk`), the pages that were entered for the index have all their
children, so they include every page of the tree; that they are no more than these
is induction along `ParentsFirst`, by the first one that would not be (`TreeSeen`).

### `ReadersProof`

A reader is in step when its position is where the writer put the next part.
Where that is, `Layout` says by recursion on the number of parts; `EndsValue`
proves of it what is needed, with the lemmas of `MyiProof`.

- `ArchiveListed`, for any archive (`CpioAssumption`).  All that cpio writes is a
  multiple of four long, so rounding up the position is rounding up the length.
- `SectionsFound`, for any table (`FrmAssumption`) that is `Narrow`: the forminfo
  begins below 64 KB and is 4096 bytes long, which is what `read-frm.c` takes for
  granted.  `MCReaders_wide` shows that the theorem does not hold without, and the
  tables of `MCReaders` are narrow.  `FrmLoops` is the position inside the loops
  over keys, names and columns.
- `ElfInside`, for any file and any value of `pt_note_count` (`ElfAssumption`).
  `NotesInv` is the loop over notes: in a plain segment the position is where some
  note starts or the segment ends.
- `FreeListsPrinted`, for any lists on which no page is twice and any extent of the
  dump (`NodeAssumption`), whatever the pages in use are linked to.  On a walk, what
  has been printed of the list are its first blocks, and the next address is the
  link of the last of them (`WalkInv`); the lists passed were printed to their ends
  (`PassedInv`).  The walk stays off the pages in use because every link it follows
  is that of a free block.

The lists of `FreeArea`, for any orders and ascending ranges
(`FreeAreaAssumption`), have a section of their own.  What is added, and
what goes up after a merge, lies above all other blocks (`Topmost`), which is why
it is enough that `mergeFreeArea` compares the last two entries of a list.  The
invariant is that the blocks are aligned and apart and each list ascends
(`Whole`), that no two are buddies but for the last two of the list that is being
merged (`BuddiesOnlyIn`), and that a page is in a block iff it lies in the ranges
below the place reached (`FreedInv`, with the parts of a range from `Cut`).
`ListsAreBuddies` is the invariant `BuddyLists`.  `ListsFreeOnce` is the
refinement: adding is `FreeBlock`, splitting and merging are stutters, as a merged
block has the pages of its two halves.

### Checked by TLC only

- `MutexReleased`, `ReadEnds`, `CallEnds` and `EveryClientServed`: liveness is out of the
  prover's reach.
- The findings: a violated property needs a behaviour, not a proof.

## 5. Not modelled

In the modelled components: the contents of resources; `tsrm_error`, `tsrm_sigmask` and the thread begin and end handlers,
which nothing in the repository installs; pixels, modes and ioctl layouts.
Of the modules of Apache, `parse_form_from_string` and `parse_form_from_POST`,
which nothing calls; of the readers, what is printed of a value; of the shell,
how a line is split into words.

Not modelled at all: the APR demonstrations, the frame buffer programs, the
printers of kernel structures other than the free lists, `crc32.c`, the huge page
and exec tests and the build scripts, which call one function after another or
compute one value and print it; the semaphore demonstration, which makes one
`semop` per process and leaves everything else to the kernel;
`test-keepalive-timeout-max.php`, one client whose only decision is the server's;
and, in TSRM, the thread begin and end handlers, which nothing installs.
