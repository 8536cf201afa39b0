-------------------------------- MODULE Tsrm --------------------------------
(***************************************************************************)
(* The thread-safe resource manager of php7.1.3/TSRM.                      *)
(*                                                                         *)
(* A hash table of per-thread entries (tsrm_tls_table) is protected by one *)
(* mutex (tsmm_mutex).  An entry owns an array with one slot per resource  *)
(* id.  A thread also keeps a pointer to "its" entry in thread local       *)
(* storage and reads resources through it without taking the mutex; a      *)
(* thread that has no entry yet takes the mutex, searches its bucket and   *)
(* builds the entry under it.                                              *)
(*                                                                         *)
(* What happens under the mutex is split exactly where a thread that does  *)
(* not hold it can look: at each slot of an entry under construction, at   *)
(* each reallocation of another thread's array, and at the unlocks.  The   *)
(* chain of a bucket is a set; TsrmChain shows that its pointers make one. *)
(***************************************************************************)
EXTENDS Integers, FiniteSets

CONSTANTS
    Thread,       \* the threads of the process
    Main,         \* the thread that calls tsrm_startup and tsrm_shutdown
    Bucket, Hash, \* the hash table's buckets, and THREAD_HASH_OF
    Entry,        \* addresses malloc may return for an entry (bound: there are few)
    MaxId,        \* bound on the number of ids ever allocated
    ExpectedIds,  \* expected_resources: ids for which the types table has room
    Api,          \* the calls this client program makes
    LateIds,      \* TRUE: ts_allocate_id is also called once other threads run
                  \* or interpreter contexts exist
    AllocFails,   \* TRUE: growing the types table may fail
    NoThread, Null

Id == 1..MaxId

ASSUME ThreadAssumption ==
    /\ Main \in Thread
    /\ NoThread \notin Thread
    /\ Hash \in [Thread -> Bucket]
ASSUME EntryAssumption == Null \notin Entry
ASSUME BoundAssumption ==
    /\ MaxId \in Nat
    /\ ExpectedIds \in Nat
    /\ LateIds \in BOOLEAN
    /\ AllocFails \in BOOLEAN

VARIABLES
    phase,   \* "startup": only Main runs; "serve"; "down"; "crashed"
    mutex,   \* holder of tsmm_mutex, or NoThread
    pc,      \* where each thread is
    loc,     \* the local variables of the call each thread is in
    tls,     \* pthread_getspecific(tls_key) of each thread
    cache,   \* _tsrm_ls_cache of each thread
    home,    \* the context a thread will switch back to, while in another
    ctx,     \* interpreter contexts each thread has created and not freed
    table,   \* tsrm_tls_table: the entries linked into each bucket
    used,    \* the entries that are allocated and not freed
    owner,   \* thread_id field of each entry
    count,   \* count field of each entry
    arr,     \* which storage array the entry has; changes when realloc moves it
    slot,    \* contents of the storage array
    idCount, \* id_count
    done,    \* ids whose resource type is marked done
    lost     \* TRUE: resource_types_table is NULL after a failed realloc

heap   == <<used, owner, count, arr, slot>>
types  == <<idCount, done, lost>>
locals == <<tls, cache, home, ctx>>
vars   == <<phase, mutex, pc, loc, tls, cache, home, ctx, table,
            used, owner, count, arr, slot, idCount, done, lost>>

Label == {"idle", "load", "deref", "lock", "find", "build", "restore",
          "register", "enlarge", "free_thread", "free_workers", "free_id",
          "new_ctx"}

\* The labels at which a thread is between tsrm_mutex_lock and _unlock.
Critical == {"find", "build", "register", "enlarge", "free_thread",
             "free_workers", "free_id", "new_ctx"}

\* The labels a thread may enter right after tsrm_mutex_lock.
Entered == Critical \ {"build", "enlarge"}

Pointer == Entry \cup {Null}

Local == [op : Entered, id : 0..MaxId, who : Thread, e : Pointer,
          ver : Nat, prev : Pointer]

\* What a slot of the storage array holds: "none" past the end of the array or
\* not yet stored, "live" a constructed resource, "null" the NULL pointer.
SlotState == {"none", "live", "null"}
NoSlots == [i \in Id |-> "none"]

TypeOK ==
    /\ phase \in {"startup", "serve", "down", "crashed"}
    /\ mutex \in Thread \cup {NoThread}
    /\ pc \in [Thread -> Label]
    /\ loc \in [Thread -> Local]
    /\ tls \in [Thread -> Pointer]
    /\ cache \in [Thread -> Pointer]
    /\ home \in [Thread -> Pointer]
    /\ ctx \in [Thread -> SUBSET Entry]
    /\ table \in [Bucket -> SUBSET Entry]
    /\ used \in SUBSET Entry
    /\ owner \in [Entry -> Thread]
    /\ count \in [Entry -> 0..MaxId]
    /\ arr \in [Entry -> Nat]
    /\ slot \in [Entry -> [Id -> SlotState]]
    /\ idCount \in 0..MaxId
    /\ done \in SUBSET Id
    /\ lost \in BOOLEAN

Idle == [op |-> "find", id |-> 0, who |-> Main, e |-> Null, ver |-> 0,
         prev |-> Null]

\* tsrm_startup: an empty table, no ids, nobody has an entry.
Init ==
    /\ phase = "startup"
    /\ mutex = NoThread
    /\ pc = [t \in Thread |-> "idle"]
    /\ loc = [t \in Thread |-> Idle]
    /\ tls = [t \in Thread |-> Null]
    /\ cache = [t \in Thread |-> Null]
    /\ home = [t \in Thread |-> Null]
    /\ ctx = [t \in Thread |-> {}]
    /\ table = [b \in Bucket |-> {}]
    /\ used = {}
    /\ owner = [e \in Entry |-> Main]
    /\ count = [e \in Entry |-> 0]
    /\ arr = [e \in Entry |-> 0]
    /\ slot = [e \in Entry |-> NoSlots]
    /\ idCount = 0
    /\ done = {}
    /\ lost = FALSE

-----------------------------------------------------------------------------
Linked == UNION {table[b] : b \in Bucket}

Entries(t) == {e \in table[Hash[t]] : owner[e] = t}

\* Ids a client can know.  Client bound: it uses an id when ts_allocate_id has
\* returned it, though the id is in *rsrc_id before the entries have room for it.
Known == IF lost \/ \E t \in Thread : pc[t] = "enlarge"
         THEN idCount - 1 ELSE idCount
Published == 1..Known

Running == phase \in {"startup", "serve"}

\* Thread t may start call c: during startup only Main runs.
MayCall(t, c) ==
    /\ c \in Api
    /\ pc[t] = "idle"
    /\ phase = "serve" \/ (phase = "startup" /\ t = Main)

\* The addresses malloc may return: those of no entry in use.  One that some
\* pointer still refers to after a free is not returned, so that a read through
\* a dangling pointer stays visible as such.
Available ==
    {e \in Entry \ used :
        \A t \in Thread : e \notin {tls[t], cache[t], home[t], loc[t].e}}

\* Bound: every call in progress could still allocate one entry.
RoomForEntry ==
    Cardinality(Available) > Cardinality({t \in Thread : pc[t] # "idle"})

\* Thread t leaves its call.
Return(t) ==
    /\ pc' = [pc EXCEPT ![t] = "idle"]
    /\ loc' = [loc EXCEPT ![t] = Idle]

\* Thread t leaves its call and unlocks.
UnlockReturn(t) == mutex' = NoThread /\ Return(t)

\* Thread t asks for tsmm_mutex, to go on at label op.
CallLocked(t, op, id, who) ==
    /\ pc' = [pc EXCEPT ![t] = "lock"]
    /\ loc' = [loc EXCEPT ![t] = [Idle EXCEPT !.op = op, !.id = id, !.who = who]]
    /\ UNCHANGED <<phase, mutex, locals, table, heap, types>>

Lock(t) ==
    /\ Running
    /\ pc[t] = "lock"
    /\ mutex = NoThread
    /\ mutex' = t
    /\ pc' = [pc EXCEPT ![t] = loc[t].op]
    /\ UNCHANGED <<phase, loc, locals, table, heap, types>>

-----------------------------------------------------------------------------
(* ts_resource_ex and the TSRMG macros.                                    *)

\* A read of slot id through entry e, without the mutex.
CallRead(t, id, e) ==
    /\ pc' = [pc EXCEPT ![t] = "load"]
    /\ loc' = [loc EXCEPT ![t] = [Idle EXCEPT !.id = id, !.who = t, !.e = e]]
    /\ UNCHANGED <<phase, mutex, locals, table, heap, types>>

\* ts_resource_ex(id, NULL): through thread local storage if that is set.
FastGet(t, id) ==
    /\ MayCall(t, "get")
    /\ id \in Published \cup {0}
    /\ tls[t] # Null
    /\ CallRead(t, id, tls[t])

SlowGet(t, id) ==
    /\ MayCall(t, "get") /\ RoomForEntry
    /\ id \in Published \cup {0}
    /\ tls[t] = Null
    /\ CallLocked(t, "find", id, t)

\* ts_resource_ex(id, &u)
GetOther(t, id, u) ==
    /\ MayCall(t, "get_other") /\ RoomForEntry
    /\ id \in Published \cup {0}
    /\ CallLocked(t, "find", id, u)

\* TSRMLS_CACHE_UPDATE() and TSRMG_STATIC(id, ...).  Client bound: the cache is
\* filled by a thread that is in its own context.
CacheUpdate(t) ==
    /\ MayCall(t, "static")
    /\ home[t] = Null
    /\ cache[t] = Null
    /\ cache' = [cache EXCEPT ![t] = tls[t]]
    /\ UNCHANGED <<phase, mutex, pc, loc, tls, home, ctx, table, heap, types>>

StaticGet(t, id) ==
    /\ MayCall(t, "static")
    /\ id \in Published
    /\ cache[t] # Null
    /\ CallRead(t, id, cache[t])

\* Mutant: the search takes the first entry of the bucket, whoever's it is.
FindInBucket(t) ==
    /\ pc[t] = "find"
    /\ \E e \in table[Hash[loc[t].who]] : loc' = [loc EXCEPT ![t].e = e]
    /\ pc' = [pc EXCEPT ![t] = "load"]
    /\ mutex' = NoThread
    /\ UNCHANGED <<phase, locals, table, heap, types>>

\* The bucket holds the entry: unlock, and read the entry after the unlock.
Find(t) ==
    /\ pc[t] = "find"
    /\ \E e \in Entries(loc[t].who) : loc' = [loc EXCEPT ![t].e = e]
    /\ pc' = [pc EXCEPT ![t] = "load"]
    /\ mutex' = NoThread
    /\ UNCHANGED <<phase, locals, table, heap, types>>

\* Mutant: the constructors run before TLS is set.
AllocateTlsLate(t, e, who) ==
    /\ e \in Available
    /\ used' = used \cup {e}
    /\ owner' = [owner EXCEPT ![e] = who]
    /\ count' = [count EXCEPT ![e] = idCount]
    /\ loc' = [loc EXCEPT ![t].e = e, ![t].prev = tls[t]]
    /\ pc' = [pc EXCEPT ![t] = "build"]
    /\ UNCHANGED <<phase, mutex, tls, cache, home, ctx, arr, slot, types>>

\* allocate_new_resource up to its loop: the entry gets its fields and becomes
\* the CALLING thread's TLS value, whichever thread it is for.
Allocate(t, e, who) ==
    /\ e \in Available
    /\ used' = used \cup {e}
    /\ owner' = [owner EXCEPT ![e] = who]
    /\ count' = [count EXCEPT ![e] = idCount]
    /\ tls' = [tls EXCEPT ![t] = e]
    /\ loc' = [loc EXCEPT ![t].e = e,
                          ![t].prev = IF loc[t].op = "new_ctx" THEN tls[t] ELSE Null]
    /\ pc' = [pc EXCEPT ![t] = "build"]
    /\ UNCHANGED <<phase, mutex, cache, home, ctx, arr, slot, types>>

\* Mutant: the bucket is not searched again once the mutex is held.
CreateUnchecked(t, e) ==
    /\ pc[t] = "find"
    /\ Allocate(t, e, loc[t].who)
    /\ table' = [table EXCEPT ![Hash[loc[t].who]] = @ \cup {e}]

Create(t, e) ==
    /\ pc[t] = "find"
    /\ Entries(loc[t].who) = {}
    /\ Allocate(t, e, loc[t].who)
    /\ table' = [table EXCEPT ![Hash[loc[t].who]] = @ \cup {e}]

\* The loop of allocate_new_resource, one slot at a time, in order.
NextSlot(e, i) ==
    /\ i <= count[e]
    /\ slot[e][i] = "none"
    /\ \A j \in 1..(i - 1) : slot[e][j] # "none"

\* Mutant: retired ids are constructed again.
BuildSlotIgnoresDone(t, i) ==
    /\ pc[t] = "build"
    /\ ~lost
    /\ NextSlot(loc[t].e, i)
    /\ slot' = [slot EXCEPT ![loc[t].e][i] = "live"]
    /\ UNCHANGED <<phase, mutex, pc, loc, locals, table, used, owner, count, arr,
                   types>>

BuildSlot(t, i) ==
    /\ pc[t] = "build"
    /\ ~lost
    /\ NextSlot(loc[t].e, i)
    /\ slot' = [slot EXCEPT ![loc[t].e][i] =
                    IF i \in done THEN "null" ELSE "live"]
    /\ UNCHANGED <<phase, mutex, pc, loc, locals, table, used, owner, count, arr,
                   types>>

\* Mutant: the loop ends one slot early.
BuiltOneLess(t) ==
    /\ pc[t] = "build"
    /\ \A i \in 1..(count[loc[t].e] - 1) : slot[loc[t].e][i] # "none"
    /\ mutex' = NoThread
    /\ pc' = [pc EXCEPT ![t] =
                  IF loc[t].op = "new_ctx" THEN "restore" ELSE "lock"]
    /\ UNCHANGED <<phase, loc, locals, table, heap, types>>

\* The loop is over: unlock, then search again from ts_resource_ex, or put the
\* caller's context back from tsrm_new_interpreter_context.
Built(t) ==
    /\ pc[t] = "build"
    /\ \A i \in 1..count[loc[t].e] : slot[loc[t].e][i] # "none"
    /\ mutex' = NoThread
    /\ IF loc[t].op = "new_ctx"
       THEN /\ pc' = [pc EXCEPT ![t] = "restore"]
            /\ UNCHANGED loc
       ELSE /\ pc' = [pc EXCEPT ![t] = "lock"]
            /\ loc' = [loc EXCEPT ![t].e = Null]
    /\ UNCHANGED <<phase, locals, table, heap, types>>

\* TSRM_SAFE_RETURN_RSRC: load thread_resources->storage, unless the id is 0.
Load(t) ==
    /\ pc[t] = "load"
    /\ loc[t].id # 0
    /\ loc' = [loc EXCEPT ![t].ver = arr[loc[t].e]]
    /\ pc' = [pc EXCEPT ![t] = "deref"]
    /\ UNCHANGED <<phase, mutex, locals, table, heap, types>>

\* Mutant: the read waits until nobody holds the mutex.
DerefUnlocked(t) ==
    /\ pc[t] = "deref" \/ (pc[t] = "load" /\ loc[t].id = 0)
    /\ mutex = NoThread
    /\ Return(t)
    /\ UNCHANGED <<phase, mutex, locals, table, heap, types>>

\* Index what was loaded, and return; for id 0 the macro returns the address of
\* the field, and nothing is loaded or indexed.
Deref(t) ==
    /\ pc[t] = "deref" \/ (pc[t] = "load" /\ loc[t].id = 0)
    /\ Return(t)
    /\ UNCHANGED <<phase, mutex, locals, table, heap, types>>

-----------------------------------------------------------------------------
(* ts_allocate_id                                                          *)

\* Bound: no more than MaxId ids, the calls in progress counted.
RoomForId ==
    idCount + Cardinality({t \in Thread : /\ pc[t] \in {"lock", "register"}
                                          /\ loc[t].op = "register"}) < MaxId

\* Client bound: nobody calls it again after it has failed once.
CallAllocateId(t) ==
    /\ MayCall(t, "allocate_id") /\ RoomForId
    /\ phase = "startup" \/ LateIds
    /\ ~lost
    /\ CallLocked(t, "register", 0, t)

\* Mutant: the error path returns without unlocking.
RegisterKeepsMutex(t) ==
    /\ pc[t] = "register"
    /\ ~lost
    /\ idCount < MaxId
    /\ idCount' = idCount + 1
    /\ \/ /\ pc' = [pc EXCEPT ![t] = "enlarge"]
          /\ done' = done \ {idCount + 1}
          /\ UNCHANGED <<loc, lost>>
       \/ /\ AllocFails
          /\ ExpectedIds < idCount + 1
          /\ lost' = TRUE
          /\ Return(t)
          /\ UNCHANGED done
    /\ UNCHANGED <<phase, mutex, locals, table, heap>>

\* id_count++, and room in resource_types_table.  The failing realloc leaves
\* the table pointer NULL and id_count incremented, and unlocks.
Register(t) ==
    /\ pc[t] = "register"
    /\ ~lost
    /\ idCount < MaxId
    /\ idCount' = idCount + 1
    /\ \/ /\ pc' = [pc EXCEPT ![t] = "enlarge"]
          /\ done' = done \ {idCount + 1}
          /\ UNCHANGED <<mutex, loc, lost>>
       \/ /\ AllocFails
          /\ ExpectedIds < idCount + 1
          /\ lost' = TRUE
          /\ UnlockReturn(t)
          /\ UNCHANGED done
    /\ UNCHANGED <<phase, locals, table, heap>>

\* One linked entry gets a longer array, which realloc may move, and the
\* resources it lacks.
Enlarge(t, e) ==
    /\ pc[t] = "enlarge"
    /\ e \in Linked
    /\ count[e] < idCount
    /\ \E moved \in {0, 1} : arr' = [arr EXCEPT ![e] = @ + moved]
    /\ slot' = [slot EXCEPT ![e] =
                    [i \in Id |-> IF i \in (count[e] + 1)..idCount
                                  THEN "live" ELSE @[i]]]
    /\ count' = [count EXCEPT ![e] = idCount]
    /\ UNCHANGED <<phase, mutex, pc, loc, locals, table, used, owner, types>>

\* Mutant: the mutex is released before every entry has the new resource.
EnlargedEarly(t) ==
    /\ pc[t] = "enlarge"
    /\ UnlockReturn(t)
    /\ UNCHANGED <<phase, locals, table, heap, types>>

Enlarged(t) ==
    /\ pc[t] = "enlarge"
    /\ \A e \in Linked : count[e] >= idCount
    /\ UnlockReturn(t)
    /\ UNCHANGED <<phase, locals, table, heap, types>>

-----------------------------------------------------------------------------
(* The calls that give entries and resources back.                         *)

\* The memory of every entry in set is freed; what it held is gone.
Release(set) ==
    /\ used' = used \ set
    /\ count' = [e \in Entry |-> IF e \in set THEN 0 ELSE count[e]]
    /\ arr' = [e \in Entry |-> IF e \in set THEN 0 ELSE arr[e]]
    /\ slot' = [e \in Entry |-> IF e \in set THEN NoSlots ELSE slot[e]]
    /\ owner' = [e \in Entry |-> IF e \in set THEN Main ELSE owner[e]]

\* Destructors run before the memory goes.  With the types table lost, reading
\* a destructor from it is a NULL dereference.
FreeEntries(set) ==
    /\ lost => \A e \in set : count[e] = 0
    /\ Release(set)

\* Client bound: a thread is back in its own context when it calls this.
CallFreeThread(t) ==
    /\ MayCall(t, "free_thread")
    /\ home[t] = Null
    /\ CallLocked(t, "free_thread", 0, t)

\* Mutant: TLS keeps pointing to the freed entry.
FreeThreadKeepsTls(t) ==
    /\ pc[t] = "free_thread"
    /\ FreeEntries(Entries(t))
    /\ table' = [table EXCEPT ![Hash[t]] = @ \ Entries(t)]
    /\ UnlockReturn(t)
    /\ UNCHANGED <<phase, locals, types>>

\* ts_free_thread: the calling thread's own entry, and its TLS value with it.
FreeThread(t) ==
    /\ pc[t] = "free_thread"
    /\ FreeEntries(Entries(t))
    /\ table' = [table EXCEPT ![Hash[t]] = @ \ Entries(t)]
    /\ tls' = IF Entries(t) = {} THEN tls ELSE [tls EXCEPT ![t] = Null]
    /\ UnlockReturn(t)
    /\ UNCHANGED <<phase, cache, home, ctx, types>>

CallFreeWorkers(t) ==
    /\ MayCall(t, "free_workers")
    /\ CallLocked(t, "free_workers", 0, t)

\* ts_free_worker_threads: walks the calling thread's own bucket only, and
\* leaves the TLS of the threads it frees as it is.
Workers(t) == {e \in table[Hash[t]] : owner[e] # t}

\* Mutant: the entries are unlinked but not freed.
FreeWorkersLeaks(t) ==
    /\ pc[t] = "free_workers"
    /\ table' = [table EXCEPT ![Hash[t]] = @ \ Workers(t)]
    /\ UnlockReturn(t)
    /\ UNCHANGED <<phase, locals, heap, types>>

FreeWorkers(t) ==
    /\ pc[t] = "free_workers"
    /\ FreeEntries(Workers(t))
    /\ table' = [table EXCEPT ![Hash[t]] = @ \ Workers(t)]
    /\ UnlockReturn(t)
    /\ UNCHANGED <<phase, locals, types>>

CallFreeId(t, id) ==
    /\ MayCall(t, "free_id")
    /\ id \in Published
    /\ CallLocked(t, "free_id", id, t)

\* ts_free_id: the resource goes from every linked entry, and new entries will
\* not get one.
FreeId(t) ==
    /\ pc[t] = "free_id"
    /\ ~lost
    /\ slot' = [e \in Entry |->
                    IF e \in Linked /\ count[e] >= loc[t].id
                    THEN [slot[e] EXCEPT ![loc[t].id] = "null"]
                    ELSE slot[e]]
    /\ done' = done \cup {loc[t].id}
    /\ UnlockReturn(t)
    /\ UNCHANGED <<phase, locals, table, used, owner, count, arr, idCount,
                   lost>>

\* A thread ends without ts_free_thread; its id may come back with a new
\* thread, whose thread local storage is empty.
ThreadExit(t) ==
    /\ MayCall(t, "exit")
    /\ t # Main
    /\ home[t] = Null /\ ctx[t] = {}
    /\ tls' = [tls EXCEPT ![t] = Null]
    /\ cache' = [cache EXCEPT ![t] = Null]
    /\ UNCHANGED <<phase, mutex, pc, loc, home, ctx, table, heap, types>>

-----------------------------------------------------------------------------
(* Interpreter contexts: entries that are not linked into the table.       *)

CallNewContext(t) ==
    /\ MayCall(t, "context") /\ RoomForEntry
    /\ phase = "serve" \/ LateIds
    /\ CallLocked(t, "new_ctx", 0, t)

NewContext(t, e) ==
    /\ pc[t] = "new_ctx"
    /\ Allocate(t, e, t)
    /\ UNCHANGED table

\* Mutant: the new context stays the current one.
RestoreNothing(t) ==
    /\ pc[t] = "restore"
    /\ ctx' = [ctx EXCEPT ![t] = @ \cup {loc[t].e}]
    /\ Return(t)
    /\ UNCHANGED <<phase, mutex, tls, cache, home, table, heap, types>>

\* Back to the context that was current; the new one is returned.
Restore(t) ==
    /\ pc[t] = "restore"
    /\ tls' = [tls EXCEPT ![t] = loc[t].prev]
    /\ ctx' = [ctx EXCEPT ![t] = @ \cup {loc[t].e}]
    /\ Return(t)
    /\ UNCHANGED <<phase, mutex, cache, home, table, heap, types>>

\* tsrm_set_interpreter_context, there and back.
EnterContext(t, e) ==
    /\ MayCall(t, "switch")
    /\ e \in ctx[t]
    /\ home[t] = Null /\ tls[t] # Null
    /\ home' = [home EXCEPT ![t] = tls[t]]
    /\ tls' = [tls EXCEPT ![t] = e]
    /\ UNCHANGED <<phase, mutex, pc, loc, cache, ctx, table, heap, types>>

LeaveContext(t) ==
    /\ MayCall(t, "switch")
    /\ home[t] # Null
    /\ tls' = [tls EXCEPT ![t] = home[t]]
    /\ home' = [home EXCEPT ![t] = Null]
    /\ UNCHANGED <<phase, mutex, pc, loc, cache, ctx, table, heap, types>>

\* Mutant: the destructors run but the context's memory is kept.
FreeContextLeaks(t, e) ==
    /\ MayCall(t, "context")
    /\ e \in ctx[t] /\ tls[t] # e
    /\ ctx' = [ctx EXCEPT ![t] = @ \ {e}]
    /\ UNCHANGED <<phase, mutex, pc, loc, tls, cache, home, table, heap, types>>

\* tsrm_free_interpreter_context, called as its comment asks: the context is
\* not the current one.  No mutex.
FreeContext(t, e) ==
    /\ MayCall(t, "context")
    /\ e \in ctx[t] /\ tls[t] # e
    /\ FreeEntries({e})
    /\ ctx' = [ctx EXCEPT ![t] = @ \ {e}]
    /\ UNCHANGED <<phase, mutex, pc, loc, tls, cache, home, table, types>>

\* The same call when the types table is NULL and the destructors are looked up.
FreeContextCrashes(t, e) ==
    /\ MayCall(t, "context")
    /\ e \in ctx[t] /\ tls[t] # e
    /\ lost /\ count[e] > 0
    /\ phase' = "crashed"
    /\ UNCHANGED <<mutex, pc, loc, tls, cache, home, ctx, table, heap, types>>

-----------------------------------------------------------------------------
(* The process.                                                            *)

\* The modules are loaded; from here on every thread may run.
Serve ==
    /\ phase = "startup"
    /\ pc[Main] = "idle"
    /\ phase' = "serve"
    /\ UNCHANGED <<mutex, pc, loc, locals, table, heap, types>>

\* tsrm_shutdown takes no mutex: it is called once, when nobody is in a call.
Shutdown ==
    /\ phase = "serve"
    /\ \A t \in Thread : pc[t] = "idle"
    /\ Release(Linked)
    /\ table' = [b \in Bucket |-> {}]
    /\ tls' = [t \in Thread |-> Null]
    /\ phase' = "down"
    /\ UNCHANGED <<mutex, pc, loc, cache, home, ctx, types>>

\* The step ahead indexes resource_types_table.
IndexesTypes(t) ==
    \/ pc[t] = "register"
    \/ pc[t] = "build" /\ count[loc[t].e] > 0
    \/ pc[t] = "free_id"
    \/ pc[t] = "free_thread" /\ \E e \in Entries(t) : count[e] > 0
    \/ pc[t] = "free_workers" /\ \E e \in Workers(t) : count[e] > 0

\* The step ahead writes into a new entry.
NeedsEntry(t) ==
    \/ pc[t] = "find" /\ Entries(loc[t].who) = {}
    \/ pc[t] = "new_ctx"

\* The table of types is NULL, or what malloc returned for an entry.  For a
\* ts_allocate_id that was waiting when the table was lost, realloc makes one
\* out of nothing whose other rows are uninitialised; the model does not follow
\* what comes of that.
Crash(t) ==
    /\ \/ lost /\ IndexesTypes(t)
       \/ Available = {} /\ NeedsEntry(t)
    /\ phase' = "crashed"
    /\ UNCHANGED <<mutex, pc, loc, locals, table, heap, types>>

Terminated ==
    /\ phase \in {"down", "crashed"}
    /\ UNCHANGED vars

\* The calls a client program starts.
Call(t) ==
    \/ \E id \in 0..MaxId :
          \/ FastGet(t, id) \/ SlowGet(t, id) \/ StaticGet(t, id)
          \/ CallFreeId(t, id)
          \/ \E u \in Thread : GetOther(t, id, u)
    \/ CallAllocateId(t) \/ CallFreeThread(t) \/ CallFreeWorkers(t)
    \/ CallNewContext(t)
    \/ CacheUpdate(t) \/ ThreadExit(t) \/ LeaveContext(t)
    \/ \E e \in Entry :
          EnterContext(t, e) \/ FreeContext(t, e) \/ FreeContextCrashes(t, e)

\* The steps of a call that do not wait for the mutex.
Step(t) ==
    /\ Running
    /\ \/ Find(t) \/ Load(t) \/ Deref(t)
       \/ \E e \in Entry : Create(t, e) \/ NewContext(t, e) \/ Enlarge(t, e)
       \/ \E i \in Id : BuildSlot(t, i)
       \/ Built(t) \/ Register(t) \/ Enlarged(t)
       \/ FreeThread(t) \/ FreeWorkers(t) \/ FreeId(t) \/ Restore(t)
       \/ Crash(t)

Next ==
    \/ \E t \in Thread : Call(t) \/ Lock(t) \/ Step(t)
    \/ Serve \/ Shutdown \/ Terminated

\* A thread that is not waiting is eventually scheduled; the order in which
\* pthread_mutex_lock lets waiters in is left open.
Spec == Init /\ [][Next]_vars /\ \A t \in Thread : WF_vars(Step(t))

-----------------------------------------------------------------------------
(* Properties                                                              *)

\* No thread has two entries in the table, and an entry is where a search for
\* its owner looks for it: two threads that both find the bucket without an
\* entry for the same thread (ts_resource_ex, TSRM.c:279-303) must not both
\* add one.
UniqueEntry ==
    \A b \in Bucket : \A e \in table[b] :
        /\ Hash[owner[e]] = b
        /\ \A f \in Linked : owner[f] = owner[e] => f = e

\* Nothing freed stays reachable from the table, nothing allocated is lost:
\* an entry that is in use is linked, or is an interpreter context somebody
\* still has to free, or is one being built.  The walks of ts_allocate_id,
\* ts_free_id and tsrm_shutdown rely on it, and after tsrm_shutdown only
\* interpreter contexts are left.
NoOrphan ==
    /\ Linked \subseteq used
    /\ \A e \in used \ Linked : \E t \in Thread :
          \/ e \in ctx[t]
          \/ /\ pc[t] \in {"build", "restore"}
             /\ loc[t].op = "new_ctx" /\ loc[t].e = e

\* When nobody holds the mutex every linked entry has a constructed resource
\* for every id a client can know, and none for a retired id: the entries that
\* ts_allocate_id extended and those that allocate_new_resource built agree.
ReadyWhenNeeded ==
    mutex = NoThread =>
        \A e \in Linked : \A i \in Published :
            /\ i <= count[e]
            /\ slot[e][i] = IF i \in done THEN "null" ELSE "live"

\* A constructor that asks for an earlier resource of its own entry gets it:
\* TLS already points to the entry under construction, and its slots are
\* filled in order (allocate_new_resource, TSRM.c:224-240).
ConstructorSeesEntry ==
    \A t \in Thread : pc[t] = "build" =>
        /\ tls[t] = loc[t].e
        /\ \A i \in 1..count[loc[t].e] :
              slot[loc[t].e][i] # "none" =>
                  \A j \in 1..i : slot[loc[t].e][j] # "none"

\* What a read outside the mutex finds (TSRM.c:271, 309): an entry and an array
\* that still exist, an index inside it, and a resource unless it was retired.
ReadSafe ==
    \A t \in Thread :
        /\ pc[t] \in {"load", "deref"} => loc[t].e \in used
        /\ pc[t] = "deref" =>
              /\ loc[t].ver = arr[loc[t].e]
              /\ loc[t].id \in 1..count[loc[t].e]
              /\ slot[loc[t].e][loc[t].id] = "live" \/ loc[t].id \in done

\* A read returns the resource of the thread it was asked for.
OwnResource ==
    \A t \in Thread :
        pc[t] \in {"load", "deref"} => owner[loc[t].e] = loc[t].who

\* A thread is in an interpreter context only if it has switched to it:
\* creating one puts the current context back (TSRM.c:366-368).
ContextOnlyOnRequest ==
    \A t \in Thread : tls[t] \in ctx[t] => home[t] # Null

\* Seen from outside the critical sections the entries are one map from threads
\* to resources that changes atomically: an entry counts from the unlock that
\* ends its construction, a new id from the return of ts_allocate_id.
Finished(t) ==
    {e \in Entries(t) : \A u \in Thread : pc[u] = "build" => loc[u].e # e}

Map == INSTANCE ResourceMap WITH
    ids <- Known,
    retired <- done,
    has <- {t \in Thread : Finished(t) # {}},
    res <- [t \in Thread |->
              {i \in Published : \E e \in Finished(t) : slot[e][i] = "live"}]

ImplementsMap == Map!Spec

\* Every path through a critical section unlocks.
MutexReleased ==
    \A t \in Thread : mutex = t ~> (mutex # t \/ phase = "crashed")

\* A read through TLS ends whatever the holder of the mutex does.
ReadEnds ==
    \A t \in Thread : pc[t] = "load" ~> (pc[t] = "idle" \/ phase = "crashed")

\* TSRM.c:414, "frees all resources allocated for all threads except current".
FreesAllWorkers ==
    [][\A t \in Thread : FreeWorkers(t) => \A e \in Linked' : owner[e] = t]_vars
=============================================================================
