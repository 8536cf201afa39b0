------------------------------ MODULE TsrmChain ------------------------------
(***************************************************************************)
(* The chains of the hash table of php7.1.3/TSRM, pointer by pointer: the  *)
(* search of ts_resource_ex and the loops of ts_free_thread,               *)
(* ts_free_worker_threads and tsrm_shutdown.                               *)
(*                                                                         *)
(* Tsrm takes the chain of a bucket for a set; this module shows that it   *)
(* is one.  Everything here happens under tsmm_mutex (TsrmProof, LockInv), *)
(* so there is one call at a time, and one action is one turn of a loop.   *)
(***************************************************************************)
CONSTANTS
    Thread,
    Bucket, Hash, \* the buckets, and THREAD_HASH_OF
    Entry,        \* addresses malloc may return for an entry
    Null

ASSUME ChainAssumption ==
    /\ Hash \in [Thread -> Bucket]
    /\ Null \notin Entry

VARIABLES
    table,   \* tsrm_tls_table: the first entry of each chain
    next,    \* next field of each entry, whether it is allocated or not
    owner,   \* thread_id field
    used,    \* the entries that are allocated and not freed
    op,      \* the function that runs, "idle", or "down" after tsrm_shutdown
    me,      \* thread_id of the function
    bucket,  \* hash_value; i in tsrm_shutdown
    p,       \* thread_resources; p in tsrm_shutdown
    last,    \* last
    todo     \* the buckets tsrm_shutdown has not come to; in which order it
             \* takes them makes no difference

chainVars == <<table, next, owner, used, op, me, bucket, p, last, todo>>

Pointer == Entry \cup {Null}

TypeOK ==
    /\ table \in [Bucket -> Pointer]
    /\ next \in [Entry -> Pointer]
    /\ owner \in [Entry -> Thread]
    /\ used \in SUBSET Entry
    /\ op \in {"idle", "find", "free_thread", "free_workers", "shutdown", "down"}
    /\ me \in Thread
    /\ bucket \in Bucket
    /\ p \in Pointer
    /\ last \in Pointer
    /\ todo \in SUBSET Bucket

ChainStart ==
    /\ table = [b \in Bucket |-> Null]
    /\ next = [e \in Entry |-> Null]
    /\ owner = [e \in Entry |-> me]
    /\ used = {}
    /\ op = "idle"
    /\ bucket = Hash[me]
    /\ p = Null
    /\ last = Null
    /\ todo = {}

ChainInit == me \in Thread /\ ChainStart

-----------------------------------------------------------------------------
Call(o, t) ==
    /\ op = "idle"
    /\ op' = o
    /\ me' = t
    /\ bucket' = Hash[t]
    /\ p' = table[Hash[t]]
    /\ last' = Null
    /\ UNCHANGED <<table, next, owner, used, todo>>

\* The end of a function that returns nothing.
Return ==
    /\ op' = "idle"
    /\ p' = Null
    /\ last' = Null
    /\ UNCHANGED <<me, bucket, todo>>

\* ts_resource_ex: the entry of the thread, or the next one in the chain.
Found ==
    /\ op = "find" /\ p # Null
    /\ owner[p] = me
    /\ op' = "idle"
    /\ UNCHANGED <<table, next, owner, used, me, bucket, p, last, todo>>

FindNext ==
    /\ op = "find" /\ p # Null
    /\ owner[p] # me
    /\ next[p] # Null
    /\ p' = next[p]
    /\ UNCHANGED <<table, next, owner, used, op, me, bucket, last, todo>>

\* allocate_new_resource makes *thread_resources_ptr a new entry without a
\* successor; ts_resource_ex starts over, which is another Call.
Allocate(e) ==
    /\ e \in Entry \ used
    /\ used' = used \cup {e}
    /\ owner' = [owner EXCEPT ![e] = me]

AllocateFirst(e) ==
    /\ op = "find" /\ p = Null
    /\ Allocate(e)
    /\ table' = [table EXCEPT ![bucket] = e]
    /\ next' = [next EXCEPT ![e] = Null]
    /\ Return

AllocateLastUnset(e) ==
    /\ op = "find" /\ p # Null
    /\ owner[p] # me
    /\ next[p] = Null
    /\ Allocate(e)
    /\ next' = [next EXCEPT ![p] = e]
    /\ UNCHANGED table
    /\ Return

AllocateLast(e) ==
    /\ op = "find" /\ p # Null
    /\ owner[p] # me
    /\ next[p] = Null
    /\ Allocate(e)
    /\ next' = [next EXCEPT ![p] = e, ![e] = Null]
    /\ UNCHANGED table
    /\ Return

UnlinkFirst ==
    /\ table' = [table EXCEPT ![bucket] = next[p]]
    /\ used' = used \ {p}
    /\ UNCHANGED <<next, owner>>

\* Takes *p out of its chain.
Unlink ==
    /\ IF last # Null
       THEN next' = [next EXCEPT ![last] = next[p]] /\ UNCHANGED table
       ELSE table' = [table EXCEPT ![bucket] = next[p]] /\ UNCHANGED next
    /\ used' = used \ {p}
    /\ UNCHANGED owner

FreeThread ==
    /\ op = "free_thread" /\ p # Null
    /\ owner[p] = me
    /\ Unlink
    /\ Return

FreeWorkerReturns ==
    /\ op = "free_workers" /\ p # Null
    /\ owner[p] # me
    /\ Unlink
    /\ Return

FreeWorker ==
    /\ op = "free_workers" /\ p # Null
    /\ owner[p] # me
    /\ Unlink
    /\ p' = IF last # Null THEN next'[last] ELSE table'[bucket]
    /\ UNCHANGED <<op, me, bucket, last, todo>>

PassForgets ==
    /\ p # Null
    /\ \/ op = "free_thread" /\ owner[p] # me
       \/ op = "free_workers" /\ owner[p] = me
    /\ p' = next[p]
    /\ UNCHANGED <<table, next, owner, used, op, me, bucket, last, todo>>

\* Both loops pass an entry that stays.
Pass ==
    /\ p # Null
    /\ \/ op = "free_thread" /\ owner[p] # me
       \/ op = "free_workers" /\ owner[p] = me
    /\ last' = IF next[p] # Null THEN p ELSE last
    /\ p' = next[p]
    /\ UNCHANGED <<table, next, owner, used, op, me, bucket, todo>>

EndOfChain ==
    /\ op \in {"free_thread", "free_workers"} /\ p = Null
    /\ Return
    /\ UNCHANGED <<table, next, owner, used>>

Shutdown ==
    /\ op = "idle"
    /\ op' = "shutdown"
    /\ p' = Null
    /\ last' = Null
    /\ todo' = Bucket
    /\ UNCHANGED <<table, next, owner, used, me, bucket>>

ShutdownBucket(b) ==
    /\ op = "shutdown" /\ p = Null
    /\ b \in todo
    /\ bucket' = b
    /\ p' = table[b]
    /\ todo' = todo \ {b}
    /\ UNCHANGED <<table, next, owner, used, op, me, last>>

ShutdownEntry ==
    /\ op = "shutdown" /\ p # Null
    /\ used' = used \ {p}
    /\ p' = next[p]
    /\ UNCHANGED <<table, next, owner, op, me, bucket, last, todo>>

ShutdownEnds ==
    /\ op = "shutdown" /\ p = Null /\ todo = {}
    /\ op' = "down"
    /\ UNCHANGED <<table, next, owner, used, me, bucket, p, last, todo>>

Terminated == op = "down" /\ UNCHANGED chainVars

\* A turn of the loop of the function that runs.
Turn ==
    \/ Found \/ FindNext
    \/ \E e \in Entry : AllocateFirst(e) \/ AllocateLast(e)
    \/ FreeThread \/ FreeWorker \/ Pass \/ EndOfChain
    \/ \E b \in Bucket : ShutdownBucket(b)
    \/ ShutdownEntry \/ ShutdownEnds

ChainNext ==
    \/ \E t \in Thread, o \in {"find", "free_thread", "free_workers"} : Call(o, t)
    \/ Shutdown
    \/ Turn
    \/ Terminated

\* A thread that holds the mutex goes on: its loops wait for nothing.
ChainFairness == WF_chainVars(Turn)

ChainSpec == ChainInit /\ [][ChainNext]_chainVars /\ ChainFairness

-----------------------------------------------------------------------------
\* Following next from q stays in S.
Closed(q, S) ==
    /\ q \in S \cup {Null}
    /\ \A e \in S : next[e] \in S \cup {Null}

\* What can be reached from q: the least such set.
From(q) == {e \in Entry : \A S \in SUBSET Entry : Closed(q, S) => e \in S}

\* Where the chain of a bucket begins.  tsrm_shutdown does not unlink: there the
\* chain is what is still before it.
ChainHead(b) ==
    IF op \notin {"shutdown", "down"} \/ b \in todo THEN table[b]
    ELSE IF b = bucket THEN p ELSE Null

Chain(b) == From(ChainHead(b))

(* No entry leaks, none is used after it was freed, and none is in the chain  *)
(* of a bucket that its thread does not hash to: what the loops unlink, and   *)
(* what a new entry is hung on, leaves each chain with the allocated entries  *)
(* of its bucket (TSRM.c:284-296, 396-409, 438-455).                          *)
ChainsExact ==
    \A b \in Bucket : Chain(b) = {e \in used : Hash[owner[e]] = b}

(* While a loop runs, the pointer that Unlink changes is the one that leads   *)
(* to the entry it takes out: last is set only when there is a next entry and *)
(* stays when one behind it was removed (TSRM.c:405-408, 444-455).            *)
LastLeadsHere ==
    (op \in {"free_thread", "free_workers"} /\ p # Null) =>
        /\ p \in Chain(bucket)
        /\ IF last = Null THEN table[bucket] = p
           ELSE last \in Chain(bucket) /\ next[last] = p

(* The chains implement the set of entries that Tsrm has.  What               *)
(* ts_free_worker_threads and tsrm_shutdown will remove counts as gone.       *)
Linked == UNION {Chain(b) : b \in Bucket}

Live ==
    IF op \in {"shutdown", "down"} THEN {}
    ELSE IF op = "free_workers"
    THEN {e \in Linked : Hash[owner[e]] = bucket => owner[e] = me}
    ELSE Linked

Set == INSTANCE EntryTable
       WITH linked <- Live, result <- IF op = "idle" THEN p ELSE Null

(* Every call does to the set at once what EntryTable says: a search misses   *)
(* no entry, nobody gets a second one, and the free functions leave none      *)
(* behind (TSRM.c:284-303, 385-409, 427-455, 116-135).                        *)
ImplementsTable == Set!Spec

(* No chain has a cycle: every call returns (TSRM.c:302, 385, 427, 119).      *)
CallEnds == (op \notin {"idle", "down"}) ~> (op \in {"idle", "down"})
=============================================================================
