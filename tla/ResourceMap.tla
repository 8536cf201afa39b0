----------------------------- MODULE ResourceMap -----------------------------
(***************************************************************************)
(* What TSRM promises its clients (php7.1.3/TSRM/README.md, "TSRM API"): a *)
(* map from threads to resources.  A thread that is attached has one       *)
(* constructed resource for every id that exists and is not retired, from  *)
(* the moment it is attached or the id appears, all at once.               *)
(***************************************************************************)
EXTENDS Integers

CONSTANTS Thread, MaxId

VARIABLES
    ids,      \* ids 1..ids have been handed out
    retired,  \* ids given back by ts_free_id
    has,      \* the attached threads
    res       \* the ids of which each thread has a resource

mapVars == <<ids, retired, has, res>>

Init ==
    /\ ids = 0
    /\ retired = {}
    /\ has = {}
    /\ res = [t \in Thread |-> {}]

\* ts_allocate_id: every attached thread has the new resource at once.
NewId ==
    /\ ids < MaxId
    /\ ids' = ids + 1
    /\ res' = [t \in Thread |-> IF t \in has THEN res[t] \cup {ids + 1} ELSE {}]
    /\ UNCHANGED <<retired, has>>

\* ts_free_id: no thread has the resource any longer, and none will get it.
Retire(i) ==
    /\ i \in 1..ids
    /\ retired' = retired \cup {i}
    /\ res' = [t \in Thread |-> res[t] \ {i}]
    /\ UNCHANGED <<ids, has>>

\* The first ts_resource of a thread.
Attach(t) ==
    /\ t \notin has
    /\ has' = has \cup {t}
    /\ res' = [res EXCEPT ![t] = (1..ids) \ retired]
    /\ UNCHANGED <<ids, retired>>

\* ts_free_thread, ts_free_worker_threads, tsrm_shutdown.
Detach(gone) ==
    /\ gone \subseteq has
    /\ has' = has \ gone
    /\ res' = [t \in Thread |-> IF t \in gone THEN {} ELSE res[t]]
    /\ UNCHANGED <<ids, retired>>

Next ==
    \/ NewId
    \/ \E i \in 1..ids : Retire(i)
    \/ \E t \in Thread : Attach(t)
    \/ \E gone \in SUBSET has : Detach(gone)

Spec == Init /\ [][Next]_mapVars
=============================================================================
