----------------------------- MODULE EntryTable -----------------------------
(***************************************************************************)
(* What the bucket chains of TSRM implement: a set of entries of which no  *)
(* two belong to one thread.  Each call has its effect on the set at once, *)
(* whatever the order of the chains.                                       *)
(***************************************************************************)
CONSTANTS Thread, Bucket, Hash, Entry, Null

VARIABLES
    linked,  \* the entries that are in the table
    owner,   \* the thread of each entry
    op, me,  \* the call in progress, and the thread it is about
    result   \* the entry that the last call has found

tableVars == <<linked, owner, op, me, result>>

Init ==
    /\ linked = {}
    /\ owner \in [Entry -> Thread]
    /\ op = "idle"
    /\ me \in Thread
    /\ result = Null

Start(o, t) ==
    /\ op = "idle"
    /\ op' = o
    /\ me' = t
    /\ result' = Null
    /\ UNCHANGED owner

\* ts_resource_ex, ts_free_thread: nothing happens before the entry is known.
Search(o, t) == Start(o, t) /\ UNCHANGED linked

\* ts_free_worker_threads frees the other entries of the caller's bucket.
DetachOthers(t) ==
    /\ Start("free_workers", t)
    /\ linked' = {e \in linked : Hash[owner[e]] = Hash[t] => owner[e] = t}

\* tsrm_shutdown.
DetachAll == Start("shutdown", me) /\ linked' = {}

Finish(o) ==
    /\ op = o
    /\ op' = IF o = "shutdown" THEN "down" ELSE "idle"
    /\ UNCHANGED me

\* The search finds the entry of the thread.
Hit(e) ==
    /\ Finish("find")
    /\ e \in linked /\ owner[e] = me
    /\ result' = e
    /\ UNCHANGED <<linked, owner>>

\* The thread has none and gets a new one.
Attach(e) ==
    /\ Finish("find")
    /\ \A f \in linked : owner[f] # me
    /\ e \in Entry \ linked
    /\ linked' = linked \cup {e}
    /\ owner' = [owner EXCEPT ![e] = me]
    /\ UNCHANGED result

\* The thread has none any longer.
Detach ==
    /\ Finish("free_thread")
    /\ linked' = {e \in linked : owner[e] # me}
    /\ UNCHANGED <<owner, result>>

Done ==
    /\ Finish("free_workers") \/ Finish("shutdown")
    /\ UNCHANGED <<linked, owner, result>>

Next ==
    \/ \E t \in Thread : \/ \E o \in {"find", "free_thread"} : Search(o, t)
                         \/ DetachOthers(t)
    \/ DetachAll
    \/ \E e \in Entry : Hit(e) \/ Attach(e)
    \/ Detach \/ Done

Spec == Init /\ [][Next]_tableVars
=============================================================================
