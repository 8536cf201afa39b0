----------------------------- MODULE TsrmProof ------------------------------
(***************************************************************************)
(* Proofs about Tsrm, for every set of threads, entries and buckets, every *)
(* client program and any number of ids: its invariants, that it           *)
(* implements ResourceMap, and what the code of a client can rely on: a    *)
(* constructor that asks for the resources of its own thread, a thread     *)
(* that switches between interpreter contexts, and a read that takes no    *)
(* mutex.                                                                  *)
(***************************************************************************)
EXTENDS Tsrm, TLAPS

USE DEF Id, Pointer

LEMMA IdleLocal == Idle \in Local
  BY ThreadAssumption, BoundAssumption DEF Idle, Local, Entered, Critical

LEMMA LocalUpdate ==
  ASSUME TypeOK, NEW t \in Thread, NEW e \in Pointer, NEW ver \in Nat
  PROVE  /\ [loc EXCEPT ![t].e = e] \in [Thread -> Local]
         /\ [loc EXCEPT ![t].ver = ver] \in [Thread -> Local]
  <1>1. loc \in [Thread -> Local]
    BY DEF TypeOK
  <1>2. [loc[t] EXCEPT !.e = e] \in Local /\ [loc[t] EXCEPT !.ver = ver] \in Local
    BY <1>1 DEF Local
  <1>3. /\ [loc EXCEPT ![t].e = e] = [loc EXCEPT ![t] = [loc[t] EXCEPT !.e = e]]
        /\ [loc EXCEPT ![t].ver = ver] = [loc EXCEPT ![t] = [loc[t] EXCEPT !.ver = ver]]
    OBVIOUS
  <1> QED
    BY <1>1, <1>2, <1>3

LEMMA EntryUpdate ==
  ASSUME NEW l \in Local, NEW e \in Pointer, NEW p \in Pointer
  PROVE  [l EXCEPT !.e = e, !.prev = p] \in Local
  BY DEF Local

\* What the locals of a call hold at the labels that use them.
LocInv ==
    \A t \in Thread :
        /\ pc[t] \in Entered => loc[t].op = pc[t]
        /\ pc[t] \in {"load", "deref", "build", "restore"} => loc[t].e \in Entry
        /\ pc[t] = "build" => loc[t].op \in {"find", "new_ctx"}
        /\ pc[t] = "restore" => loc[t].op = "new_ctx"
        /\ pc[t] = "lock" /\ loc[t].op = "free_id" => loc[t].id \in Id
        /\ pc[t] = "free_id" => loc[t].id \in Id
        /\ pc[t] = "deref" => loc[t].id # 0

LEMMA NoSlotsType == NoSlots \in [Id -> SlotState]
  BY DEF NoSlots, SlotState

LEMMA ReturnType ==
  ASSUME TypeOK, NEW t \in Thread, Return(t)
  PROVE  pc' \in [Thread -> Label] /\ loc' \in [Thread -> Local]
  BY IdleLocal DEF TypeOK, Return, Label

LEMMA CallLockedType ==
  ASSUME TypeOK, NEW t \in Thread, NEW op \in Entered, NEW id \in 0..MaxId,
         NEW who \in Thread, CallLocked(t, op, id, who)
  PROVE  TypeOK'
  <1>1. [Idle EXCEPT !.op = op, !.id = id, !.who = who] \in Local
    BY IdleLocal DEF Local
  <1> QED
    BY <1>1 DEF TypeOK, CallLocked, Label, locals, heap, types

LEMMA CallReadType ==
  ASSUME TypeOK, NEW t \in Thread, NEW id \in 0..MaxId, NEW e \in Pointer,
         CallRead(t, id, e)
  PROVE  TypeOK'
  <1>1. [Idle EXCEPT !.id = id, !.who = t, !.e = e] \in Local
    BY IdleLocal DEF Local
  <1> QED
    BY <1>1 DEF TypeOK, CallRead, Label, locals, heap, types

LEMMA PublishedType ==
  ASSUME TypeOK
  PROVE  Known \in Int /\ Known <= idCount /\ Published \subseteq Id
  BY BoundAssumption DEF TypeOK, Known, Published

LEMMA ReleaseType ==
  ASSUME TypeOK, NEW set \in SUBSET Entry, Release(set)
  PROVE  /\ used' \in SUBSET Entry
         /\ owner' \in [Entry -> Thread]
         /\ count' \in [Entry -> 0..MaxId]
         /\ arr' \in [Entry -> Nat]
         /\ slot' \in [Entry -> [Id -> SlotState]]
  BY NoSlotsType, ThreadAssumption, BoundAssumption DEF TypeOK, Release

LEMMA LinkedType == TypeOK => Linked \subseteq Entry
  BY DEF TypeOK, Linked

LEMMA AllocateType ==
  ASSUME TypeOK, NEW t \in Thread, NEW e \in Entry, NEW who \in Thread,
         Allocate(t, e, who), table' \in [Bucket -> SUBSET Entry]
  PROVE  TypeOK'
  <1>1. loc' \in [Thread -> Local]
    <2> DEFINE p == IF loc[t].op = "new_ctx" THEN tls[t] ELSE Null
    <2>1. loc \in [Thread -> Local] /\ p \in Pointer
      BY DEF TypeOK
    <2>2. [loc[t] EXCEPT !.e = e, !.prev = p] \in Local
      BY <2>1, EntryUpdate
    <2>3. loc' = [loc EXCEPT ![t] = [loc[t] EXCEPT !.e = e, !.prev = p]]
      BY DEF Allocate
    <2> QED
      BY <2>1, <2>2, <2>3
  <1>2. tls' \in [Thread -> Pointer] /\ used' \in SUBSET Entry
    BY DEF TypeOK, Allocate
  <1>3. owner' \in [Entry -> Thread] /\ count' \in [Entry -> 0..MaxId]
    BY DEF TypeOK, Allocate
  <1>4. pc' \in [Thread -> Label]
    BY DEF TypeOK, Allocate, Label
  <1> QED
    BY <1>1, <1>2, <1>3, <1>4 DEF TypeOK, Allocate, types

\* An action that leaves pc and loc alone, or moves thread t as Return or the
\* calls do, keeps LocInv.
LEMMA LocStep == TypeOK /\ LocInv /\ [Next]_vars => LocInv'
<1> SUFFICES ASSUME TypeOK, LocInv, [Next]_vars, NEW u \in Thread
             PROVE  LocInv!(u)'
  BY DEF LocInv
<1>0. loc \in [Thread -> Local] /\ pc \in [Thread -> Label]
  BY DEF TypeOK
<1>a. ASSUME NEW t \in Thread, Return(t) PROVE LocInv!(u)'
  BY <1>0, <1>a DEF Return, LocInv, Entered, Critical
<1>b. ASSUME NEW t \in Thread, NEW op \in Entered, NEW id, NEW who,
             op = "free_id" => id \in Id, CallLocked(t, op, id, who)
      PROVE  LocInv!(u)'
  BY <1>0, <1>b DEF CallLocked, LocInv, Entered, Critical, Idle
<1>c. ASSUME NEW t \in Thread, NEW id, NEW e \in Entry, CallRead(t, id, e)
      PROVE  LocInv!(u)'
  BY <1>0, <1>c DEF CallRead, LocInv, Entered, Critical, Idle
<1>d. ASSUME pc' = pc, loc' = loc PROVE LocInv!(u)'
  BY <1>d DEF LocInv
<1>e. ASSUME NEW t \in Thread, NEW e \in Entry, NEW who, Allocate(t, e, who),
             pc[t] \in {"find", "new_ctx"}
      PROVE  LocInv!(u)'
  BY <1>0, <1>e DEF Allocate, LocInv, Entered, Critical, Local
<1>1. ASSUME NEW t \in Thread, Call(t) PROVE LocInv!(u)'
  <2>1. ASSUME NEW id \in 0..MaxId, FastGet(t, id) PROVE LocInv!(u)'
    BY <2>1, <1>c DEF FastGet, TypeOK
  <2>2. ASSUME NEW id \in 0..MaxId, SlowGet(t, id) PROVE LocInv!(u)'
    BY <2>2, <1>b DEF SlowGet, Entered, Critical
  <2>3. ASSUME NEW id \in 0..MaxId, StaticGet(t, id) PROVE LocInv!(u)'
    BY <2>3, <1>c DEF StaticGet, TypeOK
  <2>4. ASSUME NEW id \in 0..MaxId, CallFreeId(t, id) PROVE LocInv!(u)'
    BY <2>4, <1>b, PublishedType DEF CallFreeId, Entered, Critical
  <2>5. ASSUME NEW id \in 0..MaxId, NEW w \in Thread, GetOther(t, id, w)
        PROVE  LocInv!(u)'
    BY <2>5, <1>b DEF GetOther, Entered, Critical
  <2>6. CASE CallAllocateId(t)
    BY <2>6, <1>b DEF CallAllocateId, Entered, Critical
  <2>7. CASE CallFreeThread(t)
    BY <2>7, <1>b DEF CallFreeThread, Entered, Critical
  <2>8. CASE CallFreeWorkers(t)
    BY <2>8, <1>b DEF CallFreeWorkers, Entered, Critical
  <2>9. CASE CallNewContext(t)
    BY <2>9, <1>b DEF CallNewContext, Entered, Critical
  <2>10. CASE CacheUpdate(t) \/ ThreadExit(t) \/ LeaveContext(t)
    BY <2>10, <1>d DEF CacheUpdate, ThreadExit, LeaveContext
  <2>11. ASSUME NEW e \in Entry, EnterContext(t, e) \/ FreeContext(t, e)
                              \/ FreeContextCrashes(t, e)
         PROVE  LocInv!(u)'
    BY <2>11, <1>d DEF EnterContext, FreeContext, FreeContextCrashes
  <2> QED
    BY <1>1, <2>1, <2>2, <2>3, <2>4, <2>5, <2>6, <2>7, <2>8, <2>9, <2>10,
       <2>11 DEF Call
<1>2. ASSUME NEW t \in Thread, Lock(t) PROVE LocInv!(u)'
  BY <1>0, <1>2 DEF Lock, LocInv, Entered, Critical, Local
<1>3. ASSUME NEW t \in Thread, Step(t) PROVE LocInv!(u)'
  <2>1. CASE Find(t)
    <3>1. PICK e \in Entries(loc[t].who) : loc' = [loc EXCEPT ![t].e = e]
      BY <2>1 DEF Find
    <3>2. e \in Entry
      BY <3>1, <1>0, ThreadAssumption DEF Entries, TypeOK, Local
    <3> QED
      BY <1>0, <2>1, <3>1, <3>2 DEF Find, LocInv, Entered, Critical, Local
  <2>2. CASE Load(t)
    BY <1>0, <2>2 DEF Load, LocInv, Entered, Critical, Local
  <2>3. ASSUME NEW e \in Entry, Create(t, e) \/ NewContext(t, e)
        PROVE  LocInv!(u)'
    BY <2>3, <1>e DEF Create, NewContext
  <2>4. ASSUME NEW e \in Entry, Enlarge(t, e) PROVE LocInv!(u)'
    BY <2>4, <1>d DEF Enlarge
  <2>5. ASSUME NEW i \in Id, BuildSlot(t, i) PROVE LocInv!(u)'
    BY <2>5, <1>d DEF BuildSlot
  <2>6. CASE Built(t)
    BY <1>0, <2>6 DEF Built, LocInv, Entered, Critical, Local
  <2>7. CASE Register(t)
    BY <1>0, <2>7, <1>a DEF Register, UnlockReturn, LocInv, Entered, Critical
  <2>8. CASE \/ Deref(t) \/ Enlarged(t) \/ FreeThread(t) \/ FreeWorkers(t)
             \/ FreeId(t) \/ Restore(t)
    BY <2>8, <1>a
    DEF Deref, Enlarged, FreeThread, FreeWorkers, FreeId, Restore, UnlockReturn
  <2>9. CASE Crash(t)
    BY <2>9, <1>d DEF Crash
  <2> QED
    BY <1>3, <2>1, <2>2, <2>3, <2>4, <2>5, <2>6, <2>7, <2>8, <2>9 DEF Step
<1>4. CASE Serve \/ Shutdown \/ UNCHANGED vars
  BY <1>4, <1>d DEF Serve, Shutdown, vars
<1> QED
  BY <1>1, <1>2, <1>3, <1>4 DEF Next, Terminated

LEMMA TypeStep == TypeOK /\ LocInv /\ [Next]_vars => TypeOK'
<1> SUFFICES ASSUME TypeOK, LocInv, [Next]_vars PROVE TypeOK'
  OBVIOUS
<1> USE ThreadAssumption, EntryAssumption, BoundAssumption
<1>1. ASSUME NEW t \in Thread, Call(t) PROVE TypeOK'
  <2>1. ASSUME NEW id \in 0..MaxId, FastGet(t, id) PROVE TypeOK'
    BY <2>1, CallReadType DEF FastGet, TypeOK
  <2>2. ASSUME NEW id \in 0..MaxId, SlowGet(t, id) PROVE TypeOK'
    BY <2>2, CallLockedType DEF SlowGet, Entered, Critical
  <2>3. ASSUME NEW id \in 0..MaxId, StaticGet(t, id) PROVE TypeOK'
    BY <2>3, CallReadType DEF StaticGet, TypeOK
  <2>4. ASSUME NEW id \in 0..MaxId, CallFreeId(t, id) PROVE TypeOK'
    BY <2>4, CallLockedType DEF CallFreeId, Entered, Critical
  <2>5. ASSUME NEW id \in 0..MaxId, NEW u \in Thread, GetOther(t, id, u)
        PROVE TypeOK'
    BY <2>5, CallLockedType DEF GetOther, Entered, Critical
  <2>6. CASE CallAllocateId(t)
    BY <2>6, CallLockedType DEF CallAllocateId, Entered, Critical
  <2>7. CASE CallFreeThread(t)
    BY <2>7, CallLockedType DEF CallFreeThread, Entered, Critical
  <2>8. CASE CallFreeWorkers(t)
    BY <2>8, CallLockedType DEF CallFreeWorkers, Entered, Critical
  <2>9. CASE CallNewContext(t)
    BY <2>9, CallLockedType DEF CallNewContext, Entered, Critical
  <2>10. CASE CacheUpdate(t)
    BY <2>10 DEF CacheUpdate, TypeOK, heap, types
  <2>11. CASE ThreadExit(t)
    BY <2>11 DEF ThreadExit, TypeOK, heap, types
  <2>12. CASE LeaveContext(t)
    BY <2>12 DEF LeaveContext, TypeOK, heap, types
  <2>13. ASSUME NEW e \in Entry, EnterContext(t, e) PROVE TypeOK'
    BY <2>13 DEF EnterContext, TypeOK, heap, types
  <2>14. ASSUME NEW e \in Entry, FreeContext(t, e) PROVE TypeOK'
    <3>1. Release({e})
      BY <2>14 DEF FreeContext, FreeEntries
    <3> QED
      BY <2>14, <3>1, ReleaseType DEF FreeContext, TypeOK, types
  <2>15. ASSUME NEW e \in Entry, FreeContextCrashes(t, e) PROVE TypeOK'
    BY <2>15 DEF FreeContextCrashes, TypeOK, heap, types
  <2> QED
    BY <1>1, <2>1, <2>2, <2>3, <2>4, <2>5, <2>6, <2>7, <2>8, <2>9, <2>10,
       <2>11, <2>12, <2>13, <2>14, <2>15 DEF Call
<1>2. ASSUME NEW t \in Thread, Lock(t) PROVE TypeOK'
  BY <1>2 DEF Lock, TypeOK, Local, Label, Entered, Critical, locals, heap, types
<1>3. ASSUME NEW t \in Thread, Step(t) PROVE TypeOK'
  <2>1. CASE Find(t)
    <3>1. PICK e \in Entries(loc[t].who) : loc' = [loc EXCEPT ![t].e = e]
      BY <2>1 DEF Find
    <3>2. e \in Entry
      BY <3>1 DEF Entries, TypeOK, Local
    <3>3. loc' \in [Thread -> Local]
      BY <3>1, <3>2, LocalUpdate
    <3> QED
      BY <2>1, <3>3 DEF Find, TypeOK, Label, locals, heap, types
  <2>2. CASE Load(t)
    <3>1. arr[loc[t].e] \in Nat
      BY <2>2 DEF Load, LocInv, TypeOK
    <3>2. loc' \in [Thread -> Local]
      BY <2>2, <3>1, LocalUpdate DEF Load
    <3> QED
      BY <2>2, <3>2 DEF Load, TypeOK, Label, locals, heap, types
  <2>3. CASE Deref(t)
    BY <2>3, ReturnType DEF Deref, TypeOK, locals, heap, types
  <2>4. ASSUME NEW e \in Entry, Create(t, e) PROVE TypeOK'
    <3>1. loc[t].who \in Thread
      BY DEF TypeOK, Local
    <3>2. table' \in [Bucket -> SUBSET Entry]
      BY <2>4, <3>1 DEF Create, TypeOK
    <3> QED
      BY <2>4, <3>1, <3>2, AllocateType DEF Create
  <2>5. ASSUME NEW e \in Entry, NewContext(t, e) PROVE TypeOK'
    BY <2>5, AllocateType DEF NewContext, TypeOK
  <2>6. ASSUME NEW e \in Entry, Enlarge(t, e) PROVE TypeOK'
    <3>1. arr' \in [Entry -> Nat]
      BY <2>6 DEF Enlarge, TypeOK
    <3>2. slot' \in [Entry -> [Id -> SlotState]]
      BY <2>6 DEF Enlarge, TypeOK, SlotState
    <3>3. count' \in [Entry -> 0..MaxId]
      BY <2>6 DEF Enlarge, TypeOK
    <3> QED
      BY <2>6, <3>1, <3>2, <3>3 DEF Enlarge, TypeOK, locals, types
  <2>7. ASSUME NEW i \in Id, BuildSlot(t, i) PROVE TypeOK'
    BY <2>7 DEF BuildSlot, TypeOK, SlotState, locals, types
  <2>8. CASE Built(t)
    <3>1. loc \in [Thread -> Local] /\ pc \in [Thread -> Label]
      BY DEF TypeOK
    <3>2. [loc EXCEPT ![t].e = Null] \in [Thread -> Local]
      BY LocalUpdate
    <3>3. loc' \in [Thread -> Local] /\ pc' \in [Thread -> Label]
      BY <2>8, <3>1, <3>2 DEF Built, Label
    <3> QED
      BY <2>8, <3>3 DEF Built, TypeOK, locals, heap, types
  <2>9. CASE Register(t)
    <3>1. idCount' \in 0..MaxId
      BY <2>9 DEF Register, TypeOK
    <3>2. CASE Return(t)
      BY <2>9, <3>1, <3>2, ReturnType
      DEF Register, UnlockReturn, TypeOK, locals, heap
    <3>3. CASE ~Return(t)
      BY <2>9, <3>1, <3>3
      DEF Register, UnlockReturn, TypeOK, Label, locals, heap
    <3> QED
      BY <3>2, <3>3
  <2>10. CASE Enlarged(t)
    BY <2>10, ReturnType DEF Enlarged, UnlockReturn, TypeOK, locals, heap, types
  <2>11. CASE FreeThread(t)
    <3>1. Entries(t) \in SUBSET Entry
      BY DEF Entries, TypeOK
    <3>2. Release(Entries(t)) /\ Return(t)
      BY <2>11 DEF FreeThread, FreeEntries, UnlockReturn
    <3> QED
      BY <2>11, <3>1, <3>2, ReleaseType, ReturnType
      DEF FreeThread, UnlockReturn, TypeOK, types
  <2>12. CASE FreeWorkers(t)
    <3>1. Workers(t) \in SUBSET Entry
      BY DEF Workers, TypeOK
    <3>2. Release(Workers(t)) /\ Return(t)
      BY <2>12 DEF FreeWorkers, FreeEntries, UnlockReturn
    <3> QED
      BY <2>12, <3>1, <3>2, ReleaseType, ReturnType
      DEF FreeWorkers, UnlockReturn, TypeOK, locals, types
  <2>13. CASE FreeId(t)
    <3>1. loc[t].id \in Id
      BY <2>13 DEF FreeId, LocInv
    <3>2. slot' \in [Entry -> [Id -> SlotState]]
      BY <2>13, <3>1 DEF FreeId, TypeOK, SlotState
    <3>3. Return(t)
      BY <2>13 DEF FreeId, UnlockReturn
    <3> QED
      BY <2>13, <3>1, <3>2, <3>3, ReturnType
      DEF FreeId, UnlockReturn, TypeOK, locals
  <2>14. CASE Restore(t)
    <3>1. loc[t].prev \in Pointer /\ loc[t].e \in Entry
      BY <2>14 DEF Restore, LocInv, TypeOK, Local
    <3> QED
      BY <2>14, <3>1, ReturnType DEF Restore, TypeOK, heap, types
  <2>15. CASE Crash(t)
    BY <2>15 DEF Crash, TypeOK, locals, heap, types
  <2> QED
    BY <1>3, <2>1, <2>2, <2>3, <2>4, <2>5, <2>6, <2>7, <2>8, <2>9, <2>10,
       <2>11, <2>12, <2>13, <2>14, <2>15 DEF Step
<1>4. CASE Serve
  BY <1>4 DEF Serve, TypeOK, locals, heap, types
<1>5. CASE Shutdown
  BY <1>5, ReleaseType, LinkedType DEF Shutdown, TypeOK, types
<1>6. CASE UNCHANGED vars
  BY <1>6 DEF vars, TypeOK
<1> QED
  BY <1>1, <1>2, <1>3, <1>4, <1>5, <1>6 DEF Next, Terminated

LEMMA InitTyped == Init => TypeOK /\ LocInv
<1> SUFFICES ASSUME Init PROVE TypeOK /\ LocInv
  OBVIOUS
<1>1. pc \in [Thread -> Label] /\ loc \in [Thread -> Local]
  BY IdleLocal DEF Init, Label
<1>2. /\ tls \in [Thread -> Pointer] /\ cache \in [Thread -> Pointer]
      /\ home \in [Thread -> Pointer] /\ ctx \in [Thread -> SUBSET Entry]
  BY DEF Init
<1>3. /\ table \in [Bucket -> SUBSET Entry] /\ used \in SUBSET Entry
      /\ owner \in [Entry -> Thread] /\ count \in [Entry -> 0..MaxId]
      /\ arr \in [Entry -> Nat] /\ slot \in [Entry -> [Id -> SlotState]]
  BY NoSlotsType, ThreadAssumption, BoundAssumption DEF Init
<1>4. /\ phase \in {"startup", "serve", "down", "crashed"}
      /\ mutex \in Thread \cup {NoThread}
      /\ idCount \in 0..MaxId /\ done \in SUBSET Id
  BY BoundAssumption DEF Init
<1>6. lost \in BOOLEAN
  BY DEF Init
<1>5. LocInv
  BY DEF Init, LocInv, Entered, Critical
<1> QED
  BY <1>1, <1>2, <1>3, <1>4, <1>5, <1>6 DEF TypeOK

THEOREM TypeCorrect == Spec => []TypeOK
<1>1. Init => TypeOK /\ LocInv
  BY InitTyped
<1>2. TypeOK /\ LocInv /\ [Next]_vars => TypeOK' /\ LocInv'
  BY TypeStep, LocStep
<1> QED
  BY <1>1, <1>2, PTL DEF Spec

-----------------------------------------------------------------------------
(* The mutex.                                                              *)

\* A thread is at a label between lock and unlock exactly when it holds the
\* mutex (LockDiscipline below: hence at most one thread is).
LockInv == \A t \in Thread : pc[t] \in Critical <=> mutex = t

LEMMA LockStep == TypeOK /\ LocInv /\ LockInv /\ [Next]_vars => LockInv'
<1> SUFFICES ASSUME TypeOK, LocInv, LockInv, [Next]_vars, NEW u \in Thread
             PROVE  LockInv!(u)'
  BY DEF LockInv
<1>0. pc \in [Thread -> Label] /\ NoThread \notin Thread
  BY ThreadAssumption DEF TypeOK
\* The three kinds of step: one that leaves the critical status of its thread
\* and the mutex alone, one that unlocks, and Lock.
<1>a. ASSUME NEW t \in Thread, NEW l, pc' = [pc EXCEPT ![t] = l],
             mutex' = mutex, l \in Critical <=> pc[t] \in Critical
      PROVE  LockInv!(u)'
  BY <1>0, <1>a DEF LockInv
<1>b. ASSUME NEW t \in Thread, NEW l, pc' = [pc EXCEPT ![t] = l],
             mutex' = NoThread, l \notin Critical, pc[t] \in Critical
      PROVE  LockInv!(u)'
  BY <1>0, <1>b DEF LockInv
<1>c. ASSUME pc' = pc, mutex' = mutex PROVE LockInv!(u)'
  BY <1>c DEF LockInv
<1>1. ASSUME NEW t \in Thread, Call(t) PROVE LockInv!(u)'
  <2>1. CASE \E id \in 0..MaxId :
                \/ FastGet(t, id) \/ SlowGet(t, id) \/ StaticGet(t, id)
                \/ CallFreeId(t, id)
                \/ \E w \in Thread : GetOther(t, id, w)
    BY <2>1, <1>a
    DEF FastGet, SlowGet, StaticGet, CallFreeId, GetOther, CallRead, CallLocked,
        MayCall, Critical
  <2>2. CASE \/ CallAllocateId(t) \/ CallFreeThread(t) \/ CallFreeWorkers(t)
             \/ CallNewContext(t)
    BY <2>2, <1>a
    DEF CallAllocateId, CallFreeThread, CallFreeWorkers, CallNewContext,
        CallLocked, MayCall, Critical
  <2>3. CASE \/ CacheUpdate(t) \/ ThreadExit(t) \/ LeaveContext(t)
             \/ \E e \in Entry : EnterContext(t, e) \/ FreeContext(t, e)
                              \/ FreeContextCrashes(t, e)
    BY <2>3, <1>c
    DEF CacheUpdate, ThreadExit, LeaveContext, EnterContext, FreeContext,
        FreeContextCrashes
  <2> QED
    BY <1>1, <2>1, <2>2, <2>3 DEF Call
<1>2. ASSUME NEW t \in Thread, Lock(t) PROVE LockInv!(u)'
  <2>1. loc[t].op \in Critical
    BY DEF TypeOK, Local, Entered
  <2> QED
    BY <1>0, <1>2, <2>1 DEF Lock, LockInv
<1>3. ASSUME NEW t \in Thread, Step(t) PROVE LockInv!(u)'
  <2>1. CASE \/ Load(t) \/ Deref(t) \/ Restore(t)
             \/ \E e \in Entry : Create(t, e) \/ NewContext(t, e)
    BY <2>1, <1>a
    DEF Load, Deref, Restore, Create, NewContext, Allocate, Return, Critical
  <2>2. CASE \/ Crash(t) \/ \E i \in Id : BuildSlot(t, i)
             \/ \E e \in Entry : Enlarge(t, e)
    BY <2>2, <1>c DEF Crash, BuildSlot, Enlarge
  <2>3. CASE Find(t) \/ Built(t) \/ Register(t)
    BY <2>3, <1>a, <1>b
    DEF Find, Built, Register, UnlockReturn, Return, Critical
  <2>4. CASE Enlarged(t) \/ FreeThread(t) \/ FreeWorkers(t) \/ FreeId(t)
    BY <2>4, <1>b
    DEF Enlarged, FreeThread, FreeWorkers, FreeId, UnlockReturn, Return, Critical
  <2> QED
    BY <1>3, <2>1, <2>2, <2>3, <2>4 DEF Step
<1>4. CASE Serve \/ Shutdown \/ UNCHANGED vars
  BY <1>4, <1>c DEF Serve, Shutdown, vars
<1> QED
  BY <1>1, <1>2, <1>3, <1>4 DEF Next, Terminated

\* At most one thread is between tsrm_mutex_lock and tsrm_mutex_unlock.
LockDiscipline ==
    \A t, u \in Thread : pc[t] \in Critical /\ pc[u] \in Critical => t = u

THEOREM MutualExclusion == Spec => []LockDiscipline
<1>1. Init => TypeOK /\ LocInv /\ LockInv
  BY InitTyped, ThreadAssumption DEF Init, LockInv, Critical
<1>2. TypeOK /\ LocInv /\ LockInv /\ [Next]_vars
         => TypeOK' /\ LocInv' /\ LockInv'
  BY TypeStep, LocStep, LockStep
<1>3. LockInv => LockDiscipline
  BY DEF LockInv, LockDiscipline
<1> QED
  BY <1>1, <1>2, <1>3, PTL DEF Spec

-----------------------------------------------------------------------------
(* The table: which entries are linked, and who else may hold one.         *)

\* Thread t has an interpreter context in the making.
InMaking(t) == pc[t] \in {"build", "restore"} /\ loc[t].op = "new_ctx"

TableInv ==
    /\ \A b \in Bucket : \A e \in table[b] : Hash[owner[e]] = b
    /\ \A e, f \in Linked : owner[e] = owner[f] => e = f
    /\ Linked \subseteq used
    /\ \A t \in Thread : ctx[t] \subseteq used \ Linked
    /\ \A t, u \in Thread : t # u => ctx[t] \cap ctx[u] = {}
    /\ \A t \in Thread : InMaking(t) =>
          /\ loc[t].e \in used \ Linked
          /\ \A u \in Thread :
                /\ loc[t].e \notin ctx[u]
                /\ u # t /\ InMaking(u) => loc[u].e # loc[t].e
    /\ \A e \in used \ Linked : \E t \in Thread :
          e \in ctx[t] \/ (InMaking(t) /\ loc[t].e = e)
    /\ \A t \in Thread :
          pc[t] = "build" /\ loc[t].op = "find" => loc[t].e \in Linked

LEMMA TableInvProperties == TypeOK /\ TableInv => UniqueEntry /\ NoOrphan
<1> SUFFICES ASSUME TypeOK, TableInv PROVE UniqueEntry /\ NoOrphan
  OBVIOUS
<1>1. UniqueEntry
  BY DEF TableInv, UniqueEntry, Linked
<1>2. NoOrphan
  BY DEF TableInv, NoOrphan, InMaking
<1> QED
  BY <1>1, <1>2

LEMMA TableInit == Init => TableInv
  BY DEF Init, TableInv, Linked, InMaking

\* A step that leaves the table, the memory and the contexts alone, and of
\* which no thread starts or drops an entry in the making.
Quiet(u) ==
    \/ pc'[u] = pc[u] /\ loc'[u] = loc[u]
    \/ ~InMaking(u) /\ pc'[u] \notin {"build", "restore"}
    \/ InMaking(u) /\ pc'[u] = "restore" /\ loc'[u] = loc[u]

LEMMA TableFrame ==
  ASSUME TableInv, UNCHANGED <<table, used, owner, ctx>>,
         \A u \in Thread : Quiet(u)
  PROVE  TableInv'
<1>1. Linked' = Linked
  BY DEF Linked
<1>2. \A u \in Thread : /\ InMaking(u)' <=> InMaking(u)
                        /\ InMaking(u) => loc'[u].e = loc[u].e
  BY DEF Quiet, InMaking
<1>3. \A u \in Thread : pc'[u] = "build" => pc[u] = "build" /\ loc'[u] = loc[u]
  BY DEF Quiet, InMaking
<1> QED
  BY <1>1, <1>2, <1>3 DEF TableInv

\* Linked entries leave the table and their memory is freed.
LEMMA UnlinkStep ==
  ASSUME TypeOK, TableInv, NEW S, S \subseteq Linked,
         \A b \in Bucket : table'[b] = table[b] \ S, used' = used \ S,
         \A e \in Entry \ S : owner'[e] = owner[e], ctx' = ctx,
         \A u \in Thread : Quiet(u) /\ ~(pc'[u] = "build" /\ loc'[u].op = "find")
  PROVE  TableInv'
<1>1. Linked' = Linked \ S
  BY DEF Linked
<1>2. S \subseteq Linked /\ Linked \subseteq Entry
  BY LinkedType
<1>3. \A u \in Thread : /\ InMaking(u)' <=> InMaking(u)
                        /\ InMaking(u) => loc'[u].e = loc[u].e
  BY DEF Quiet, InMaking
<1>4. \A c \in Bucket : \A e \in table'[c] : Hash[owner'[e]] = c
  <2> SUFFICES ASSUME NEW c \in Bucket, NEW e \in table'[c]
               PROVE  Hash[owner'[e]] = c
    OBVIOUS
  <2>1. e \in table[c] /\ e \in Linked'
    BY DEF TypeOK, Linked
  <2> QED
    BY <2>1, <1>1, <1>2 DEF TableInv
<1>5. \A e, f \in Linked' : owner'[e] = owner'[f] => e = f
  BY <1>1, <1>2 DEF TableInv
<1>6. \A t \in Thread : InMaking(t)' =>
          /\ loc'[t].e \in used' \ Linked'
          /\ \A u \in Thread :
                /\ loc'[t].e \notin ctx'[u]
                /\ u # t /\ InMaking(u)' => loc'[u].e # loc'[t].e
  BY <1>1, <1>2, <1>3 DEF TableInv
<1>7. \A e \in used' \ Linked' : \E t \in Thread :
          e \in ctx'[t] \/ (InMaking(t)' /\ loc'[t].e = e)
  BY <1>1, <1>2, <1>3 DEF TableInv
<1> QED
  BY <1>1, <1>2, <1>4, <1>5, <1>6, <1>7 DEF TableInv

\* ts_resource_ex adds an entry for a thread that has none in its bucket.
LEMMA CreateStep ==
  ASSUME TypeOK, LocInv, TableInv, NEW t \in Thread, NEW e \in Entry, Create(t, e)
  PROVE  TableInv'
<1> DEFINE who == loc[t].who
<1>0. /\ who \in Thread /\ Hash[who] \in Bucket /\ e \notin used
      /\ pc[t] = "find" /\ loc[t].op = "find" /\ Entries(who) = {}
  BY ThreadAssumption
  DEF TypeOK, Local, Create, Allocate, Available, LocInv, Entered, Critical
<1>1. Linked' = Linked \cup {e}
  <2>1. table' = [table EXCEPT ![Hash[who]] = @ \cup {e}]
    BY DEF Create
  <2> QED
    BY <2>1, <1>0 DEF TypeOK, Linked
<1>2. used' = used \cup {e} /\ owner' = [owner EXCEPT ![e] = who] /\ ctx' = ctx
  BY DEF Create, Allocate
<1>3. e \notin Linked /\ Linked \subseteq Entry /\ \A u \in Thread : e \notin ctx[u]
  BY <1>0, LinkedType DEF TableInv
<1>4. \A f \in Linked : owner[f] # who
  BY <1>0 DEF TableInv, Entries, Linked
<1>5. \A u \in Thread : /\ InMaking(u)' <=> InMaking(u)
                        /\ InMaking(u) => loc'[u].e = loc[u].e
  BY <1>0 DEF TypeOK, Create, Allocate, InMaking, Local
<1>6. \A b \in Bucket : \A f \in table'[b] : Hash[owner'[f]] = b
  <2> SUFFICES ASSUME NEW b \in Bucket, NEW f \in table'[b]
               PROVE  Hash[owner'[f]] = b
    OBVIOUS
  <2>1. f \in table[b] \/ (f = e /\ b = Hash[who])
    BY <1>0 DEF TypeOK, Create
  <2>2. CASE f \in table[b]
    <3>1. f # e /\ f \in Entry
      BY <2>2, <1>3 DEF Linked, TypeOK
    <3> QED
      BY <2>2, <3>1, <1>2 DEF TableInv, TypeOK
  <2>3. CASE f = e /\ b = Hash[who]
    BY <2>3, <1>2 DEF TypeOK
  <2> QED
    BY <2>1, <2>2, <2>3
<1>7. \A f, g \in Linked' : owner'[f] = owner'[g] => f = g
  BY <1>1, <1>2, <1>3, <1>4 DEF TableInv, TypeOK
<1>8. \A u \in Thread : pc'[u] = "build" /\ loc'[u].op = "find" => loc'[u].e \in Linked'
  BY <1>0, <1>1 DEF TableInv, Create, Allocate, TypeOK, Local
<1>9. \A u \in Thread : InMaking(u)' =>
          /\ loc'[u].e \in used' \ Linked'
          /\ \A v \in Thread :
                /\ loc'[u].e \notin ctx'[v]
                /\ v # u /\ InMaking(v)' => loc'[v].e # loc'[u].e
  BY <1>0, <1>1, <1>2, <1>5 DEF TableInv
<1>10. \A f \in used' \ Linked' : \E u \in Thread :
          f \in ctx'[u] \/ (InMaking(u)' /\ loc'[u].e = f)
  BY <1>1, <1>2, <1>5 DEF TableInv
<1>11. Linked' \subseteq used' /\ \A u \in Thread : ctx'[u] \subseteq used' \ Linked'
  BY <1>1, <1>2, <1>3 DEF TableInv
<1>12. \A u, v \in Thread : u # v => ctx'[u] \cap ctx'[v] = {}
  BY <1>2 DEF TableInv
<1> QED
  BY <1>6, <1>7, <1>8, <1>9, <1>10, <1>11, <1>12 DEF TableInv

\* The entries of one bucket that ts_free_thread or ts_free_worker_threads takes
\* are in no other bucket.
LEMMA OneBucket ==
  ASSUME TypeOK, TableInv, NEW t \in Thread, NEW S, S \subseteq table[Hash[t]],
         table' = [table EXCEPT ![Hash[t]] = @ \ S]
  PROVE  S \subseteq Linked /\ \A b \in Bucket : table'[b] = table[b] \ S
<1>1. Hash[t] \in Bucket
  BY ThreadAssumption
<1>2. \A c \in Bucket : c # Hash[t] => table[c] \cap S = {}
  BY <1>1 DEF TableInv
<1> QED
  BY <1>1, <1>2 DEF TypeOK, Linked

LEMMA FreeOwnStep ==
  ASSUME TypeOK, TableInv, LockInv, LocInv, NEW t \in Thread,
         FreeThread(t) \/ FreeWorkers(t)
  PROVE  TableInv'
<1>1. PICK S \in SUBSET table[Hash[t]] :
         /\ Release(S) /\ ctx' = ctx
         /\ table' = [table EXCEPT ![Hash[t]] = @ \ S]
  BY DEF FreeThread, FreeWorkers, FreeEntries, Entries, Workers, locals
<1>2. S \subseteq Linked /\ \A b \in Bucket : table'[b] = table[b] \ S
  BY <1>1, OneBucket
<1>3. mutex = t /\ pc[t] \in {"free_thread", "free_workers"} /\ Return(t)
  BY DEF FreeThread, FreeWorkers, UnlockReturn, LockInv, Critical
<1>4. \A u \in Thread : Quiet(u) /\ ~(pc'[u] = "build" /\ loc'[u].op = "find")
  BY <1>3 DEF Return, Quiet, InMaking, TypeOK, LockInv, Critical
<1> QED
  BY <1>1, <1>2, <1>4, UnlinkStep DEF Release

LEMMA ShutdownStep ==
  ASSUME TypeOK, TableInv, Shutdown
  PROVE  TableInv'
<1>1. \A b \in Bucket : table'[b] = table[b] \ Linked
  BY DEF Shutdown, Linked
<1>2. \A u \in Thread : Quiet(u) /\ ~(pc'[u] = "build" /\ loc'[u].op = "find")
  BY DEF Shutdown, Quiet
<1> QED
  BY <1>1, <1>2, UnlinkStep DEF Shutdown, Release

LEMMA NewContextStep ==
  ASSUME TypeOK, LocInv, TableInv, NEW t \in Thread, NEW e \in Entry,
         NewContext(t, e)
  PROVE  TableInv'
<1>0. /\ e \notin used /\ pc[t] = "new_ctx" /\ loc[t].op = "new_ctx"
      /\ table' = table /\ ctx' = ctx /\ used' = used \cup {e}
      /\ \A f \in Entry : f # e => owner'[f] = owner[f]
  BY DEF TypeOK, NewContext, Allocate, Available, LocInv, Entered, Critical
<1>1. Linked' = Linked /\ Linked \subseteq Entry
  BY <1>0, LinkedType DEF Linked
<1>2. e \notin Linked /\ \A u \in Thread : e \notin ctx[u]
  BY <1>0 DEF TableInv
<1>3. /\ InMaking(t)' /\ ~InMaking(t) /\ loc'[t].e = e
      /\ \A u \in Thread : u # t => /\ InMaking(u)' <=> InMaking(u)
                                   /\ loc'[u] = loc[u] /\ pc'[u] = pc[u]
  BY <1>0 DEF TypeOK, NewContext, Allocate, InMaking, Local
<1>4. /\ \A b \in Bucket : \A f \in table'[b] : Hash[owner'[f]] = b
      /\ \A f, g \in Linked' : owner'[f] = owner'[g] => f = g
  <2>1. \A f \in Linked : owner'[f] = owner[f]
    BY <1>0, <1>1, <1>2
  <2>2. \A b \in Bucket : \A f \in table'[b] : f \in Linked
    BY <1>0 DEF Linked
  <2> QED
    BY <1>0, <1>1, <2>1, <2>2 DEF TableInv
<1>5. \A u \in Thread : InMaking(u)' =>
          /\ loc'[u].e \in used' \ Linked'
          /\ \A v \in Thread :
                /\ loc'[u].e \notin ctx'[v]
                /\ v # u /\ InMaking(v)' => loc'[v].e # loc'[u].e
  BY <1>0, <1>1, <1>2, <1>3 DEF TableInv
<1>6. \A f \in used' \ Linked' : \E u \in Thread :
          f \in ctx'[u] \/ (InMaking(u)' /\ loc'[u].e = f)
  BY <1>0, <1>1, <1>3 DEF TableInv
<1>7. \A u \in Thread :
          pc'[u] = "build" /\ loc'[u].op = "find" => loc'[u].e \in Linked'
  BY <1>0, <1>1, <1>3 DEF TableInv, InMaking
<1> QED
  BY <1>0, <1>1, <1>2, <1>4, <1>5, <1>6, <1>7 DEF TableInv

LEMMA RestoreStep ==
  ASSUME TypeOK, LocInv, TableInv, NEW t \in Thread, Restore(t)
  PROVE  TableInv'
<1>0. /\ InMaking(t) /\ ~InMaking(t)' /\ pc'[t] = "idle"
      /\ table' = table /\ used' = used /\ owner' = owner
      /\ \A u \in Thread : u # t => /\ InMaking(u)' <=> InMaking(u)
                                   /\ loc'[u] = loc[u] /\ pc'[u] = pc[u]
                                   /\ ctx'[u] = ctx[u]
      /\ ctx'[t] = ctx[t] \cup {loc[t].e}
  BY DEF TypeOK, Restore, Return, InMaking, LocInv, heap
<1>1. Linked' = Linked
  BY <1>0 DEF Linked
<1>2. /\ loc[t].e \in used \ Linked
      /\ \A u \in Thread : loc[t].e \notin ctx[u]
      /\ \A u \in Thread : u # t /\ InMaking(u) => loc[u].e # loc[t].e
  BY <1>0 DEF TableInv
<1>3. \A u \in Thread : InMaking(u)' =>
          /\ loc'[u].e \in used' \ Linked'
          /\ \A v \in Thread :
                /\ loc'[u].e \notin ctx'[v]
                /\ v # u /\ InMaking(v)' => loc'[v].e # loc'[u].e
  BY <1>0, <1>1, <1>2 DEF TableInv
<1>4. \A f \in used' \ Linked' : \E u \in Thread :
          f \in ctx'[u] \/ (InMaking(u)' /\ loc'[u].e = f)
  BY <1>0, <1>1 DEF TableInv
<1>5. /\ \A u \in Thread : ctx'[u] \subseteq used' \ Linked'
      /\ \A u, v \in Thread : u # v => ctx'[u] \cap ctx'[v] = {}
  BY <1>0, <1>1, <1>2 DEF TableInv
<1>6. \A u \in Thread :
          pc'[u] = "build" /\ loc'[u].op = "find" => loc'[u].e \in Linked'
  BY <1>0, <1>1 DEF TableInv
<1> QED
  BY <1>0, <1>1, <1>3, <1>4, <1>5, <1>6 DEF TableInv

LEMMA FreeContextStep ==
  ASSUME TypeOK, TableInv, NEW t \in Thread, NEW e \in Entry, FreeContext(t, e)
  PROVE  TableInv'
<1>0. /\ e \in ctx[t] /\ table' = table /\ used' = used \ {e}
      /\ \A f \in Entry : f # e => owner'[f] = owner[f]
      /\ pc' = pc /\ loc' = loc
      /\ ctx'[t] = ctx[t] \ {e}
      /\ \A u \in Thread : u # t => ctx'[u] = ctx[u]
  BY DEF FreeContext, FreeEntries, Release, TypeOK
<1>1. Linked' = Linked /\ e \notin Linked /\ Linked \subseteq Entry
  BY <1>0, LinkedType DEF Linked, TableInv
<1>2. \A u \in Thread : /\ InMaking(u)' <=> InMaking(u)
                        /\ InMaking(u) => loc[u].e # e
  BY <1>0 DEF InMaking, TableInv
<1>3. /\ \A b \in Bucket : \A f \in table'[b] : Hash[owner'[f]] = b
      /\ \A f, g \in Linked' : owner'[f] = owner'[g] => f = g
  <2>1. \A f \in Linked : owner'[f] = owner[f]
    BY <1>0, <1>1
  <2>2. \A b \in Bucket : \A f \in table'[b] : f \in Linked
    BY <1>0 DEF Linked
  <2> QED
    BY <1>0, <1>1, <2>1, <2>2 DEF TableInv
<1>4. \A u \in Thread : InMaking(u)' =>
          /\ loc'[u].e \in used' \ Linked'
          /\ \A v \in Thread :
                /\ loc'[u].e \notin ctx'[v]
                /\ v # u /\ InMaking(v)' => loc'[v].e # loc'[u].e
  BY <1>0, <1>1, <1>2 DEF TableInv
<1>5. \A f \in used' \ Linked' : \E u \in Thread :
          f \in ctx'[u] \/ (InMaking(u)' /\ loc'[u].e = f)
  BY <1>0, <1>1, <1>2 DEF TableInv
<1>6. /\ \A u \in Thread : ctx'[u] \subseteq used' \ Linked'
      /\ \A u, v \in Thread : u # v => ctx'[u] \cap ctx'[v] = {}
  BY <1>0, <1>1 DEF TableInv
<1> QED
  BY <1>0, <1>1, <1>3, <1>4, <1>5, <1>6 DEF TableInv

LEMMA TableStep ==
  TypeOK /\ LocInv /\ LockInv /\ TableInv /\ [Next]_vars => TableInv'
<1> SUFFICES ASSUME TypeOK, LocInv, LockInv, TableInv, [Next]_vars
             PROVE  TableInv'
  OBVIOUS
<1>0. pc \in [Thread -> Label] /\ loc \in [Thread -> Local]
  BY DEF TypeOK
\* Thread t goes from a label outside an entry's making to another such label.
<1>a. ASSUME NEW t \in Thread, NEW l, l \notin {"build", "restore"}, ~InMaking(t),
             pc' = [pc EXCEPT ![t] = l],
             \A u \in Thread : u # t => loc'[u] = loc[u],
             UNCHANGED <<table, used, owner, ctx>>
      PROVE  TableInv'
  BY <1>0, <1>a, TableFrame DEF Quiet
<1>b. ASSUME pc' = pc, loc' = loc, UNCHANGED <<table, used, owner, ctx>>
      PROVE  TableInv'
  BY <1>b, TableFrame DEF Quiet
<1>1. ASSUME NEW t \in Thread, Call(t) PROVE TableInv'
  <2>a. ASSUME NEW op, NEW id, NEW who, pc[t] = "idle", CallLocked(t, op, id, who)
        PROVE  TableInv'
    BY <2>a, <1>0, <1>a DEF CallLocked, heap, locals, InMaking
  <2>b. ASSUME NEW id, NEW e, pc[t] = "idle", CallRead(t, id, e)
        PROVE  TableInv'
    BY <2>b, <1>0, <1>a DEF CallRead, heap, locals, InMaking
  <2>1. ASSUME NEW id \in 0..MaxId,
               \/ FastGet(t, id) \/ SlowGet(t, id) \/ StaticGet(t, id)
               \/ CallFreeId(t, id)
               \/ \E w \in Thread : GetOther(t, id, w)
        PROVE  TableInv'
    BY <2>1, <2>a, <2>b
    DEF FastGet, SlowGet, StaticGet, CallFreeId, GetOther, MayCall
  <2>2. CASE \/ CallAllocateId(t) \/ CallFreeThread(t) \/ CallFreeWorkers(t)
             \/ CallNewContext(t)
    BY <2>2, <2>a
    DEF CallAllocateId, CallFreeThread, CallFreeWorkers, CallNewContext, MayCall
  <2>3. CASE \/ CacheUpdate(t) \/ ThreadExit(t) \/ LeaveContext(t)
             \/ \E e \in Entry : EnterContext(t, e) \/ FreeContextCrashes(t, e)
    BY <2>3, <1>b DEF CacheUpdate, ThreadExit, LeaveContext, EnterContext,
           FreeContextCrashes, heap
  <2>4. ASSUME NEW e \in Entry, FreeContext(t, e) PROVE TableInv'
    BY <2>4, FreeContextStep
  <2> QED
    BY <1>1, <2>1, <2>2, <2>3, <2>4 DEF Call
<1>2. ASSUME NEW t \in Thread, Lock(t) PROVE TableInv'
  <2>1. loc[t].op \notin {"build", "restore"}
    BY <1>0 DEF Local, Entered, Critical
  <2> QED
    BY <1>2, <2>1, <1>a DEF Lock, heap, locals, InMaking
<1>3. ASSUME NEW t \in Thread, Step(t) PROVE TableInv'
  <2>1. CASE Find(t) \/ Load(t)
    BY <2>1, <1>0, <1>a DEF Find, Load, heap, locals, InMaking
  <2>2. CASE Deref(t) \/ Enlarged(t) \/ FreeId(t)
    BY <2>2, <1>0, <1>a
    DEF Deref, Enlarged, FreeId, UnlockReturn, Return, heap, locals, InMaking
  <2>3. ASSUME NEW e \in Entry, Create(t, e) \/ NewContext(t, e)
        PROVE  TableInv'
    BY <2>3, CreateStep, NewContextStep
  <2>4. CASE \/ Crash(t) \/ \E i \in Id : BuildSlot(t, i)
             \/ \E e \in Entry : Enlarge(t, e)
    BY <2>4, <1>b DEF Crash, BuildSlot, Enlarge, heap, locals
  <2>5. CASE Built(t)
    <3>1. CASE loc[t].op = "new_ctx"
      <4>1. \A u \in Thread : Quiet(u)
        BY <2>5, <3>1, <1>0 DEF Built, Quiet, InMaking
      <4> QED
        BY <2>5, <4>1, TableFrame DEF Built, heap, locals
    <3>2. CASE loc[t].op # "new_ctx"
      BY <2>5, <3>2, <1>0, <1>a DEF Built, InMaking, heap, locals
    <3> QED
      BY <3>1, <3>2
  <2>6. CASE Register(t)
    BY <2>6, <1>0, <1>a
    DEF Register, UnlockReturn, Return, InMaking, heap, locals
  <2>7. CASE FreeThread(t) \/ FreeWorkers(t)
    BY <2>7, FreeOwnStep
  <2>8. CASE Restore(t)
    BY <2>8, RestoreStep
  <2> QED
    BY <1>3, <2>1, <2>2, <2>3, <2>4, <2>5, <2>6, <2>7, <2>8 DEF Step
<1>4. CASE Serve \/ UNCHANGED vars
  BY <1>4, <1>b DEF Serve, vars, heap, locals
<1>5. CASE Shutdown
  BY <1>5, ShutdownStep
<1> QED
  BY <1>1, <1>2, <1>3, <1>4, <1>5 DEF Next, Terminated

-----------------------------------------------------------------------------
(* The resources: what the slots of a linked entry hold.                   *)

\* What slot i of a finished entry holds.
Right(i) == IF i \in done THEN "null" ELSE "live"

UnderConstruction(e) ==
    \E t \in Thread : pc[t] = "build" /\ loc[t].op = "find" /\ loc[t].e = e

ReadyInv ==
    /\ \A e \in Entry \ used : slot[e] = NoSlots
    /\ lost => \A t \in Thread : pc[t] # "enlarge"
    /\ \A t \in Thread : pc[t] = "enlarge" => idCount \notin done
    /\ \A e \in Linked : Known <= count[e] /\ count[e] <= idCount
    /\ \A e \in Linked : \A i \in 1..count[e] :
          \/ slot[e][i] = Right(i)
          \/ slot[e][i] = "none" /\ UnderConstruction(e)

LEMMA ReadyInit == Init => ReadyInv
  BY DEF Init, ReadyInv, Linked

LEMMA ReadyProperty == TypeOK /\ LockInv /\ ReadyInv => ReadyWhenNeeded
<1> SUFFICES ASSUME TypeOK, LockInv, ReadyInv, mutex = NoThread,
                    NEW e \in Linked, NEW i \in Published
             PROVE  i <= count[e] /\ slot[e][i] = IF i \in done THEN "null" ELSE "live"
  BY DEF ReadyWhenNeeded
<1>1. \A t \in Thread : pc[t] \notin Critical
  BY ThreadAssumption DEF LockInv
<1>2. ~UnderConstruction(e)
  BY <1>1 DEF UnderConstruction, Critical
<1>3. i \in Int /\ 1 <= i /\ i <= Known /\ Known \in Int
  BY PublishedType DEF Published
<1>4. count[e] \in Int /\ Known <= count[e]
  BY LinkedType DEF ReadyInv, TypeOK
<1>5. i \in 1..count[e]
  BY <1>3, <1>4
<1> QED
  BY <1>2, <1>5 DEF ReadyInv, Right

\* Steps that change nothing ReadyInv speaks of.
LEMMA ReadyFrame ==
  ASSUME TypeOK, ReadyInv,
         UNCHANGED <<table, used, slot, count, idCount, done, lost>>,
         \A u \in Thread : pc'[u] = "enlarge" <=> pc[u] = "enlarge",
         \A e \in Linked : UnderConstruction(e) => UnderConstruction(e)'
  PROVE  ReadyInv'
<1>1. Linked' = Linked /\ Known' = Known
  BY DEF Linked, Known
<1> QED
  BY <1>1 DEF ReadyInv, Right

\* An entry is added to the table, or is on its way to become a context.
LEMMA ReadyAllocate ==
  ASSUME TypeOK, LocInv, TableInv, ReadyInv, NEW t \in Thread, NEW e \in Entry,
         Create(t, e) \/ NewContext(t, e)
  PROVE  ReadyInv'
<1>0. /\ pc \in [Thread -> Label] /\ loc \in [Thread -> Local]
      /\ pc[t] \in {"find", "new_ctx"} /\ loc[t].op = pc[t]
      /\ e \notin used /\ used' = used \cup {e}
      /\ count' = [count EXCEPT ![e] = idCount]
      /\ slot' = slot /\ UNCHANGED <<idCount, done, lost>>
      /\ pc' = [pc EXCEPT ![t] = "build"]
      /\ loc'[t].e = e /\ loc'[t].op = loc[t].op
      /\ \A u \in Thread : u # t => loc'[u] = loc[u]
  <2>1. /\ pc \in [Thread -> Label] /\ loc \in [Thread -> Local]
        /\ pc[t] \in {"find", "new_ctx"} /\ loc[t].op = pc[t]
    BY DEF TypeOK, LocInv, Entered, Critical, Create, NewContext
  <2>2. PICK who : Allocate(t, e, who)
    BY DEF Create, NewContext
  <2>3. /\ loc'[t].e = e /\ loc'[t].op = loc[t].op
        /\ \A u \in Thread : u # t => loc'[u] = loc[u]
    BY <2>1, <2>2 DEF Allocate, Local
  <2> QED
    BY <2>1, <2>2, <2>3 DEF Allocate, Available, types
<1>1. Known' = Known /\ Known <= idCount /\ idCount \in Int
  <2>1. (\E u \in Thread : pc'[u] = "enlarge") <=> (\E u \in Thread : pc[u] = "enlarge")
    BY <1>0
  <2> QED
    BY <1>0, <2>1, PublishedType DEF Known, TypeOK
<1>2. /\ Linked' \subseteq Linked \cup {e}
      /\ e \in Linked' => pc[t] = "find"
  <2>1. CASE Create(t, e)
    <3>1. table' = [table EXCEPT ![Hash[loc[t].who]] = @ \cup {e}]
      BY <2>1 DEF Create
    <3> QED
      BY <2>1, <3>1 DEF Linked, TypeOK, Create
  <2>2. CASE NewContext(t, e)
    <3>1. table' = table /\ e \notin Linked
      BY <2>2, <1>0 DEF NewContext, TableInv
    <3> QED
      BY <3>1 DEF Linked
  <2> QED
    BY <2>1, <2>2
<1>3. \A f \in Linked : f \in Entry /\ f # e
  BY <1>0, LinkedType DEF TableInv
<1>4. \A f \in Linked : UnderConstruction(f) => UnderConstruction(f)'
  BY <1>0 DEF UnderConstruction
<1>5. e \in Linked' => UnderConstruction(e)'
  BY <1>0, <1>2 DEF UnderConstruction
<1>6. \A f \in Linked' : Known' <= count'[f] /\ count'[f] <= idCount'
  BY <1>0, <1>1, <1>2, <1>3 DEF ReadyInv, TypeOK
<1>7. \A f \in Linked' : \A i \in 1..count'[f] :
          \/ slot'[f][i] = Right(i)'
          \/ slot'[f][i] = "none" /\ UnderConstruction(f)'
  <2> SUFFICES ASSUME NEW f \in Linked', NEW i \in 1..count'[f]
               PROVE  \/ slot'[f][i] = Right(i)'
                      \/ slot'[f][i] = "none" /\ UnderConstruction(f)'
    OBVIOUS
  <2>1. CASE f = e
    <3>1. i \in Id /\ slot[e] = NoSlots
      BY <2>1, <1>0, BoundAssumption DEF ReadyInv, TypeOK
    <3> QED
      BY <2>1, <3>1, <1>0, <1>5 DEF NoSlots
  <2>2. CASE f # e
    <3>1. f \in Linked /\ i \in 1..count[f]
      BY <2>2, <1>0, <1>2, <1>3 DEF TypeOK
    <3> QED
      BY <3>1, <1>0, <1>4 DEF ReadyInv, Right
  <2> QED
    BY <2>1, <2>2
<1> QED
  BY <1>0, <1>6, <1>7 DEF ReadyInv

LEMMA ReadyBuildSlot ==
  ASSUME TypeOK, LocInv, LockInv, TableInv, ReadyInv, NEW t \in Thread,
         NEW i \in Id, BuildSlot(t, i)
  PROVE  ReadyInv'
<1> DEFINE e == loc[t].e
<1>0. /\ pc[t] = "build" /\ e \in Entry /\ e \in used
      /\ slot' = [slot EXCEPT ![e][i] = Right(i)]
      /\ UNCHANGED <<table, used, count, idCount, done, lost, pc, loc>>
  BY DEF BuildSlot, LocInv, TableInv, InMaking, Right, types
<1>1. Linked' = Linked /\ Known' = Known
  BY <1>0 DEF Linked, Known
<1>2. \A f \in Entry : UnderConstruction(f)' <=> UnderConstruction(f)
  BY <1>0 DEF UnderConstruction
<1>3. \A f \in Entry, j \in Id :
          slot'[f][j] = slot[f][j] \/ slot'[f][j] = Right(j)
  BY <1>0 DEF TypeOK
<1>4. \A f \in Entry : f # e => slot'[f] = slot[f]
  BY <1>0 DEF TypeOK
<1>5. \A f \in Linked' : \A j \in 1..count'[f] :
          \/ slot'[f][j] = Right(j)'
          \/ slot'[f][j] = "none" /\ UnderConstruction(f)'
  <2> SUFFICES ASSUME NEW f \in Linked, NEW j \in 1..count[f]
               PROVE  \/ slot'[f][j] = Right(j)
                      \/ slot'[f][j] = "none" /\ UnderConstruction(f)
    BY <1>0, <1>1, <1>2, LinkedType DEF Right
  <2>1. f \in Entry /\ j \in Id
    BY LinkedType, BoundAssumption DEF TypeOK
  <2> QED
    BY <2>1, <1>3 DEF ReadyInv
<1> QED
  BY <1>0, <1>1, <1>4, <1>5 DEF ReadyInv

\* The loop of allocate_new_resource is over.
LEMMA ReadyBuilt ==
  ASSUME TypeOK, LocInv, LockInv, ReadyInv, NEW t \in Thread, Built(t)
  PROVE  ReadyInv'
<1>0. /\ pc \in [Thread -> Label] /\ pc[t] = "build"
      /\ pc'[t] \in {"restore", "lock"}
      /\ \A u \in Thread : u # t => pc'[u] = pc[u] /\ loc'[u] = loc[u]
      /\ UNCHANGED <<table, used, slot, count, idCount, done, lost>>
  BY DEF TypeOK, Built, heap, types
<1>1. Linked' = Linked /\ Known' = Known
  <2>1. (\E u \in Thread : pc'[u] = "enlarge") <=> (\E u \in Thread : pc[u] = "enlarge")
    BY <1>0
  <2> QED
    BY <1>0, <2>1 DEF Linked, Known
<1>2. \A i \in 1..count[loc[t].e] : slot[loc[t].e][i] # "none"
  BY DEF Built
<1>3. \A e \in Linked : e # loc[t].e => ~UnderConstruction(e)
  BY <1>0 DEF UnderConstruction, LockInv, Critical
<1>4. \A e \in Linked : \A i \in 1..count[e] : slot[e][i] = Right(i)
  BY <1>2, <1>3 DEF ReadyInv
<1> QED
  BY <1>0, <1>1, <1>4 DEF ReadyInv, Right

\* ts_allocate_id: a new id, an entry that receives it, and the end.
LEMMA ReadyRegister ==
  ASSUME TypeOK, LockInv, ReadyInv, NEW t \in Thread, Register(t)
  PROVE  ReadyInv'
<1>0. /\ pc \in [Thread -> Label] /\ pc[t] = "register" /\ ~lost
      /\ idCount \in Int /\ idCount' = idCount + 1
      /\ UNCHANGED <<table, used, slot, count>>
      /\ \A e \in Linked : count[e] \in Int
  BY LinkedType DEF TypeOK, Register, heap
<1>1. Linked' = Linked
  BY <1>0 DEF Linked
<1>2. \A u \in Thread : pc[u] \notin {"enlarge", "build"}
  BY <1>0 DEF LockInv, Critical
<1>3. Known = idCount /\ \A e \in Linked : ~UnderConstruction(e)
  BY <1>0, <1>2 DEF Known, UnderConstruction
<1>4. CASE pc' = [pc EXCEPT ![t] = "enlarge"] /\ done' = done \ {idCount + 1} /\ lost' = lost
  <2>1. Known' = idCount
    BY <1>0, <1>4 DEF Known
  <2>2. \A e \in Linked : \A i \in 1..count[e] : Right(i)' = Right(i)
    BY <1>0, <1>3, <1>4 DEF Right, ReadyInv
  <2> QED
    BY <1>0, <1>1, <1>3, <1>4, <2>1, <2>2 DEF ReadyInv
<1>5. CASE lost' = TRUE /\ Return(t) /\ done' = done
  <2>1. \A u \in Thread : pc'[u] # "enlarge"
    BY <1>0, <1>2, <1>5 DEF Return
  <2>2. Known' = idCount
    BY <1>0, <1>5 DEF Known
  <2> QED
    BY <1>0, <1>1, <1>3, <1>5, <2>1, <2>2 DEF ReadyInv, Right
<1> QED
  BY <1>4, <1>5 DEF Register, UnlockReturn

LEMMA ReadyEnlarge ==
  ASSUME TypeOK, LockInv, TableInv, ReadyInv, NEW t \in Thread, NEW e \in Entry,
         Enlarge(t, e)
  PROVE  ReadyInv'
<1>0. /\ pc[t] = "enlarge" /\ ~lost /\ e \in Linked /\ count[e] < idCount
      /\ slot' = [slot EXCEPT ![e] =
                    [i \in Id |-> IF i \in (count[e] + 1)..idCount
                                  THEN "live" ELSE slot[e][i]]]
      /\ count' = [count EXCEPT ![e] = idCount]
      /\ UNCHANGED <<pc, loc, table, used, idCount, done, lost>>
      /\ idCount \in 0..MaxId /\ count[e] \in 0..MaxId /\ idCount \notin done
  BY DEF TypeOK, Enlarge, ReadyInv, types
<1>1. /\ Linked' = Linked /\ Known' = Known /\ Known = idCount - 1
      /\ Linked \subseteq used /\ Linked \subseteq Entry
  BY <1>0, LinkedType DEF Linked, Known, TableInv
<1>2. count[e] = idCount - 1
  BY <1>0, <1>1, BoundAssumption DEF ReadyInv
<1>3. \A f \in Linked : ~UnderConstruction(f)
  BY <1>0 DEF LockInv, UnderConstruction, Critical
<1>4. \A i \in 1..idCount : slot'[e][i] = Right(i)
  <2> SUFFICES ASSUME NEW i \in 1..idCount PROVE slot'[e][i] = Right(i)
    OBVIOUS
  <2>1. i \in Id /\ slot'[e][i] = IF i \in (count[e] + 1)..idCount
                                 THEN "live" ELSE slot[e][i]
    BY <1>0, BoundAssumption DEF TypeOK
  <2>2. CASE i = idCount
    BY <2>1, <2>2, <1>0, <1>2 DEF Right
  <2>3. CASE i # idCount
    <3>1. i \in 1..count[e] /\ i \notin (count[e] + 1)..idCount
      BY <2>3, <1>0, <1>2
    <3> QED
      BY <2>1, <3>1, <1>0, <1>3 DEF ReadyInv
  <2> QED
    BY <2>2, <2>3
<1>5. \A f \in Entry : f # e => slot'[f] = slot[f] /\ count'[f] = count[f]
  BY <1>0 DEF TypeOK
<1>6. count'[e] = idCount
  BY <1>0 DEF TypeOK
<1>7. \A f \in Linked' : \A i \in 1..count'[f] : slot'[f][i] = Right(i)'
  <2>1. Linked' = Linked /\ done' = done
    BY <1>0, <1>1
  <2> SUFFICES ASSUME NEW f \in Linked, NEW i \in 1..count'[f]
               PROVE  slot'[f][i] = Right(i)
    BY <2>1 DEF Right
  <2>2. CASE f = e
    BY <2>2, <1>4, <1>6
  <2>3. CASE f # e
    <3>1. f \in Entry /\ slot'[f] = slot[f] /\ i \in 1..count[f]
      BY <2>3, <1>1, <1>5
    <3> QED
      BY <3>1, <1>3 DEF ReadyInv
  <2> QED
    BY <2>2, <2>3
<1>8. \A f \in Linked' : Known' <= count'[f] /\ count'[f] <= idCount'
  BY <1>0, <1>1, <1>5, <1>6 DEF ReadyInv
<1>9. \A f \in Entry \ used' : slot'[f] = NoSlots
  BY <1>0, <1>1, <1>5 DEF ReadyInv
<1> QED
  BY <1>0, <1>7, <1>8, <1>9 DEF ReadyInv

LEMMA ReadyEnlarged ==
  ASSUME TypeOK, LockInv, ReadyInv, NEW t \in Thread, Enlarged(t)
  PROVE  ReadyInv'
<1>0. /\ pc \in [Thread -> Label] /\ pc[t] = "enlarge" /\ ~lost
      /\ UNCHANGED <<table, used, slot, count, idCount, done, lost>>
      /\ Return(t) /\ \A e \in Linked : count[e] >= idCount
  BY DEF TypeOK, Enlarged, UnlockReturn, ReadyInv, heap, types
<1>1. \A u \in Thread : pc[u] # "build" /\ (u # t => pc[u] # "enlarge")
  BY <1>0 DEF LockInv, Critical
<1>2. \A u \in Thread : pc'[u] # "enlarge"
  BY <1>0, <1>1 DEF Return
<1>3. Linked' = Linked /\ Known' = idCount
  BY <1>0, <1>2 DEF Linked, Known
<1>4. \A e \in Linked : ~UnderConstruction(e)
  BY <1>1 DEF UnderConstruction
<1> QED
  BY <1>0, <1>2, <1>3, <1>4 DEF ReadyInv, Right

LEMMA ReadyFreeId ==
  ASSUME TypeOK, LocInv, LockInv, TableInv, ReadyInv, NEW t \in Thread, FreeId(t)
  PROVE  ReadyInv'
<1> DEFINE id == loc[t].id
<1>0. /\ pc \in [Thread -> Label] /\ pc[t] = "free_id" /\ id \in Id
      /\ UNCHANGED <<table, used, count, idCount, lost>>
      /\ done' = done \cup {id} /\ Return(t)
      /\ slot' = [e \in Entry |-> IF e \in Linked /\ count[e] >= id
                                  THEN [slot[e] EXCEPT ![id] = "null"]
                                  ELSE slot[e]]
  BY DEF TypeOK, FreeId, UnlockReturn, LocInv
<1>1. \A u \in Thread : pc[u] \notin {"build", "enlarge"}
  BY <1>0 DEF LockInv, Critical
<1>2. \A u \in Thread : pc'[u] # "enlarge"
  BY <1>0, <1>1 DEF Return
<1>3. /\ Linked' = Linked /\ Known' = Known
      /\ Linked \subseteq used /\ Linked \subseteq Entry
  BY <1>0, <1>1, <1>2, LinkedType DEF Linked, Known, TableInv
<1>4. \A e \in Linked : \A i \in 1..count[e] : slot'[e][i] = Right(i)'
  <2> SUFFICES ASSUME NEW e \in Linked, NEW i \in 1..count[e]
               PROVE  slot'[e][i] = Right(i)'
    OBVIOUS
  <2>0. e \in Entry /\ count[e] \in 0..MaxId /\ i \in Id /\ slot[e] \in [Id -> SlotState]
    BY <1>3, BoundAssumption DEF TypeOK
  <2>1. slot[e][i] = Right(i)
    BY <1>1 DEF ReadyInv, UnderConstruction
  <2>2. CASE i = id
    <3>1. count[e] >= id
      BY <2>0, <2>2
    <3> QED
      BY <2>0, <2>2, <3>1, <1>0 DEF Right
  <2>3. CASE i # id
    BY <2>0, <2>1, <2>3, <1>0 DEF Right
  <2> QED
    BY <2>2, <2>3
<1>5. \A e \in Entry \ used' : slot'[e] = NoSlots
  BY <1>0, <1>3 DEF ReadyInv
<1> QED
  BY <1>0, <1>2, <1>3, <1>4, <1>5 DEF ReadyInv

\* Memory is freed of entries that are not, or no longer, linked.
LEMMA ReadyRelease ==
  ASSUME TypeOK, TableInv, ReadyInv, NEW S \in SUBSET Entry, Release(S),
         Linked' \subseteq Linked \ S, UNCHANGED <<idCount, done, lost>>,
         \A u \in Thread : pc'[u] = "enlarge" <=> pc[u] = "enlarge",
         \A e \in Linked : UnderConstruction(e) => UnderConstruction(e)'
  PROVE  ReadyInv'
<1>1. Known' = Known
  BY DEF Known
<1>2. \A e \in Linked' : e \in Linked /\ slot'[e] = slot[e] /\ count'[e] = count[e]
  BY LinkedType DEF Release
<1>3. \A e \in Entry \ used' : slot'[e] = NoSlots
  BY DEF Release, ReadyInv
<1>4. \A e \in Linked' : \A i \in 1..count'[e] :
          \/ slot'[e][i] = Right(i)'
          \/ slot'[e][i] = "none" /\ UnderConstruction(e)'
  BY <1>2 DEF ReadyInv, Right
<1>5. \A e \in Linked' : Known' <= count'[e] /\ count'[e] <= idCount'
  BY <1>1, <1>2 DEF ReadyInv
<1> QED
  BY <1>3, <1>4, <1>5 DEF ReadyInv

LEMMA ReadyFreeOwn ==
  ASSUME TypeOK, LockInv, TableInv, ReadyInv, NEW t \in Thread,
         FreeThread(t) \/ FreeWorkers(t)
  PROVE  ReadyInv'
<1>1. PICK S \in SUBSET table[Hash[t]] :
         Release(S) /\ table' = [table EXCEPT ![Hash[t]] = @ \ S]
  BY DEF FreeThread, FreeWorkers, FreeEntries, Entries, Workers
<1>2. S \subseteq Linked /\ \A b \in Bucket : table'[b] = table[b] \ S
  BY <1>1, OneBucket
<1>3. Linked' \subseteq Linked \ S /\ S \in SUBSET Entry
  BY <1>2, LinkedType DEF Linked
<1>4. /\ pc[t] \in {"free_thread", "free_workers"} /\ Return(t)
      /\ UNCHANGED <<idCount, done, lost>>
  BY DEF FreeThread, FreeWorkers, UnlockReturn, types
<1>5. /\ \A u \in Thread : pc'[u] = "enlarge" <=> pc[u] = "enlarge"
      /\ \A e \in Linked : ~UnderConstruction(e)
  BY <1>4 DEF LockInv, UnderConstruction, Critical, Return, TypeOK
<1> QED
  BY <1>1, <1>3, <1>4, <1>5, ReadyRelease

LEMMA ReadyStep ==
  /\ TypeOK /\ LocInv /\ LockInv /\ TableInv /\ ReadyInv /\ [Next]_vars
  => ReadyInv'
<1> SUFFICES ASSUME TypeOK, LocInv, LockInv, TableInv, ReadyInv, [Next]_vars
             PROVE  ReadyInv'
  OBVIOUS
<1>0. pc \in [Thread -> Label] /\ loc \in [Thread -> Local]
  BY DEF TypeOK
\* Thread t goes from one label to another at which nothing is built.
<1>a. ASSUME NEW t \in Thread, NEW l, pc' = [pc EXCEPT ![t] = l],
             l # "enlarge", pc[t] \notin {"enlarge", "build"},
             \A u \in Thread : u # t => loc'[u] = loc[u],
             UNCHANGED <<table, used, slot, count, idCount, done, lost>>
      PROVE  ReadyInv'
  <2>1. \A e \in Linked : UnderConstruction(e) => UnderConstruction(e)'
    BY <1>a, <1>0 DEF UnderConstruction
  <2> QED
    BY <1>a, <1>0, <2>1, ReadyFrame
<1>b. ASSUME pc' = pc, loc' = loc,
             UNCHANGED <<table, used, slot, count, idCount, done, lost>>
      PROVE  ReadyInv'
  BY <1>b, ReadyFrame DEF UnderConstruction
<1>1. ASSUME NEW t \in Thread, Call(t) PROVE ReadyInv'
  <2>a. ASSUME NEW op, NEW id, NEW who, pc[t] = "idle", CallLocked(t, op, id, who)
        PROVE  ReadyInv'
    BY <2>a, <1>0, <1>a DEF CallLocked, heap, types
  <2>b. ASSUME NEW id, NEW e, pc[t] = "idle", CallRead(t, id, e)
        PROVE  ReadyInv'
    BY <2>b, <1>0, <1>a DEF CallRead, heap, types
  <2>1. ASSUME NEW id \in 0..MaxId,
               \/ FastGet(t, id) \/ SlowGet(t, id) \/ StaticGet(t, id)
               \/ CallFreeId(t, id)
               \/ \E w \in Thread : GetOther(t, id, w)
        PROVE  ReadyInv'
    BY <2>1, <2>a, <2>b
    DEF FastGet, SlowGet, StaticGet, CallFreeId, GetOther, MayCall
  <2>2. CASE \/ CallAllocateId(t) \/ CallFreeThread(t) \/ CallFreeWorkers(t)
             \/ CallNewContext(t)
    BY <2>2, <2>a
    DEF CallAllocateId, CallFreeThread, CallFreeWorkers, CallNewContext, MayCall
  <2>3. CASE \/ CacheUpdate(t) \/ ThreadExit(t) \/ LeaveContext(t)
             \/ \E e \in Entry : EnterContext(t, e) \/ FreeContextCrashes(t, e)
    BY <2>3, <1>b
    DEF CacheUpdate, ThreadExit, LeaveContext, EnterContext, FreeContextCrashes,
        heap, types
  <2>4. ASSUME NEW e \in Entry, FreeContext(t, e) PROVE ReadyInv'
    <3>1. /\ Release({e}) /\ table' = table /\ e \notin Linked
          /\ pc' = pc /\ loc' = loc /\ UNCHANGED <<idCount, done, lost>>
      BY <2>4 DEF FreeContext, FreeEntries, TableInv, types
    <3>2. Linked' \subseteq Linked \ {e}
      BY <3>1 DEF Linked
    <3>3. \A f \in Linked : UnderConstruction(f) => UnderConstruction(f)'
      BY <3>1 DEF UnderConstruction
    <3> QED
      BY <3>1, <3>2, <3>3, ReadyRelease
  <2> QED
    BY <1>1, <2>1, <2>2, <2>3, <2>4 DEF Call
<1>2. ASSUME NEW t \in Thread, Lock(t) PROVE ReadyInv'
  <2>1. loc[t].op # "enlarge"
    BY <1>0 DEF Local, Entered, Critical
  <2> QED
    BY <1>2, <2>1, <1>a DEF Lock, heap, types
<1>3. ASSUME NEW t \in Thread, Step(t) PROVE ReadyInv'
  <2>1. CASE Find(t) \/ Load(t)
    BY <2>1, <1>0, <1>a DEF Find, Load, heap, types
  <2>2. CASE Deref(t) \/ Restore(t)
    BY <2>2, <1>0, <1>a DEF Deref, Restore, Return, heap, types
  <2>3. ASSUME NEW e \in Entry, Create(t, e) \/ NewContext(t, e)
        PROVE  ReadyInv'
    BY <2>3, ReadyAllocate
  <2>4. CASE Crash(t)
    BY <2>4, <1>b DEF Crash, heap, types
  <2>5. ASSUME NEW i \in Id, BuildSlot(t, i) PROVE ReadyInv'
    BY <2>5, ReadyBuildSlot
  <2>6. ASSUME NEW e \in Entry, Enlarge(t, e) PROVE ReadyInv'
    BY <2>6, ReadyEnlarge
  <2>7. CASE Built(t) \/ Register(t) \/ Enlarged(t) \/ FreeId(t)
    BY <2>7, ReadyBuilt, ReadyRegister, ReadyEnlarged, ReadyFreeId
  <2>8. CASE FreeThread(t) \/ FreeWorkers(t)
    BY <2>8, ReadyFreeOwn
  <2> QED
    BY <1>3, <2>1, <2>2, <2>3, <2>4, <2>5, <2>6, <2>7, <2>8 DEF Step
<1>4. CASE Serve \/ UNCHANGED vars
  BY <1>4, <1>b DEF Serve, vars, heap, types
<1>5. CASE Shutdown
  <2>1. /\ Release(Linked) /\ \A b \in Bucket : table'[b] = {}
        /\ pc' = pc /\ loc' = loc /\ UNCHANGED <<idCount, done, lost>>
    BY <1>5 DEF Shutdown, types
  <2>2. Linked' \subseteq Linked \ Linked
    BY <2>1 DEF Linked
  <2>3. \A f \in Linked : UnderConstruction(f) => UnderConstruction(f)'
    BY <2>1 DEF UnderConstruction
  <2> QED
    BY <2>1, <2>2, <2>3, ReadyRelease, LinkedType
<1> QED
  BY <1>1, <1>2, <1>3, <1>4, <1>5 DEF Next, Terminated

-----------------------------------------------------------------------------
(* The inductive invariant and the theorems.                               *)

IInv == TypeOK /\ LocInv /\ LockInv /\ TableInv /\ ReadyInv

LEMMA IInvInit == Init => IInv
<1>1. Init => LockInv
  BY ThreadAssumption DEF Init, LockInv, Critical
<1> QED
  BY <1>1, InitTyped, TableInit, ReadyInit DEF IInv

LEMMA IInvStep == IInv /\ [Next]_vars => IInv'
  BY TypeStep, LocStep, LockStep, TableStep, ReadyStep DEF IInv

\* No thread ever has two entries in the table, and every linked entry is in
\* its owner's bucket.
THEOREM EntriesUnique == Spec => []UniqueEntry
<1>1. IInv => UniqueEntry
  BY TableInvProperties DEF IInv
<1> QED
  BY <1>1, IInvInit, IInvStep, PTL DEF Spec

\* Linked entries are allocated, and allocated entries are linked or belong to
\* an interpreter context.
THEOREM NothingOrphaned == Spec => []NoOrphan
<1>1. IInv => NoOrphan
  BY TableInvProperties DEF IInv
<1> QED
  BY <1>1, IInvInit, IInvStep, PTL DEF Spec

\* Whenever the mutex is free, every linked entry holds a constructed resource
\* for every id in use and NULL for every retired one.
THEOREM ResourcesReady == Spec => []ReadyWhenNeeded
<1>1. IInv => ReadyWhenNeeded
  BY ReadyProperty DEF IInv
<1> QED
  BY <1>1, IInvInit, IInvStep, PTL DEF Spec

-----------------------------------------------------------------------------
(* Tsrm implements ResourceMap.  Five kinds of step change the map: the     *)
(* unlock that ends the building of a linked entry, the return of           *)
(* ts_allocate_id, ts_free_id, the two calls that free entries, and         *)
(* tsrm_shutdown.  Every other step is a stutter.                           *)

HIDE DEF Id, Pointer

\* The map: which threads have an entry that is built, and what is in it.
Attached == {t \in Thread : Finished(t) # {}}
Resources == [t \in Thread |->
                {i \in Published : \E e \in Finished(t) : slot[e][i] = "live"}]

LEMMA MapVars == Map!mapVars = <<Known, done, Attached, Resources>>
  BY DEF Map!mapVars, Attached, Resources

\* Somebody is in the loop of allocate_new_resource for entry e.
Open(e) == \E u \in Thread : pc[u] = "build" /\ loc[u].e = e

\* A bucket search finds exactly the entries with the right owner.
LEMMA FinishedIs ==
  ASSUME IInv, NEW t \in Thread
  PROVE  Finished(t) = {e \in Linked : owner[e] = t /\ ~Open(e)}
<1>1. Hash[t] \in Bucket
  BY ThreadAssumption
<1>2. Entries(t) = {e \in Linked : owner[e] = t}
  BY <1>1 DEF Entries, Linked, IInv, TableInv
<1> QED
  BY <1>2 DEF Finished, Open

LEMMA AttachedIs ==
  IInv => Attached = {t \in Thread : \E e \in Linked : owner[e] = t /\ ~Open(e)}
  BY FinishedIs DEF Attached

\* What each thread has follows from who is attached: the resources of a built
\* entry are exactly the ids in use.
InUse == [t \in Thread |-> IF t \in Attached THEN Published \ done ELSE {}]

LEMMA ResourcesAre ==
  IInv => Resources = InUse
<1> SUFFICES ASSUME IInv, NEW t \in Thread
             PROVE  {i \in Published : \E e \in Finished(t) : slot[e][i] = "live"}
                       = IF t \in Attached THEN Published \ done ELSE {}
  BY DEF Resources, InUse
<1>1. ASSUME NEW e \in Finished(t), NEW i \in Published
      PROVE  slot[e][i] = "live" <=> i \notin done
  <2>1. e \in Linked /\ ~UnderConstruction(e)
    BY <1>1, FinishedIs DEF Open, UnderConstruction
  <2>2. count[e] \in Int /\ Known <= count[e] /\ Known \in Int
    BY <2>1, LinkedType, PublishedType DEF IInv, ReadyInv, TypeOK
  <2>3. i \in 1..count[e]
    BY <2>2 DEF Published
  <2> QED
    BY <2>1, <2>3 DEF IInv, ReadyInv, Right
<1> QED
  BY <1>1 DEF Attached

-----------------------------------------------------------------------------
(* What the map needs to know besides IInv: calls speak of ids that have    *)
(* been handed out, so that an id that is about to be is not retired.       *)

IdsInv ==
    /\ Known \in Nat
    /\ done \subseteq Published
    /\ \A t \in Thread : loc[t].id \in Published \cup {0}

LEMMA KnownFrame ==
  ASSUME UNCHANGED <<idCount, lost>>,
         \A u \in Thread : pc'[u] = "enlarge" <=> pc[u] = "enlarge"
  PROVE  Known' = Known /\ Published' = Published
  BY DEF Known, Published

\* Ids stay known: Known grows, by one, when ts_allocate_id returns.
LEMMA KnownRegister ==
  ASSUME IInv, NEW t \in Thread, Register(t)
  PROVE  Known' = Known /\ Known = idCount
<1>0. /\ pc \in [Thread -> Label] /\ pc[t] = "register" /\ ~lost
      /\ idCount \in Int /\ idCount' = idCount + 1
  BY DEF IInv, TypeOK, Register
<1>1. \A u \in Thread : pc[u] # "enlarge"
  BY <1>0 DEF IInv, LockInv, Critical
<1>2. CASE pc' = [pc EXCEPT ![t] = "enlarge"] /\ lost' = lost
  BY <1>0, <1>1, <1>2 DEF Known
<1>3. CASE lost' = TRUE
  BY <1>0, <1>1, <1>3 DEF Known
<1> QED
  BY <1>2, <1>3 DEF Register

LEMMA KnownEnlarged ==
  ASSUME IInv, NEW t \in Thread, Enlarged(t)
  PROVE  /\ Known = idCount - 1 /\ Known' = idCount /\ idCount' = idCount
         /\ ~lost /\ idCount \in 0..MaxId
<1>0. /\ pc \in [Thread -> Label] /\ pc[t] = "enlarge" /\ ~lost
      /\ Return(t) /\ UNCHANGED <<idCount, lost>>
      /\ idCount \in 0..MaxId
  BY DEF IInv, TypeOK, Enlarged, UnlockReturn, ReadyInv, types
<1>1. \A u \in Thread : u # t => pc[u] # "enlarge"
  BY <1>0 DEF IInv, LockInv, Critical
<1>2. \A u \in Thread : pc'[u] # "enlarge"
  BY <1>0, <1>1 DEF Return
<1> QED
  BY <1>0, <1>2 DEF Known

\* The id that ts_free_id is about to free has been handed out.
LEMMA IdToFree ==
  ASSUME IInv, IdsInv, NEW t \in Thread, pc[t] = "free_id"
  PROVE  loc[t].id \in Published
<1>1. loc[t].id \in Id /\ 0 \notin Id
  BY BoundAssumption DEF IInv, LocInv, Id
<1> QED
  BY <1>1 DEF IdsInv

\* The id that ts_allocate_id is about to hand out is not retired.
LEMMA FreshNotDone ==
  ASSUME IdsInv
  PROVE  Known + 1 \notin done
<1>1. Known \in Nat /\ done \subseteq 1..Known
  BY DEF IdsInv, Published
<1>2. \A n \in Nat : n + 1 \notin 1..n
  OBVIOUS
<1> QED
  BY <1>1, <1>2

LEMMA IdsKeep ==
  ASSUME IdsInv, Known' \in Nat, Known <= Known', done' \subseteq Published',
         \A t \in Thread : \/ loc'[t].id = loc[t].id
                           \/ loc'[t].id \in Published \cup {0}
  PROVE  IdsInv'
  BY DEF IdsInv, Published

\* The ids of a step that hands out none and retires none.
LEMMA IdsFrame ==
  ASSUME IdsInv, UNCHANGED <<idCount, done, lost>>,
         \A u \in Thread : pc'[u] = "enlarge" <=> pc[u] = "enlarge",
         \A t \in Thread : \/ loc'[t].id = loc[t].id
                           \/ loc'[t].id \in Published \cup {0}
  PROVE  IdsInv'
  BY IdsKeep, KnownFrame DEF IdsInv

\* A call in progress keeps its id, or ends.
LEMMA IdOfStep ==
  ASSUME IInv, NEW t \in Thread, Step(t) \/ Lock(t), NEW u \in Thread
  PROVE  loc'[u].id = loc[u].id \/ loc'[u].id = 0
<1>0. loc \in [Thread -> Local]
  BY DEF IInv, TypeOK
<1>a. ASSUME loc' = loc PROVE loc'[u].id = loc[u].id
  BY <1>a
<1>b. ASSUME Return(t) PROVE loc'[u].id = loc[u].id \/ loc'[u].id = 0
  BY <1>0, <1>b DEF Return, Idle
<1>1. CASE \/ Lock(t) \/ Crash(t) \/ \E i \in Id : BuildSlot(t, i)
           \/ \E e \in Entry : Enlarge(t, e)
  BY <1>1, <1>a DEF Lock, Crash, BuildSlot, Enlarge
<1>2. CASE \/ Deref(t) \/ Restore(t) \/ FreeThread(t) \/ FreeWorkers(t)
           \/ FreeId(t) \/ Enlarged(t)
  BY <1>2, <1>b
  DEF Deref, Restore, FreeThread, FreeWorkers, FreeId, Enlarged, UnlockReturn
<1>3. CASE Register(t)
  BY <1>3, <1>a, <1>b DEF Register, UnlockReturn
<1>4. CASE Find(t) \/ Load(t) \/ Built(t)
  BY <1>0, <1>4 DEF Find, Load, Built, Local
<1>5. CASE \E e \in Entry : Create(t, e) \/ NewContext(t, e)
  BY <1>0, <1>5 DEF Create, NewContext, Allocate, Local
<1> QED
  BY <1>1, <1>2, <1>3, <1>4, <1>5 DEF Step

LEMMA IdOfCall ==
  ASSUME IInv, NEW t \in Thread, Call(t), NEW u \in Thread
  PROVE  loc'[u].id = loc[u].id \/ loc'[u].id \in Published \cup {0}
<1>0. loc \in [Thread -> Local]
  BY DEF IInv, TypeOK
<1>1. ASSUME NEW op, NEW id \in Published \cup {0}, NEW who, CallLocked(t, op, id, who)
      PROVE  loc'[u].id = loc[u].id \/ loc'[u].id \in Published \cup {0}
  BY <1>0, <1>1 DEF CallLocked, Idle
<1>2. ASSUME NEW id \in Published \cup {0}, NEW e, CallRead(t, id, e)
      PROVE  loc'[u].id = loc[u].id \/ loc'[u].id \in Published \cup {0}
  BY <1>0, <1>2 DEF CallRead, Idle
<1>3. CASE \/ CacheUpdate(t) \/ ThreadExit(t) \/ LeaveContext(t)
           \/ \E e \in Entry : EnterContext(t, e) \/ FreeContext(t, e)
                            \/ FreeContextCrashes(t, e)
  BY <1>3 DEF CacheUpdate, ThreadExit, LeaveContext, EnterContext, FreeContext,
              FreeContextCrashes
<1>4. CASE \/ CallAllocateId(t) \/ CallFreeThread(t) \/ CallFreeWorkers(t)
           \/ CallNewContext(t)
  BY <1>1, <1>4
  DEF CallAllocateId, CallFreeThread, CallFreeWorkers, CallNewContext
<1>5. CASE \E id \in 0..MaxId :
              \/ FastGet(t, id) \/ SlowGet(t, id) \/ StaticGet(t, id)
              \/ CallFreeId(t, id)
              \/ \E w \in Thread : GetOther(t, id, w)
  BY <1>1, <1>2, <1>5 DEF FastGet, SlowGet, StaticGet, CallFreeId, GetOther
<1> QED
  BY <1>3, <1>4, <1>5 DEF Call

\* No step takes back an id that was handed out.
LEMMA KnownGrows ==
  ASSUME IInv, [Next]_vars
  PROVE  \/ \E t \in Thread : Register(t) \/ Enlarged(t)
         \/ /\ Known' = Known
            /\ \A u \in Thread : pc'[u] = "enlarge" <=> pc[u] = "enlarge"
            /\ UNCHANGED <<idCount, lost>>
<1>0. pc \in [Thread -> Label] /\ loc \in [Thread -> Local]
  BY DEF IInv, TypeOK
<1> SUFFICES ASSUME \A t \in Thread : ~Register(t) /\ ~Enlarged(t)
             PROVE  /\ \A u \in Thread : pc'[u] = "enlarge" <=> pc[u] = "enlarge"
                    /\ UNCHANGED <<idCount, lost>>
  BY KnownFrame
<1>1. ASSUME NEW t \in Thread, Call(t)
      PROVE  /\ \A u \in Thread : pc'[u] = "enlarge" <=> pc[u] = "enlarge"
             /\ UNCHANGED <<idCount, lost>>
  <2>1. CASE \E id \in 0..MaxId :
                \/ FastGet(t, id) \/ SlowGet(t, id) \/ StaticGet(t, id)
                \/ CallFreeId(t, id)
                \/ \E w \in Thread : GetOther(t, id, w)
    BY <1>0, <2>1
    DEF FastGet, SlowGet, StaticGet, CallFreeId, GetOther, CallRead, CallLocked,
        MayCall, types
  <2>2. CASE \/ CallAllocateId(t) \/ CallFreeThread(t) \/ CallFreeWorkers(t)
             \/ CallNewContext(t)
    BY <1>0, <2>2
    DEF CallAllocateId, CallFreeThread, CallFreeWorkers, CallNewContext,
        CallLocked, MayCall, types
  <2>3. CASE \/ CacheUpdate(t) \/ ThreadExit(t) \/ LeaveContext(t)
             \/ \E e \in Entry : EnterContext(t, e) \/ FreeContext(t, e)
                              \/ FreeContextCrashes(t, e)
    BY <2>3
    DEF CacheUpdate, ThreadExit, LeaveContext, EnterContext, FreeContext,
        FreeContextCrashes, types
  <2> QED
    BY <1>1, <2>1, <2>2, <2>3 DEF Call
<1>2. ASSUME NEW t \in Thread, Lock(t)
      PROVE  /\ \A u \in Thread : pc'[u] = "enlarge" <=> pc[u] = "enlarge"
             /\ UNCHANGED <<idCount, lost>>
  <2>1. loc[t].op # "enlarge"
    BY <1>0 DEF Local, Entered, Critical
  <2> QED
    BY <1>0, <1>2, <2>1 DEF Lock, types
<1>3. ASSUME NEW t \in Thread, Step(t)
      PROVE  /\ \A u \in Thread : pc'[u] = "enlarge" <=> pc[u] = "enlarge"
             /\ UNCHANGED <<idCount, lost>>
  <2>1. CASE \/ Find(t) \/ Load(t) \/ Deref(t) \/ Restore(t) \/ Built(t)
             \/ \E e \in Entry : Create(t, e) \/ NewContext(t, e)
    BY <1>0, <2>1
    DEF Find, Load, Deref, Restore, Built, Create, NewContext, Allocate, Return,
        types
  <2>2. CASE FreeThread(t) \/ FreeWorkers(t) \/ FreeId(t)
    BY <1>0, <2>2 DEF FreeThread, FreeWorkers, FreeId, UnlockReturn, Return, types
  <2>3. CASE \/ Crash(t) \/ \E i \in Id : BuildSlot(t, i)
             \/ \E e \in Entry : Enlarge(t, e)
    BY <2>3 DEF Crash, BuildSlot, Enlarge, types
  <2> QED
    BY <1>3, <2>1, <2>2, <2>3 DEF Step
<1>4. CASE Serve \/ Shutdown \/ UNCHANGED vars
  BY <1>4 DEF Serve, Shutdown, vars, types
<1> QED
  BY <1>1, <1>2, <1>3, <1>4 DEF Next, Terminated

\* What a step does to the retired ids.
LEMMA DoneStep ==
  ASSUME IInv, IdsInv, [Next]_vars
  PROVE  done' = done \/ \E i \in Published : done' = done \cup {i}
<1>1. ASSUME NEW t \in Thread, FreeId(t)
      PROVE  \E i \in Published : done' = done \cup {i}
  BY <1>1, IdToFree DEF FreeId
<1>2. ASSUME NEW t \in Thread, Register(t) PROVE done' = done
  <2>1. Known = idCount /\ idCount \in Int
    BY <1>2, KnownRegister DEF IInv, TypeOK
  <2> QED
    BY <1>2, <2>1, FreshNotDone DEF Register
<1>3. ASSUME NEW t \in Thread, Call(t) \/ Lock(t) PROVE done' = done
  BY <1>3
  DEF Call, FastGet, SlowGet, StaticGet, CallFreeId, GetOther, CallAllocateId,
      CallFreeThread, CallFreeWorkers, CallNewContext, CacheUpdate, ThreadExit,
      LeaveContext, EnterContext, FreeContext, FreeContextCrashes, CallRead,
      CallLocked, Lock, types
<1>4. ASSUME NEW t \in Thread, Step(t), ~FreeId(t), ~Register(t) PROVE done' = done
  BY <1>4
  DEF Step, Find, Load, Deref, Create, NewContext, Allocate, Enlarge, BuildSlot,
      Built, Enlarged, FreeThread, FreeWorkers, Restore, Crash, types
<1>5. CASE Serve \/ Shutdown \/ UNCHANGED vars
  BY <1>5 DEF Serve, Shutdown, vars, types
<1> QED
  BY <1>1, <1>2, <1>3, <1>4, <1>5 DEF Next, Terminated

LEMMA IdsStep == IInv /\ IdsInv /\ [Next]_vars => IdsInv'
<1> SUFFICES ASSUME IInv, IdsInv, [Next]_vars PROVE IdsInv'
  OBVIOUS
<1>1. Known' \in Nat /\ Known <= Known'
  <2>1. ASSUME NEW t \in Thread, Register(t) PROVE Known' = Known
    BY <2>1, KnownRegister
  <2>2. ASSUME NEW t \in Thread, Enlarged(t) PROVE Known' = Known + 1
    BY <2>2, KnownEnlarged DEF IInv, TypeOK
  <2> QED
    BY <2>1, <2>2, KnownGrows DEF IdsInv
<1>2. done' \subseteq Published'
  <2>1. Published \subseteq Published'
    BY <1>1 DEF IdsInv, Published
  <2> QED
    BY <2>1, DoneStep DEF IdsInv
<1>3. \A u \in Thread : \/ loc'[u].id = loc[u].id
                        \/ loc'[u].id \in Published \cup {0}
  BY IdOfStep, IdOfCall DEF Next, Terminated, Serve, Shutdown, vars
<1> QED
  BY <1>1, <1>2, <1>3, IdsKeep

LEMMA IdsInit == Init => IdsInv
  BY DEF Init, IdsInv, Known, Idle

-----------------------------------------------------------------------------
(* The steps of the map.                                                   *)

\* The state of the map is three things: the ids, the retired ones, and who is
\* attached.
LEMMA MapStutter ==
  ASSUME IInv, IInv', Known' = Known, done' = done, Attached' = Attached
  PROVE  UNCHANGED Map!mapVars
<1>1. (IInv => Resources = InUse)'
  BY ResourcesAre, PTL
<1>2. Resources' = Resources
  BY <1>1, ResourcesAre DEF InUse, Published
<1>3. (Map!mapVars = <<Known, done, Attached, Resources>>)'
  BY MapVars, PTL
<1> QED
  BY <1>2, <1>3, MapVars

LEMMA MapNewId ==
  ASSUME IInv, IInv', Known \in Nat, Known < MaxId, Known' = Known + 1, done' = done,
         Known + 1 \notin done, Attached' = Attached
  PROVE  Map!NewId
<1>1. (IInv => Resources = InUse)'
  BY ResourcesAre, PTL
<1>2. Published' = Published \cup {Known + 1}
  BY DEF Published
<1>3. Resources' = [t \in Thread |-> IF t \in Attached
                                     THEN Resources[t] \cup {Known + 1} ELSE {}]
  BY <1>1, <1>2, ResourcesAre DEF InUse
<1> QED
  BY <1>3 DEF Map!NewId, Attached, Resources

LEMMA MapRetire ==
  ASSUME IInv, IInv', NEW i \in Published, Known' = Known, done' = done \cup {i},
         Attached' = Attached
  PROVE  Map!Retire(i)
<1>1. (IInv => Resources = InUse)'
  BY ResourcesAre, PTL
<1>2. Resources' = [t \in Thread |-> Resources[t] \ {i}]
  BY <1>1, ResourcesAre DEF InUse, Published
<1> QED
  BY <1>2 DEF Map!Retire, Attached, Resources, Published

LEMMA MapAttach ==
  ASSUME IInv, IInv', NEW w \in Thread, w \notin Attached, Known' = Known, done' = done,
         Attached' = Attached \cup {w}
  PROVE  Map!Attach(w)
<1>1. (IInv => Resources = InUse)'
  BY ResourcesAre, PTL
<1>2. Resources' = [Resources EXCEPT ![w] = (1..Known) \ done]
  BY <1>1, ResourcesAre DEF InUse, Published
<1> QED
  BY <1>2 DEF Map!Attach, Attached, Resources

LEMMA MapDetach ==
  ASSUME IInv, IInv', NEW gone \in SUBSET Attached, Known' = Known, done' = done,
         Attached' = Attached \ gone
  PROVE  Map!Detach(gone)
<1>1. (IInv => Resources = InUse)'
  BY ResourcesAre, PTL
<1>2. Resources' = [t \in Thread |-> IF t \in gone THEN {} ELSE Resources[t]]
  BY <1>1, ResourcesAre DEF InUse, Published
<1> QED
  BY <1>2 DEF Map!Detach, Attached, Resources

-----------------------------------------------------------------------------
(* The steps of TSRM.                                                      *)

LEMMA AttachedStep ==
  ASSUME IInv, IInv'
  PROVE  Attached' = {t \in Thread : \E e \in Linked' : owner'[e] = t /\ ~Open(e)'}
<1>1. (IInv => Attached = {t \in Thread : \E e \in Linked : owner[e] = t /\ ~Open(e)})'
  BY AttachedIs, PTL
<1> QED
  BY <1>1

LEMMA AttachedKeep ==
  ASSUME IInv, IInv', table' = table,
         \A e \in Linked : owner'[e] = owner[e] /\ (Open(e)' <=> Open(e))
  PROVE  Attached' = Attached
<1>1. Linked' = Linked
  BY DEF Linked
<1> QED
  BY <1>1, AttachedIs, AttachedStep

\* Thread t goes from one label to another at which nothing is built.
LEMMA QuietMove ==
  ASSUME IInv, IInv', NEW t \in Thread, NEW l, pc' = [pc EXCEPT ![t] = l],
         l \notin {"build", "enlarge"}, pc[t] \notin {"build", "enlarge"},
         \A u \in Thread : u # t => loc'[u] = loc[u],
         UNCHANGED <<table, owner, idCount, done, lost>>
  PROVE  UNCHANGED Map!mapVars
<1>0. pc \in [Thread -> Label]
  BY DEF IInv, TypeOK
<1>1. \A e \in Linked : Open(e)' <=> Open(e)
  BY <1>0 DEF Open
<1>2. Attached' = Attached
  BY <1>1, AttachedKeep
<1>3. Known' = Known
  BY <1>0, KnownFrame
<1> QED
  BY <1>2, <1>3, MapStutter

\* Nobody moves, and the linked entries keep their owners.
LEMMA QuietStay ==
  ASSUME IInv, IInv', pc' = pc, loc' = loc, \A e \in Linked : owner'[e] = owner[e],
         UNCHANGED <<table, idCount, done, lost>>
  PROVE  UNCHANGED Map!mapVars
<1>1. Attached' = Attached
  BY AttachedKeep DEF Open
<1>2. Known' = Known
  BY KnownFrame
<1> QED
  BY <1>1, <1>2, MapStutter

\* A new entry does not count before it is built, a context never does.
LEMMA MapAllocate ==
  ASSUME IInv, IInv', NEW t \in Thread, NEW e \in Entry,
         Create(t, e) \/ NewContext(t, e)
  PROVE  UNCHANGED Map!mapVars
<1>0. /\ pc \in [Thread -> Label] /\ loc \in [Thread -> Local]
      /\ pc[t] \in {"find", "new_ctx"} /\ pc' = [pc EXCEPT ![t] = "build"]
      /\ e \notin used /\ UNCHANGED <<idCount, done, lost>>
      /\ Linked \subseteq used /\ Linked \subseteq Entry
  BY LinkedType
  DEF IInv, TypeOK, TableInv, Create, NewContext, Allocate, Available, types
<1>1. PICK who \in Thread : Allocate(t, e, who)
  BY <1>0 DEF Create, NewContext, Local
<1>2. /\ loc'[t].e = e /\ owner' = [owner EXCEPT ![e] = who]
      /\ \A u \in Thread : u # t => loc'[u] = loc[u] /\ pc'[u] = pc[u]
  BY <1>0, <1>1 DEF Allocate, Local
<1>3. Open(e)' /\ \A f \in Linked : owner'[f] = owner[f] /\ (Open(f)' <=> Open(f))
  BY <1>0, <1>2 DEF Open
<1>4. Linked' = Linked \/ Linked' = Linked \cup {e}
  <2>1. CASE Create(t, e)
    <3>1. Hash[loc[t].who] \in Bucket /\ table \in [Bucket -> SUBSET Entry]
      BY <1>0, ThreadAssumption DEF Local, IInv, TypeOK
    <3> QED
      BY <2>1, <3>1 DEF Create, Linked
  <2>2. CASE NewContext(t, e)
    BY <2>2 DEF NewContext, Linked
  <2> QED
    BY <2>1, <2>2
<1>5. Attached' = Attached
  BY <1>3, <1>4, AttachedIs, AttachedStep
<1>6. Known' = Known
  BY <1>0, KnownFrame
<1> QED
  BY <1>0, <1>5, <1>6, MapStutter

\* The end of the loop: a linked entry counts from here on.
LEMMA MapBuilt ==
  ASSUME IInv, IInv', NEW t \in Thread, Built(t)
  PROVE  UNCHANGED Map!mapVars \/ \E u \in Thread : Map!Attach(u)
<1> DEFINE e == loc[t].e
<1>0. /\ pc \in [Thread -> Label] /\ pc[t] = "build"
      /\ pc'[t] \in {"restore", "lock"} /\ e \in Entry
      /\ \A u \in Thread : u # t => pc'[u] = pc[u] /\ loc'[u] = loc[u]
      /\ UNCHANGED <<table, owner, idCount, done, lost>>
  BY DEF IInv, TypeOK, LocInv, Built, heap, types
<1>1. \A u \in Thread : u # t => pc[u] # "build"
  BY <1>0 DEF IInv, LockInv, Critical
<1>2. /\ \A f \in Linked : Open(f) <=> f = e
      /\ \A f \in Linked : ~Open(f)'
  BY <1>0, <1>1 DEF Open
<1>3. Known' = Known /\ done' = done /\ Linked' = Linked
  <2>1. \A u \in Thread : pc'[u] = "enlarge" <=> pc[u] = "enlarge"
    BY <1>0
  <2> QED
    BY <1>0, <2>1, KnownFrame DEF Linked
<1>4. CASE e \in Linked
  <2>0. PICK w \in Thread : w = owner[e]
    BY <1>0 DEF IInv, TypeOK
  <2>1. w \notin Attached
    BY <1>0, <1>2, <1>4, <2>0, AttachedIs DEF IInv, TableInv
  <2>2. Attached' = Attached \cup {w}
    BY <1>0, <1>2, <1>3, <1>4, <2>0, <2>1, AttachedIs, AttachedStep
  <2>3. Map!Attach(w)
    BY <1>3, <2>1, <2>2, MapAttach
  <2> QED
    BY <2>3
<1>5. CASE e \notin Linked
  <2>1. Attached' = Attached
    BY <1>0, <1>2, <1>5, AttachedKeep
  <2> QED
    BY <1>3, <2>1, MapStutter
<1> QED
  BY <1>4, <1>5

\* ts_allocate_id: the new id appears when the call returns.
LEMMA MapRegister ==
  ASSUME IInv, IInv', IdsInv, NEW t \in Thread, Register(t)
  PROVE  UNCHANGED Map!mapVars
<1>0. /\ pc \in [Thread -> Label] /\ pc[t] = "register" /\ idCount \in Nat
      /\ pc'[t] \in {"idle", "enlarge"}
      /\ \A u \in Thread : u # t => pc'[u] = pc[u] /\ loc'[u] = loc[u]
      /\ UNCHANGED <<table, owner>>
  BY BoundAssumption DEF IInv, TypeOK, Register, UnlockReturn, Return, heap
<1>1. Known' = Known /\ Known = idCount
  BY KnownRegister
<1>2. done' = done
  BY <1>0, <1>1, FreshNotDone DEF Register
<1>3. \A f \in Linked : Open(f)' <=> Open(f)
  BY <1>0 DEF Open
<1>4. Attached' = Attached
  BY <1>0, <1>3, AttachedKeep
<1> QED
  BY <1>1, <1>2, <1>4, MapStutter

LEMMA MapEnlarged ==
  ASSUME IInv, IInv', NEW t \in Thread, Enlarged(t), IdsInv
  PROVE  Map!NewId
<1>0. /\ pc \in [Thread -> Label] /\ pc[t] = "enlarge" /\ Return(t)
      /\ UNCHANGED <<table, owner, done>> /\ idCount \notin done
  BY DEF IInv, TypeOK, Enlarged, UnlockReturn, ReadyInv, heap, types
<1>1. \A f \in Linked : Open(f)' <=> Open(f)
  BY <1>0 DEF Open, Return
<1>2. Attached' = Attached
  BY <1>0, <1>1, AttachedKeep
<1>3. /\ Known \in Nat /\ Known < MaxId /\ Known' = Known + 1
      /\ Known + 1 \notin done
  BY <1>0, KnownEnlarged, BoundAssumption DEF IdsInv, IInv, TypeOK
<1> QED
  BY <1>0, <1>2, <1>3, MapNewId

LEMMA MapFreeId ==
  ASSUME IInv, IInv', IdsInv, NEW t \in Thread, FreeId(t)
  PROVE  \E i \in 1..Known : Map!Retire(i)
<1>0. /\ pc \in [Thread -> Label] /\ pc[t] = "free_id" /\ Return(t)
      /\ done' = done \cup {loc[t].id} /\ loc[t].id \in Published
      /\ UNCHANGED <<table, owner, idCount, lost>>
  BY IdToFree DEF IInv, TypeOK, FreeId, UnlockReturn
<1>1. \A f \in Linked : Open(f)' <=> Open(f)
  BY <1>0 DEF Open, Return
<1>2. Attached' = Attached
  BY <1>0, <1>1, AttachedKeep
<1>3. Known' = Known
  BY <1>0, KnownFrame DEF Return
<1>4. PICK i \in Published : i = loc[t].id
  BY <1>0
<1>5. Map!Retire(i)
  BY <1>0, <1>2, <1>3, <1>4, MapRetire
<1> QED
  BY <1>5 DEF Published

\* Linked entries, none of them being built, go: their owners are detached.
LEMMA MapUnlink ==
  ASSUME IInv, IInv', NEW S, S \subseteq Linked,
         \A b \in Bucket : table'[b] = table[b] \ S,
         \A e \in Entry \ S : owner'[e] = owner[e],
         \A e \in Linked : ~Open(e) /\ ~Open(e)',
         Known' = Known, done' = done
  PROVE  \E gone \in SUBSET Attached : Map!Detach(gone)
<1>0. PICK gone : gone = {owner[e] : e \in S}
  OBVIOUS
<1>1. Linked' = Linked \ S /\ Linked \subseteq Entry
  BY LinkedType DEF Linked, IInv
<1>2. gone \subseteq Attached
  BY <1>0, <1>1, AttachedIs DEF IInv, TypeOK
<1>3. \A e \in Linked : owner[e] \in gone => e \in S
  BY <1>0 DEF IInv, TableInv
<1>4. Attached' = Attached \ gone
  BY <1>0, <1>1, <1>3, AttachedIs, AttachedStep
<1>5. Map!Detach(gone)
  BY <1>2, <1>4, MapDetach
<1> QED
  BY <1>2, <1>5

LEMMA MapFree ==
  ASSUME IInv, IInv', NEW t \in Thread, FreeThread(t) \/ FreeWorkers(t)
  PROVE  \E gone \in SUBSET Attached : Map!Detach(gone)
<1>1. PICK S \in SUBSET table[Hash[t]] :
         Release(S) /\ table' = [table EXCEPT ![Hash[t]] = @ \ S]
  BY DEF FreeThread, FreeWorkers, FreeEntries, Entries, Workers
<1>2. S \subseteq Linked /\ \A b \in Bucket : table'[b] = table[b] \ S
  BY <1>1, OneBucket DEF IInv
<1>3. /\ pc \in [Thread -> Label] /\ pc[t] \in {"free_thread", "free_workers"}
      /\ Return(t) /\ UNCHANGED <<idCount, done, lost>>
  BY DEF IInv, TypeOK, FreeThread, FreeWorkers, UnlockReturn, types
<1>4. \A u \in Thread : /\ pc[u] \notin {"build", "enlarge"}
                        /\ pc'[u] \notin {"build", "enlarge"}
  BY <1>3 DEF IInv, LockInv, Critical, Return
<1>5. Known' = Known /\ \A e \in Linked : ~Open(e) /\ ~Open(e)'
  BY <1>3, <1>4, KnownFrame DEF Open
<1>6. \A e \in Entry \ S : owner'[e] = owner[e]
  BY <1>1 DEF Release
<1> QED
  BY <1>2, <1>3, <1>5, <1>6, MapUnlink

LEMMA MapShutdown ==
  ASSUME IInv, IInv', Shutdown
  PROVE  \E gone \in SUBSET Attached : Map!Detach(gone)
<1>1. /\ \A b \in Bucket : table'[b] = table[b] \ Linked
      /\ pc' = pc /\ loc' = loc /\ UNCHANGED <<idCount, done, lost>>
      /\ \A u \in Thread : pc[u] = "idle"
      /\ \A e \in Entry \ Linked : owner'[e] = owner[e]
  BY DEF Shutdown, Linked, Release, types
<1>2. Known' = Known /\ \A e \in Linked : ~Open(e) /\ ~Open(e)'
  BY <1>1, KnownFrame DEF Open
<1> QED
  BY <1>1, <1>2, MapUnlink

LEMMA MapStep == IInv /\ IInv' /\ IdsInv /\ [Next]_vars => [Map!Next]_(Map!mapVars)
<1> SUFFICES ASSUME IInv, IInv', IdsInv, [Next]_vars
             PROVE  [Map!Next]_(Map!mapVars)
  OBVIOUS
<1>0. pc \in [Thread -> Label] /\ loc \in [Thread -> Local]
  BY DEF IInv, TypeOK
<1>1. ASSUME NEW t \in Thread, Call(t) PROVE UNCHANGED Map!mapVars
  <2>a. ASSUME NEW op, NEW id, NEW who, pc[t] = "idle", CallLocked(t, op, id, who)
        PROVE  UNCHANGED Map!mapVars
    BY <2>a, <1>0, QuietMove DEF CallLocked, heap, types
  <2>b. ASSUME NEW id, NEW e, pc[t] = "idle", CallRead(t, id, e)
        PROVE  UNCHANGED Map!mapVars
    BY <2>b, <1>0, QuietMove DEF CallRead, heap, types
  <2>1. ASSUME NEW id \in 0..MaxId,
               \/ FastGet(t, id) \/ SlowGet(t, id) \/ StaticGet(t, id)
               \/ CallFreeId(t, id)
               \/ \E w \in Thread : GetOther(t, id, w)
        PROVE  UNCHANGED Map!mapVars
    BY <2>1, <2>a, <2>b
    DEF FastGet, SlowGet, StaticGet, CallFreeId, GetOther, MayCall
  <2>2. CASE \/ CallAllocateId(t) \/ CallFreeThread(t) \/ CallFreeWorkers(t)
             \/ CallNewContext(t)
    BY <2>2, <2>a
    DEF CallAllocateId, CallFreeThread, CallFreeWorkers, CallNewContext, MayCall
  <2>3. CASE \/ CacheUpdate(t) \/ ThreadExit(t) \/ LeaveContext(t)
             \/ \E e \in Entry : EnterContext(t, e) \/ FreeContextCrashes(t, e)
    BY <2>3, QuietStay
    DEF CacheUpdate, ThreadExit, LeaveContext, EnterContext, FreeContextCrashes,
        heap, types
  <2>4. ASSUME NEW e \in Entry, FreeContext(t, e) PROVE UNCHANGED Map!mapVars
    <3>1. /\ Release({e}) /\ e \notin Linked /\ pc' = pc /\ loc' = loc
          /\ UNCHANGED <<table, idCount, done, lost>> /\ Linked \subseteq Entry
      BY <2>4, LinkedType DEF FreeContext, FreeEntries, IInv, TableInv, types
    <3> QED
      BY <3>1, QuietStay DEF Release
  <2> QED
    BY <1>1, <2>1, <2>2, <2>3, <2>4 DEF Call
<1>2. ASSUME NEW t \in Thread, Lock(t) PROVE UNCHANGED Map!mapVars
  <2>1. loc[t].op \notin {"build", "enlarge"}
    BY <1>0 DEF Local, Entered, Critical
  <2> QED
    BY <1>2, <2>1, QuietMove DEF Lock, heap, types
<1>3. ASSUME NEW t \in Thread, Step(t) PROVE [Map!Next]_(Map!mapVars)
  <2>1. CASE Find(t) \/ Load(t)
    BY <2>1, <1>0, QuietMove DEF Find, Load, heap, types
  <2>2. CASE Deref(t) \/ Restore(t)
    BY <2>2, <1>0, QuietMove DEF Deref, Restore, Return, heap, types
  <2>3. ASSUME NEW e \in Entry, Create(t, e) \/ NewContext(t, e)
        PROVE  UNCHANGED Map!mapVars
    BY <2>3, MapAllocate
  <2>4. CASE \/ Crash(t) \/ \E i \in Id : BuildSlot(t, i)
             \/ \E e \in Entry : Enlarge(t, e)
    BY <2>4, QuietStay DEF Crash, BuildSlot, Enlarge, heap, types
  <2>5. CASE Built(t) \/ Register(t)
    BY <2>5, MapBuilt, MapRegister DEF Map!Next
  <2>6. CASE Enlarged(t) \/ FreeId(t)
    BY <2>6, MapEnlarged, MapFreeId DEF Map!Next
  <2>7. CASE FreeThread(t) \/ FreeWorkers(t)
    BY <2>7, MapFree DEF Map!Next, Attached
  <2> QED
    BY <1>3, <2>1, <2>2, <2>3, <2>4, <2>5, <2>6, <2>7 DEF Step
<1>4. CASE Serve \/ UNCHANGED vars
  BY <1>4, QuietStay DEF Serve, vars, heap, types
<1>5. CASE Shutdown
  BY <1>5, MapShutdown DEF Map!Next, Attached
<1> QED
  BY <1>1, <1>2, <1>3, <1>4, <1>5 DEF Next, Terminated

LEMMA MapInit == Init => Map!Init
<1> SUFFICES ASSUME Init PROVE Map!Init
  OBVIOUS
<1>1. Known = 0 /\ done = {} /\ \A t \in Thread : Finished(t) = {}
  BY ThreadAssumption DEF Init, Known, Finished, Entries
<1> QED
  BY <1>1 DEF Map!Init, Published

\* However the critical sections, the reads outside them and the failures of
\* ts_allocate_id interleave, the table behaves as one map from threads to
\* resources: what each call does to it happens at one step of that call.
THEOREM MapImplemented == Spec => ImplementsMap
<1>1. Init => IInv /\ IdsInv /\ Map!Init
  BY IInvInit, IdsInit, MapInit
<1>2. IInv /\ IdsInv /\ [Next]_vars => IInv' /\ IdsInv' /\ [Map!Next]_(Map!mapVars)
  BY IInvStep, IdsStep, MapStep
<1> QED
  BY <1>1, <1>2, PTL DEF Spec, ImplementsMap, Map!Spec
-----------------------------------------------------------------------------
(* Constructors.                                                           *)

\* ConstructorSeesEntry is inductive, given IInv: nobody but the thread that
\* builds an entry touches it, although FreeContext takes no mutex.
LEMMA ConstructorStep ==
  IInv /\ ConstructorSeesEntry /\ [Next]_vars => ConstructorSeesEntry'
<1> SUFFICES ASSUME IInv, ConstructorSeesEntry, [Next]_vars, NEW u \in Thread
             PROVE  ConstructorSeesEntry!(u)'
  BY DEF ConstructorSeesEntry
<1>0. /\ pc \in [Thread -> Label] /\ loc \in [Thread -> Local]
      /\ tls \in [Thread -> Pointer]
  BY DEF IInv, TypeOK
\* What u builds stays as it is.
<1>a. ASSUME \/ pc'[u] # "build"
             \/ /\ pc'[u] = pc[u] /\ loc'[u] = loc[u] /\ tls'[u] = tls[u]
                /\ count'[loc[u].e] = count[loc[u].e]
                /\ slot'[loc[u].e] = slot[loc[u].e]
      PROVE  ConstructorSeesEntry!(u)'
  BY <1>a DEF ConstructorSeesEntry
\* Thread t moves, to a label other than build, and leaves the entries alone.
<1>b. ASSUME NEW t \in Thread, NEW l, pc' = [pc EXCEPT ![t] = l], l # "build",
             \A v \in Thread : v # t => loc'[v] = loc[v] /\ tls'[v] = tls[v],
             UNCHANGED <<count, slot>>
      PROVE  ConstructorSeesEntry!(u)'
  BY <1>0, <1>a, <1>b
\* Thread t is idle and changes no more than its own TLS value.
<1>c. ASSUME NEW t \in Thread, pc[t] = "idle", pc' = pc, loc' = loc,
             \A v \in Thread : v # t => tls'[v] = tls[v],
             UNCHANGED <<count, slot>>
      PROVE  ConstructorSeesEntry!(u)'
  BY <1>a, <1>c
<1>1. ASSUME NEW t \in Thread, Call(t) PROVE ConstructorSeesEntry!(u)'
  <2>a. ASSUME NEW op, NEW id, NEW who, CallLocked(t, op, id, who)
        PROVE  ConstructorSeesEntry!(u)'
    BY <2>a, <1>0, <1>b DEF CallLocked, heap, locals
  <2>b. ASSUME NEW id, NEW e, CallRead(t, id, e)
        PROVE  ConstructorSeesEntry!(u)'
    BY <2>b, <1>0, <1>b DEF CallRead, heap, locals
  <2>1. CASE \E id \in 0..MaxId :
                \/ FastGet(t, id) \/ SlowGet(t, id) \/ StaticGet(t, id)
                \/ CallFreeId(t, id)
                \/ \E w \in Thread : GetOther(t, id, w)
    BY <2>1, <2>a, <2>b DEF FastGet, SlowGet, StaticGet, CallFreeId, GetOther
  <2>2. CASE \/ CallAllocateId(t) \/ CallFreeThread(t) \/ CallFreeWorkers(t)
             \/ CallNewContext(t)
    BY <2>2, <2>a
    DEF CallAllocateId, CallFreeThread, CallFreeWorkers, CallNewContext
  <2>3. CASE \/ CacheUpdate(t) \/ ThreadExit(t) \/ LeaveContext(t)
             \/ \E e \in Entry : EnterContext(t, e) \/ FreeContextCrashes(t, e)
    BY <2>3, <1>0, <1>c
    DEF CacheUpdate, ThreadExit, LeaveContext, EnterContext, FreeContextCrashes,
        MayCall, heap
  <2>4. ASSUME NEW e \in Entry, FreeContext(t, e)
        PROVE  ConstructorSeesEntry!(u)'
    <3>1. CASE pc[u] # "build"
      BY <2>4, <3>1, <1>a DEF FreeContext
    <3>2. CASE pc[u] = "build"
      <4>1. loc[u].e \in Entry /\ loc[u].e # e
        BY <2>4, <3>2
        DEF FreeContext, IInv, LocInv, TableInv, InMaking
      <4> QED
        BY <2>4, <4>1, <1>a DEF FreeContext, FreeEntries, Release
    <3> QED
      BY <3>1, <3>2
  <2> QED
    BY <1>1, <2>1, <2>2, <2>3, <2>4 DEF Call
<1>2. ASSUME NEW t \in Thread, Lock(t) PROVE ConstructorSeesEntry!(u)'
  <2>1. loc[t].op # "build"
    BY <1>0 DEF Local, Entered, Critical
  <2> QED
    BY <1>2, <2>1, <1>b DEF Lock, heap, locals
<1>3. ASSUME NEW t \in Thread, Step(t) PROVE ConstructorSeesEntry!(u)'
  <2>1. CASE Find(t) \/ Load(t) \/ Deref(t) \/ Restore(t)
    BY <2>1, <1>0, <1>b DEF Find, Load, Deref, Restore, Return, heap, locals
  <2>2. CASE Built(t) \/ Register(t) \/ Enlarged(t)
    <3>1. u # t => loc'[u] = loc[u] /\ pc'[u] = pc[u]
      BY <2>2, <1>0 DEF Built, Register, Enlarged, UnlockReturn, Return
    <3>2. pc'[t] # "build"
      BY <2>2, <1>0 DEF Built, Register, Enlarged, UnlockReturn, Return
    <3> QED
      BY <2>2, <3>1, <3>2, <1>a DEF Built, Register, Enlarged, heap, locals
  <2>3. ASSUME NEW e \in Entry, Create(t, e) \/ NewContext(t, e)
        PROVE  ConstructorSeesEntry!(u)'
    <3>1. PICK who : Allocate(t, e, who)
      BY <2>3 DEF Create, NewContext
    <3>2. e \notin used /\ slot[e] = NoSlots /\ idCount \in 0..MaxId
      BY <3>1 DEF Allocate, Available, IInv, ReadyInv, TypeOK
    <3>3. CASE u = t
      <4>1. /\ loc'[t].e = e /\ tls'[t] = e /\ slot'[e] = NoSlots
            /\ count'[e] = idCount
        BY <1>0, <3>1, <3>2 DEF Allocate, Local, IInv, TypeOK
      <4>2. \A i \in 1..idCount : NoSlots[i] = "none"
        BY <3>2, BoundAssumption DEF NoSlots, Id
      <4> QED
        BY <3>3, <4>1, <4>2
    <3>4. CASE u # t /\ pc[u] = "build"
      <4>1. pc[t] \in Critical /\ pc[u] \in Critical
        BY <2>3, <3>4 DEF Create, NewContext, Critical
      <4> QED
        BY <3>4, <4>1 DEF IInv, LockInv
    <3>5. CASE u # t /\ pc[u] # "build"
      BY <1>0, <3>1, <3>5, <1>a DEF Allocate
    <3> QED
      BY <3>3, <3>4, <3>5
  <2>4. ASSUME NEW i \in Id, BuildSlot(t, i) PROVE ConstructorSeesEntry!(u)'
    <3>1. /\ pc[t] = "build" /\ loc[t].e \in Entry
          /\ UNCHANGED <<pc, loc, tls, count>>
      BY <2>4 DEF BuildSlot, IInv, LocInv, locals
    <3>2. CASE u # t
      <4>1. pc[u] # "build"
        BY <3>1, <3>2 DEF IInv, LockInv, Critical
      <4> QED
        BY <3>1, <4>1, <1>a
    <3>3. CASE u = t
      <4> DEFINE e == loc[t].e
      <4>1. /\ tls[t] = e /\ slot[e] \in [Id -> SlotState]
            /\ count[e] \in 0..MaxId
            /\ \A k \in 1..count[e] : slot[e][k] # "none" =>
                  \A j \in 1..k : slot[e][j] # "none"
        BY <3>1 DEF ConstructorSeesEntry, IInv, TypeOK
      <4>2. /\ \A j \in 1..(i - 1) : slot[e][j] # "none"
            /\ slot'[e][i] # "none"
            /\ \A k \in Id : k # i => slot'[e][k] = slot[e][k]
        BY <2>4, <3>1, <4>1 DEF BuildSlot, NextSlot, IInv, TypeOK
      <4>3. ASSUME NEW k \in 1..count[e], slot'[e][k] # "none", NEW j \in 1..k
            PROVE  slot'[e][j] # "none"
        <5>1. k \in Id /\ j \in Id
          BY <4>1, BoundAssumption DEF Id
        <5>2. CASE j = i
          BY <4>2, <5>2
        <5>3. CASE j # i /\ k = i
          BY <4>2, <5>1, <5>3 DEF Id
        <5>4. CASE j # i /\ k # i
          BY <4>1, <4>2, <4>3, <5>1, <5>4
        <5> QED
          BY <5>2, <5>3, <5>4
      <4> QED
        BY <3>1, <3>3, <4>1, <4>3
    <3> QED
      BY <3>2, <3>3
  <2>5. CASE \/ FreeThread(t) \/ FreeWorkers(t) \/ FreeId(t)
             \/ \E e \in Entry : Enlarge(t, e)
    <3>1. pc[t] \in Critical \ {"build"}
      BY <2>5 DEF FreeThread, FreeWorkers, FreeId, Enlarge, Critical
    <3>2. pc[u] # "build"
      BY <3>1 DEF IInv, LockInv, Critical
    <3>3. pc'[u] # "build"
      BY <2>5, <3>2, <1>0
      DEF FreeThread, FreeWorkers, FreeId, Enlarge, UnlockReturn, Return
    <3> QED
      BY <3>3, <1>a
  <2>6. CASE Crash(t)
    BY <2>6, <1>a DEF Crash, heap, locals
  <2> QED
    BY <1>3, <2>1, <2>2, <2>3, <2>4, <2>5, <2>6 DEF Step
<1>4. CASE Serve \/ UNCHANGED vars
  BY <1>4, <1>a DEF Serve, vars, heap, locals
<1>5. CASE Shutdown
  BY <1>5, <1>a DEF Shutdown
<1> QED
  BY <1>1, <1>2, <1>3, <1>4, <1>5 DEF Next, Terminated

\* A constructor that asks for an earlier resource of its own entry finds it,
\* whatever other threads do meanwhile.
THEOREM ConstructorsServed == Spec => []ConstructorSeesEntry
<1>1. Init => ConstructorSeesEntry
  BY DEF Init, ConstructorSeesEntry
<1> QED
  BY <1>1, IInvInit, IInvStep, ConstructorStep, PTL DEF Spec

-----------------------------------------------------------------------------
(* Interpreter contexts.                                                   *)

\* ContextOnlyOnRequest, and what tsrm_new_interpreter_context will put back.
ContextsInv ==
    \A t \in Thread :
        /\ tls[t] \in ctx[t] => home[t] # Null
        /\ home[t] \notin ctx[t]
        /\ InMaking(t) =>
              /\ loc[t].e \notin {home[t], loc[t].prev}
              /\ loc[t].prev \in ctx[t] => home[t] # Null

LEMMA ContextsStep == IInv /\ ContextsInv /\ [Next]_vars => ContextsInv'
<1> SUFFICES ASSUME IInv, ContextsInv, [Next]_vars, NEW u \in Thread
             PROVE  ContextsInv!(u)'
  BY DEF ContextsInv
<1>0. /\ pc \in [Thread -> Label] /\ loc \in [Thread -> Local]
      /\ tls \in [Thread -> Pointer] /\ home \in [Thread -> Pointer]
      /\ ctx \in [Thread -> SUBSET Entry]
  BY DEF IInv, TypeOK
<1>a. ASSUME UNCHANGED <<tls[u], home[u], ctx[u]>>,
             InMaking(u)' => InMaking(u) /\ loc'[u] = loc[u]
      PROVE  ContextsInv!(u)'
  BY <1>a DEF ContextsInv
<1>b. ASSUME NEW t \in Thread, NEW l, pc' = [pc EXCEPT ![t] = l],
             l \notin {"build", "restore"},
             \A v \in Thread : v # t => loc'[v] = loc[v], UNCHANGED locals
      PROVE  ContextsInv!(u)'
  BY <1>0, <1>a, <1>b DEF locals, InMaking
<1>c. ASSUME pc' = pc, loc' = loc, UNCHANGED <<tls[u], home[u], ctx[u]>>
      PROVE  ContextsInv!(u)'
  BY <1>a, <1>c DEF InMaking
<1>1. ASSUME NEW t \in Thread, Call(t) PROVE ContextsInv!(u)'
  <2>a. ASSUME NEW op, NEW id, NEW who, CallLocked(t, op, id, who)
        PROVE  ContextsInv!(u)'
    BY <2>a, <1>0, <1>b DEF CallLocked
  <2>b. ASSUME NEW id, NEW e, CallRead(t, id, e) PROVE ContextsInv!(u)'
    BY <2>b, <1>0, <1>b DEF CallRead
  <2>1. CASE \E id \in 0..MaxId :
                \/ FastGet(t, id) \/ SlowGet(t, id) \/ StaticGet(t, id)
                \/ CallFreeId(t, id)
                \/ \E w \in Thread : GetOther(t, id, w)
    BY <2>1, <2>a, <2>b DEF FastGet, SlowGet, StaticGet, CallFreeId, GetOther
  <2>2. CASE \/ CallAllocateId(t) \/ CallFreeThread(t) \/ CallFreeWorkers(t)
             \/ CallNewContext(t)
    BY <2>2, <2>a
    DEF CallAllocateId, CallFreeThread, CallFreeWorkers, CallNewContext
  <2>3. CASE CacheUpdate(t)
    BY <2>3, <1>c DEF CacheUpdate
  <2>4. ASSUME \/ ThreadExit(t) \/ LeaveContext(t)
               \/ \E e \in Entry : EnterContext(t, e) \/ FreeContext(t, e)
                                \/ FreeContextCrashes(t, e)
        PROVE  ContextsInv!(u)'
    <3>1. pc[t] = "idle" /\ pc' = pc /\ loc' = loc
      BY <2>4 DEF ThreadExit, LeaveContext, EnterContext, FreeContext,
                  FreeContextCrashes, MayCall
    <3>2. u # t => UNCHANGED <<tls[u], home[u], ctx[u]>>
      BY <2>4, <1>0 DEF ThreadExit, LeaveContext, EnterContext, FreeContext,
             FreeContextCrashes
    <3>3. CASE u # t
      BY <3>1, <3>2, <3>3, <1>c
    <3>4. CASE u = t
      <4>1. ~InMaking(t)' /\ Null \notin ctx[t]
        BY <3>1, <1>0, EntryAssumption DEF InMaking
      <4>2. CASE ThreadExit(t)
        BY <3>4, <4>1, <4>2, <1>0 DEF ThreadExit, ContextsInv
      <4>3. CASE LeaveContext(t)
        BY <3>4, <4>1, <4>3, <1>0 DEF LeaveContext, ContextsInv
      <4>4. ASSUME NEW e \in Entry, EnterContext(t, e) \/ FreeContextCrashes(t, e)
            PROVE  ContextsInv!(u)'
        BY <3>4, <4>1, <4>4, <1>0 DEF EnterContext, FreeContextCrashes, ContextsInv
      <4>5. ASSUME NEW e \in Entry, FreeContext(t, e) PROVE ContextsInv!(u)'
        BY <3>4, <4>1, <4>5, <1>0 DEF FreeContext, ContextsInv
      <4> QED
        BY <2>4, <4>2, <4>3, <4>4, <4>5
    <3> QED
      BY <3>3, <3>4
  <2> QED
    BY <1>1, <2>1, <2>2, <2>3, <2>4 DEF Call
<1>2. ASSUME NEW t \in Thread, Lock(t) PROVE ContextsInv!(u)'
  <2>1. loc[t].op \notin {"build", "restore"}
    BY <1>0 DEF Local, Entered, Critical
  <2> QED
    BY <1>2, <2>1, <1>b DEF Lock
<1>3. ASSUME NEW t \in Thread, Step(t) PROVE ContextsInv!(u)'
  <2>1. CASE Find(t) \/ Load(t) \/ Deref(t)
    BY <2>1, <1>0, <1>b DEF Find, Load, Deref, Return
  <2>2. ASSUME NEW e \in Entry, Create(t, e) \/ NewContext(t, e)
        PROVE  ContextsInv!(u)'
    <3>1. PICK who : Allocate(t, e, who)
      BY <2>2 DEF Create, NewContext
    <3>2. CASE u # t
      BY <3>1, <3>2, <1>0, <1>a DEF Allocate, InMaking
    <3>3. CASE u = t
      <4>1. /\ e \notin used /\ e \notin {tls[t], home[t]} /\ ctx[t] \subseteq used
        BY <3>1 DEF Allocate, Available, IInv, TableInv
      <4>2. /\ tls'[t] = e /\ home'[t] = home[t] /\ ctx'[t] = ctx[t]
            /\ loc'[t].e = e /\ loc'[t].op = loc[t].op
            /\ loc[t].op = "new_ctx" => loc'[t].prev = tls[t]
        BY <3>1, <1>0 DEF Allocate, Local
      <4> QED
        BY <3>3, <4>1, <4>2 DEF ContextsInv, InMaking
    <3> QED
      BY <3>2, <3>3
  <2>3. CASE \/ Crash(t) \/ \E i \in Id : BuildSlot(t, i)
             \/ \E e \in Entry : Enlarge(t, e)
    BY <2>3, <1>c DEF Crash, BuildSlot, Enlarge, locals
  <2>4. CASE Built(t)
    <3>1. UNCHANGED <<tls[u], home[u], ctx[u]>>
      BY <2>4 DEF Built, locals
    <3>2. InMaking(u)' => InMaking(u) /\ loc'[u] = loc[u]
      BY <2>4, <1>0 DEF Built, InMaking
    <3> QED
      BY <3>1, <3>2, <1>a
  <2>5. CASE Register(t) \/ Enlarged(t) \/ FreeWorkers(t) \/ FreeId(t)
    <3>1. UNCHANGED <<tls[u], home[u], ctx[u]>>
      BY <2>5 DEF Register, Enlarged, FreeWorkers, FreeId, locals
    <3>2. InMaking(u)' => InMaking(u) /\ loc'[u] = loc[u]
      BY <2>5, <1>0
      DEF Register, Enlarged, FreeWorkers, FreeId, UnlockReturn, Return, InMaking
    <3> QED
      BY <3>1, <3>2, <1>a
  <2>6. CASE FreeThread(t)
    <3>1. /\ tls'[u] \in {tls[u], Null} /\ home'[u] = home[u] /\ ctx'[u] = ctx[u]
      BY <2>6, <1>0 DEF FreeThread
    <3>2. InMaking(u)' => InMaking(u) /\ loc'[u] = loc[u]
      BY <2>6, <1>0 DEF FreeThread, UnlockReturn, Return, InMaking
    <3>3. Null \notin ctx[u]
      BY <1>0, EntryAssumption
    <3> QED
      BY <3>1, <3>2, <3>3 DEF ContextsInv
  <2>7. CASE Restore(t)
    <3>1. CASE u # t
      BY <2>7, <3>1, <1>0, <1>a DEF Restore, Return, InMaking
    <3>2. CASE u = t
      <4>1. InMaking(t) /\ ~InMaking(t)'
        BY <2>7, <1>0 DEF Restore, Return, InMaking, IInv, LocInv
      <4>2. /\ tls'[t] = loc[t].prev /\ home'[t] = home[t]
            /\ ctx'[t] = ctx[t] \cup {loc[t].e}
        BY <2>7, <1>0 DEF Restore
      <4> QED
        BY <3>2, <4>1, <4>2 DEF ContextsInv
    <3> QED
      BY <3>1, <3>2
  <2> QED
    BY <1>3, <2>1, <2>2, <2>3, <2>4, <2>5, <2>6, <2>7 DEF Step
<1>4. CASE Serve \/ UNCHANGED vars
  BY <1>4, <1>c DEF Serve, vars, locals
<1>5. CASE Shutdown
  <2>1. Null \notin ctx[u]
    BY <1>0, EntryAssumption
  <2> QED
    BY <1>5, <2>1 DEF Shutdown, ContextsInv, InMaking
<1> QED
  BY <1>1, <1>2, <1>3, <1>4, <1>5 DEF Next, Terminated

\* A thread works in an interpreter context only between
\* tsrm_set_interpreter_context to it and back: creating one, or creating one
\* while in another, leaves the current context current.
THEOREM ContextsOnRequest == Spec => []ContextOnlyOnRequest
<1>1. Init => ContextsInv
  BY DEF Init, ContextsInv, InMaking
<1>2. ContextsInv => ContextOnlyOnRequest
  BY DEF ContextsInv, ContextOnlyOnRequest
<1> QED
  BY <1>1, <1>2, IInvInit, IInvStep, ContextsStep, PTL DEF Spec

-----------------------------------------------------------------------------
(* Reads without the mutex.                                                *)

\* What a client has to keep to: every id exists before other threads run
\* (php_module_startup loads the modules first); nobody asks for another
\* thread's resource or frees the others' entries; and a thread that caches its
\* TLS pointer does not free its entry.  TLC shows a read go wrong without the
\* first (MCTsrm_late, MCTsrm_realloc).
Disciplined ==
    /\ ~LateIds
    /\ Api \cap {"get_other", "free_workers"} = {}
    /\ "static" \notin Api \/ "free_thread" \notin Api

Acts(t) == Call(t) \/ Lock(t) \/ Step(t)

\* Which call a thread can be in, in each phase.
CallInv(t) ==
    /\ pc[t] = "idle" => loc[t] = Idle
    /\ pc[t] # "idle" => loc[t].who = t
    /\ pc[t] = "enlarge" => loc[t].op = "register"
    /\ loc[t].op = "free_thread" => "free_thread" \in Api
    /\ loc[t].op # "free_workers"
    /\ phase = "startup" =>
          /\ pc[t] # "idle" => t = Main
          /\ loc[t].op # "new_ctx"
          /\ ctx[t] = {}
    /\ phase = "serve" => loc[t].op # "register"
    /\ phase = "down" => pc[t] = "idle"

\* A thread that does not act keeps what is its own.
Still(u) ==
    /\ pc'[u] = pc[u] /\ loc'[u] = loc[u]
    /\ tls'[u] = tls[u] /\ cache'[u] = cache[u]
    /\ home'[u] = home[u] /\ ctx'[u] = ctx[u]

LEMMA Bystander ==
  ASSUME TypeOK, NEW t \in Thread, NEW u \in Thread, u # t, Acts(t)
  PROVE  Still(u)
<1>0. /\ pc \in [Thread -> Label] /\ loc \in [Thread -> Local]
      /\ tls \in [Thread -> Pointer] /\ cache \in [Thread -> Pointer]
      /\ home \in [Thread -> Pointer] /\ ctx \in [Thread -> SUBSET Entry]
  BY DEF TypeOK
<1>a. ASSUME NEW op, NEW id, NEW who, CallLocked(t, op, id, who) PROVE Still(u)
  BY <1>0, <1>a DEF CallLocked, Still, locals
<1>b. ASSUME NEW id, NEW e, CallRead(t, id, e) PROVE Still(u)
  BY <1>0, <1>b DEF CallRead, Still, locals
<1>1. CASE \E id \in 0..MaxId :
              \/ FastGet(t, id) \/ SlowGet(t, id) \/ StaticGet(t, id)
              \/ CallFreeId(t, id)
              \/ \E w \in Thread : GetOther(t, id, w)
  BY <1>1, <1>a, <1>b DEF FastGet, SlowGet, StaticGet, CallFreeId, GetOther
<1>2. CASE \/ CallAllocateId(t) \/ CallFreeThread(t) \/ CallFreeWorkers(t)
           \/ CallNewContext(t)
  BY <1>2, <1>a
  DEF CallAllocateId, CallFreeThread, CallFreeWorkers, CallNewContext
<1>3. CASE CacheUpdate(t) \/ ThreadExit(t) \/ LeaveContext(t)
  BY <1>0, <1>3 DEF CacheUpdate, ThreadExit, LeaveContext, Still
<1>4. CASE \E e \in Entry : EnterContext(t, e) \/ FreeContext(t, e)
                         \/ FreeContextCrashes(t, e)
  BY <1>0, <1>4 DEF EnterContext, FreeContext, FreeContextCrashes, Still
<1>5. CASE Lock(t)
  BY <1>0, <1>5 DEF Lock, Still, locals
<1>6. CASE Find(t) \/ Load(t) \/ Deref(t) \/ Built(t)
  BY <1>0, <1>6 DEF Find, Load, Deref, Built, Return, Still, locals
<1>7. CASE \E e \in Entry : Create(t, e) \/ NewContext(t, e)
  BY <1>0, <1>7 DEF Create, NewContext, Allocate, Still
<1>8. CASE \/ Crash(t) \/ \E i \in Id : BuildSlot(t, i)
           \/ \E e \in Entry : Enlarge(t, e)
  BY <1>8 DEF Crash, BuildSlot, Enlarge, Still, locals
<1>9. CASE Register(t) \/ Enlarged(t)
  BY <1>0, <1>9 DEF Register, Enlarged, UnlockReturn, Return, Still, locals
<1>10. CASE FreeThread(t) \/ FreeWorkers(t)
  BY <1>0, <1>10 DEF FreeThread, FreeWorkers, UnlockReturn, Return, Still, locals
<1>11. CASE FreeId(t) \/ Restore(t)
  BY <1>0, <1>11 DEF FreeId, Restore, UnlockReturn, Return, Still, locals
<1> QED
  BY <1>1, <1>2, <1>3, <1>4, <1>5, <1>6, <1>7, <1>8, <1>9, <1>10, <1>11
  DEF Acts, Call, Step

\* The phase when a thread acts.
LEMMA ActsPhase ==
  ASSUME NEW t \in Thread, Acts(t)
  PROVE  /\ phase \in {"startup", "serve"}
         /\ phase' = phase \/ phase' = "crashed"
<1>1. ASSUME Call(t)
      PROVE  /\ phase \in {"startup", "serve"}
             /\ phase' = phase \/ phase' = "crashed"
  BY <1>1
  DEF Call, FastGet, SlowGet, StaticGet, CallFreeId, GetOther, CallAllocateId,
      CallFreeThread, CallFreeWorkers, CallNewContext, CacheUpdate, ThreadExit,
      LeaveContext, EnterContext, FreeContext, FreeContextCrashes, CallRead,
      CallLocked, MayCall
<1>2. ASSUME Lock(t) PROVE phase \in {"startup", "serve"} /\ phase' = phase
  BY <1>2 DEF Lock, Running
<1>3. ASSUME Step(t)
      PROVE  /\ phase \in {"startup", "serve"}
             /\ phase' = phase \/ phase' = "crashed"
  BY <1>3
  DEF Step, Running, Find, Load, Deref, Create, NewContext, Allocate, Enlarge,
      BuildSlot, Built, Register, Enlarged, FreeThread, FreeWorkers, FreeId,
      Restore, Crash
<1> QED
  BY <1>1, <1>2, <1>3 DEF Acts

LEMMA CallStep ==
  ASSUME Disciplined, IInv, [Next]_vars, \A t \in Thread : CallInv(t)
  PROVE  \A t \in Thread : CallInv(t)'
<1>0. /\ pc \in [Thread -> Label] /\ loc \in [Thread -> Local]
      /\ ctx \in [Thread -> SUBSET Entry]
  BY DEF IInv, TypeOK
<1>1. ASSUME NEW t \in Thread, NEW u \in Thread, u # t, Acts(t) PROVE CallInv(u)'
  <2>1. Still(u) /\ (phase' = phase \/ phase' = "crashed")
    BY <1>1, Bystander, ActsPhase DEF IInv
  <2> QED
    BY <2>1 DEF Still, CallInv
<1>2. ASSUME NEW t \in Thread, Call(t) PROVE CallInv(t)'
  <2>0. /\ pc[t] = "idle" /\ loc[t] = Idle
        /\ phase = "serve" \/ (phase = "startup" /\ t = Main)
    BY <1>2
    DEF Call, FastGet, SlowGet, StaticGet, CallFreeId, GetOther, CallAllocateId,
        CallFreeThread, CallFreeWorkers, CallNewContext, CacheUpdate, ThreadExit,
        LeaveContext, EnterContext, FreeContext, FreeContextCrashes, MayCall, CallInv
  <2>a. ASSUME NEW op, NEW id, CallLocked(t, op, id, t),
               op = "free_thread" => "free_thread" \in Api, op # "free_workers",
               op = "new_ctx" => phase = "serve", op = "register" => phase # "serve"
        PROVE  CallInv(t)'
    BY <2>0, <2>a, <1>0 DEF CallLocked, CallInv, Idle, locals
  <2>b. ASSUME NEW id, NEW e, CallRead(t, id, e) PROVE CallInv(t)'
    BY <2>0, <2>b, <1>0 DEF CallRead, CallInv, Idle, locals
  <2>1. CASE \E id \in 0..MaxId :
                \/ FastGet(t, id) \/ SlowGet(t, id) \/ StaticGet(t, id)
                \/ CallFreeId(t, id)
    BY <2>1, <2>a, <2>b DEF FastGet, SlowGet, StaticGet, CallFreeId
  <2>2. CASE CallAllocateId(t) \/ CallFreeThread(t)
    BY <2>0, <2>2, <2>a
    DEF CallAllocateId, CallFreeThread, MayCall, Disciplined
  <2>3. CASE CallNewContext(t)
    BY <2>3, <2>a DEF CallNewContext, Disciplined
  <2>4. CASE \/ CallFreeWorkers(t)
             \/ \E id \in 0..MaxId, w \in Thread : GetOther(t, id, w)
    BY <2>4 DEF CallFreeWorkers, GetOther, MayCall, Disciplined
  <2>5. CASE CacheUpdate(t) \/ ThreadExit(t) \/ LeaveContext(t)
    BY <2>0, <2>5 DEF CacheUpdate, ThreadExit, LeaveContext, CallInv
  <2>6. CASE \E e \in Entry : EnterContext(t, e) \/ FreeContext(t, e)
                           \/ FreeContextCrashes(t, e)
    BY <2>0, <2>6, <1>0 DEF EnterContext, FreeContext, FreeContextCrashes, CallInv
  <2> QED
    BY <1>2, <2>1, <2>2, <2>3, <2>4, <2>5, <2>6 DEF Call
<1>3. ASSUME NEW t \in Thread, Lock(t) PROVE CallInv(t)'
  <2>1. loc[t].op \notin {"idle", "enlarge"}
    BY <1>0 DEF Local, Entered, Critical
  <2> QED
    BY <1>0, <1>3, <2>1 DEF Lock, CallInv, locals
<1>4. ASSUME NEW t \in Thread, Step(t) PROVE CallInv(t)'
  <2>0. phase \in {"startup", "serve"} /\ (phase' = phase \/ phase' = "crashed")
    BY <1>4, ActsPhase DEF Acts
  <2>a. ASSUME Return(t), ctx'[t] = ctx[t] PROVE CallInv(t)'
    BY <2>0, <2>a, <1>0 DEF Return, CallInv, Idle
  <2>b. ASSUME pc[t] # "idle", pc'[t] \notin {"idle", "enlarge"}, ctx'[t] = ctx[t],
               loc'[t].op = loc[t].op, loc'[t].who = loc[t].who
        PROVE  CallInv(t)'
    BY <2>0, <2>b DEF CallInv
  <2>1. CASE Find(t) \/ Load(t) \/ Built(t)
    BY <2>1, <2>b, <1>0 DEF Find, Load, Built, Local, locals
  <2>2. CASE Deref(t) \/ Enlarged(t) \/ FreeThread(t) \/ FreeWorkers(t) \/ FreeId(t)
    BY <2>2, <2>a
    DEF Deref, Enlarged, FreeThread, FreeWorkers, FreeId, UnlockReturn, locals
  <2>3. CASE Restore(t)
    <3>1. phase # "startup" /\ Return(t)
      BY <2>3 DEF Restore, IInv, LocInv, CallInv
    <3> QED
      BY <2>0, <3>1, <1>0 DEF Return, CallInv, Idle
  <2>4. CASE \E e \in Entry : Create(t, e) \/ NewContext(t, e)
    BY <2>4, <2>b, <1>0 DEF Create, NewContext, Allocate, Local
  <2>5. CASE \/ Crash(t) \/ \E i \in Id : BuildSlot(t, i)
             \/ \E e \in Entry : Enlarge(t, e)
    BY <2>0, <2>5 DEF Crash, BuildSlot, Enlarge, CallInv, locals
  <2>6. CASE Register(t)
    <3>1. pc[t] = "register" /\ loc[t].op = "register" /\ ctx'[t] = ctx[t]
      BY <2>6 DEF Register, IInv, LocInv, Entered, Critical, locals
    <3>2. CASE pc' = [pc EXCEPT ![t] = "enlarge"] /\ loc' = loc
      BY <2>0, <3>1, <3>2, <1>0 DEF CallInv
    <3>3. CASE Return(t)
      BY <3>1, <3>3, <2>a
    <3> QED
      BY <2>6, <3>2, <3>3 DEF Register, UnlockReturn
  <2> QED
    BY <1>4, <2>1, <2>2, <2>3, <2>4, <2>5, <2>6 DEF Step
<1>5. CASE Serve
  BY <1>5 DEF Serve, CallInv, Idle, locals
<1>6. CASE Shutdown
  BY <1>6 DEF Shutdown, CallInv
<1>7. CASE UNCHANGED vars
  BY <1>7 DEF vars, CallInv
<1> QED
  BY <1>1, <1>2, <1>3, <1>4, <1>5, <1>6, <1>7 DEF Next, Terminated, Acts

\* The linked entry of a thread, if it has one.
Own(t) == {e \in Linked : owner[e] = t}

\* The interpreter contexts of a thread, one in the making included.
Private(t, e) == e \in ctx[t] \/ (InMaking(t) /\ loc[t].e = e)

LEMMA OwnEntries ==
  ASSUME IInv, NEW t \in Thread
  PROVE  Entries(t) = Own(t)
<1>1. Hash[t] \in Bucket
  BY ThreadAssumption
<1> QED
  BY <1>1 DEF Entries, Linked, Own, IInv, TableInv

LEMMA PrivateUnlinked ==
  ASSUME IInv, NEW t \in Thread, NEW e, Private(t, e)
  PROVE  e \in used \ Linked
  BY DEF Private, IInv, TableInv

\* Nobody but its thread touches an interpreter context, and the thread only
\* while it builds it and when it frees it.
LEMMA PrivateUntouched ==
  ASSUME IInv, [Next]_vars, NEW u \in Thread, NEW e \in Entry, Private(u, e),
         ~FreeContext(u, e), \A i \in Id : ~BuildSlot(u, i)
  PROVE  UNCHANGED <<owner[e], count[e], arr[e], slot[e]>>
<1>0. /\ e \in used \ Linked /\ Linked \subseteq Entry
      /\ owner \in [Entry -> Thread] /\ count \in [Entry -> 0..MaxId]
      /\ arr \in [Entry -> Nat] /\ slot \in [Entry -> [Id -> SlotState]]
      /\ pc \in [Thread -> Label] /\ loc \in [Thread -> Local]
  BY PrivateUnlinked, LinkedType DEF IInv, TypeOK
<1>a. ASSUME UNCHANGED heap PROVE UNCHANGED <<owner[e], count[e], arr[e], slot[e]>>
  BY <1>a DEF heap
<1>b. ASSUME NEW S, S \subseteq Linked, Release(S)
      PROVE  UNCHANGED <<owner[e], count[e], arr[e], slot[e]>>
  BY <1>0, <1>b DEF Release
<1>1. ASSUME NEW t \in Thread, Call(t)
      PROVE  UNCHANGED <<owner[e], count[e], arr[e], slot[e]>>
  <2>1. CASE \E f \in Entry : FreeContext(t, f)
    <3>1. PICK f \in Entry : FreeContext(t, f)
      BY <2>1
    <3>2. f # e
      <4>1. CASE t = u
        BY <3>1, <4>1 DEF FreeContext, MayCall, Private, InMaking
      <4>2. CASE t # u
        BY <3>1, <4>2 DEF FreeContext, Private, IInv, TableInv
      <4> QED
        BY <4>1, <4>2
    <3> QED
      BY <1>0, <3>1, <3>2 DEF FreeContext, FreeEntries, Release
  <2>2. CASE \A f \in Entry : ~FreeContext(t, f)
    <3>1. UNCHANGED heap
      BY <1>1, <2>2
      DEF Call, FastGet, SlowGet, StaticGet, CallFreeId, GetOther, CallAllocateId,
          CallFreeThread, CallFreeWorkers, CallNewContext, CacheUpdate, ThreadExit,
          LeaveContext, EnterContext, FreeContextCrashes, CallRead, CallLocked
    <3> QED
      BY <3>1, <1>a
  <2> QED
    BY <2>1, <2>2
<1>2. ASSUME NEW t \in Thread, Lock(t)
      PROVE  UNCHANGED <<owner[e], count[e], arr[e], slot[e]>>
  BY <1>2, <1>a DEF Lock
<1>3. ASSUME NEW t \in Thread, Step(t)
      PROVE  UNCHANGED <<owner[e], count[e], arr[e], slot[e]>>
  <2>1. CASE \/ Find(t) \/ Load(t) \/ Deref(t) \/ Built(t) \/ Register(t)
             \/ Enlarged(t) \/ Restore(t) \/ Crash(t)
    BY <2>1, <1>a DEF Find, Load, Deref, Built, Register, Enlarged, Restore, Crash
  <2>2. ASSUME NEW f \in Entry, Create(t, f) \/ NewContext(t, f)
        PROVE  UNCHANGED <<owner[e], count[e], arr[e], slot[e]>>
    BY <1>0, <2>2 DEF Create, NewContext, Allocate, Available
  <2>3. ASSUME NEW f \in Entry, Enlarge(t, f)
        PROVE  UNCHANGED <<owner[e], count[e], arr[e], slot[e]>>
    BY <1>0, <2>3 DEF Enlarge
  <2>4. ASSUME NEW i \in Id, BuildSlot(t, i)
        PROVE  UNCHANGED <<owner[e], count[e], arr[e], slot[e]>>
    <3>1. t # u /\ pc[t] = "build"
      BY <2>4 DEF BuildSlot
    <3>2. CASE loc[t].op = "find"
      <4>1. loc[t].e \in Linked
        BY <3>1, <3>2 DEF IInv, TableInv
      <4> QED
        BY <1>0, <2>4, <4>1 DEF BuildSlot
    <3>3. CASE loc[t].op = "new_ctx"
      <4>1. loc[t].e # e
        BY <3>1, <3>3 DEF IInv, TableInv, InMaking, Private
      <4> QED
        BY <1>0, <2>4, <4>1 DEF BuildSlot
    <3> QED
      BY <3>1, <3>2, <3>3 DEF IInv, LocInv
  <2>5. CASE FreeThread(t) \/ FreeWorkers(t)
    <3>1. PICK S \in SUBSET table[Hash[t]] :
             Release(S) /\ table' = [table EXCEPT ![Hash[t]] = @ \ S]
      BY <2>5 DEF FreeThread, FreeWorkers, FreeEntries, Entries, Workers
    <3>2. S \subseteq Linked
      BY <3>1, OneBucket DEF IInv
    <3> QED
      BY <3>1, <3>2, <1>b
  <2>6. CASE FreeId(t)
    BY <1>0, <2>6 DEF FreeId
  <2> QED
    BY <1>3, <2>1, <2>2, <2>3, <2>4, <2>5, <2>6 DEF Step
<1>4. CASE Serve \/ UNCHANGED vars
  BY <1>4, <1>a DEF Serve, vars
<1>5. CASE Shutdown
  BY <1>5, <1>b DEF Shutdown
<1> QED
  BY <1>1, <1>2, <1>3, <1>4, <1>5 DEF Next, Terminated

\* Interpreter contexts are complete: they have a slot for every id, which
\* holds the resource unless the id is retired.
ContextInv(t) ==
    \A e \in Entry : Private(t, e) =>
        /\ owner[e] = t
        /\ count[e] = idCount
        /\ \A i \in 1..idCount :
              \/ slot[e][i] = "live"
              \/ i \in done
              \/ slot[e][i] = "none" /\ pc[t] = "build" /\ loc[t].e = e

\* A context becomes a thread's when the thread allocates it.
LEMMA PrivateStep ==
  ASSUME IInv, [Next]_vars, NEW u \in Thread, NEW e \in Entry, Private(u, e)'
  PROVE  Private(u, e) \/ NewContext(u, e)
<1>0. /\ pc \in [Thread -> Label] /\ loc \in [Thread -> Local]
      /\ ctx \in [Thread -> SUBSET Entry]
  BY DEF IInv, TypeOK
<1>a. ASSUME ctx'[u] \subseteq ctx[u], InMaking(u)' => InMaking(u) /\ loc'[u] = loc[u]
      PROVE  Private(u, e)
  BY <1>a DEF Private
<1>b. ASSUME Still(u) PROVE Private(u, e)
  BY <1>b, <1>a DEF Still, InMaking
<1>c. ASSUME ctx'[u] \subseteq ctx[u], pc'[u] \notin {"build", "restore"}
      PROVE  Private(u, e)
  BY <1>c, <1>a DEF InMaking
<1>1. ASSUME NEW t \in Thread, t # u, Acts(t) PROVE Private(u, e)
  BY <1>1, <1>b, Bystander DEF IInv
<1>2. ASSUME Call(u) PROVE Private(u, e)
  <2>1. ctx'[u] \subseteq ctx[u] /\ pc'[u] \notin {"build", "restore"}
    <3>a. ASSUME NEW op, NEW id, NEW who, CallLocked(u, op, id, who)
          PROVE  ctx'[u] \subseteq ctx[u] /\ pc'[u] \notin {"build", "restore"}
      BY <3>a, <1>0 DEF CallLocked, locals
    <3>b. ASSUME NEW id, NEW f, CallRead(u, id, f)
          PROVE  ctx'[u] \subseteq ctx[u] /\ pc'[u] \notin {"build", "restore"}
      BY <3>b, <1>0 DEF CallRead, locals
    <3>1. CASE \E id \in 0..MaxId :
                \/ FastGet(u, id) \/ SlowGet(u, id) \/ StaticGet(u, id)
                \/ CallFreeId(u, id)
                \/ \E w \in Thread : GetOther(u, id, w)
      BY <3>1, <3>a, <3>b DEF FastGet, SlowGet, StaticGet, CallFreeId, GetOther
    <3>2. CASE \/ CallAllocateId(u) \/ CallFreeThread(u) \/ CallFreeWorkers(u)
               \/ CallNewContext(u)
      BY <3>2, <3>a
      DEF CallAllocateId, CallFreeThread, CallFreeWorkers, CallNewContext
    <3>3. CASE \/ CacheUpdate(u) \/ ThreadExit(u) \/ LeaveContext(u)
               \/ \E f \in Entry : EnterContext(u, f) \/ FreeContextCrashes(u, f)
      BY <3>3, <1>0
      DEF CacheUpdate, ThreadExit, LeaveContext, EnterContext, FreeContextCrashes,
          MayCall
    <3>4. CASE \E f \in Entry : FreeContext(u, f)
      BY <3>4, <1>0 DEF FreeContext, MayCall
    <3> QED
      BY <1>2, <3>1, <3>2, <3>3, <3>4 DEF Call
  <2> QED
    BY <2>1, <1>c
<1>3. ASSUME Lock(u) PROVE Private(u, e)
  <2>1. loc[u].op \notin {"build", "restore"}
    BY <1>0 DEF Local, Entered, Critical
  <2> QED
    BY <1>0, <1>3, <2>1, <1>c DEF Lock, locals
<1>4. ASSUME Step(u) PROVE Private(u, e) \/ NewContext(u, e)
  <2>1. CASE \/ Find(u) \/ Load(u) \/ Deref(u) \/ Register(u) \/ Enlarged(u)
    BY <2>1, <1>0, <1>c
    DEF Find, Load, Deref, Register, Enlarged, UnlockReturn, Return, locals
  <2>2. CASE FreeThread(u) \/ FreeWorkers(u) \/ FreeId(u)
    BY <2>2, <1>0, <1>c
    DEF FreeThread, FreeWorkers, FreeId, UnlockReturn, Return, locals
  <2>3. CASE \/ Crash(u) \/ \E i \in Id : BuildSlot(u, i)
             \/ \E f \in Entry : Enlarge(u, f)
    BY <2>3, <1>a DEF Crash, BuildSlot, Enlarge, InMaking, locals
  <2>4. CASE Built(u)
    BY <2>4, <1>0, <1>a DEF Built, InMaking, locals
  <2>5. ASSUME NEW f \in Entry, Create(u, f) PROVE Private(u, e)
    <3>1. loc[u].op = "find" /\ pc[u] = "find"
      BY <2>5 DEF Create, IInv, LocInv, Entered, Critical
    <3>2. ~InMaking(u)' /\ ctx'[u] = ctx[u]
      BY <1>0, <2>5, <3>1 DEF Create, Allocate, InMaking, Local
    <3> QED
      BY <3>2, <1>a
  <2>6. ASSUME NEW f \in Entry, NewContext(u, f)
        PROVE  Private(u, e) \/ NewContext(u, e)
    <3>1. loc'[u].e = f /\ ctx'[u] = ctx[u]
      BY <1>0, <2>6 DEF NewContext, Allocate, Local
    <3>2. e = f \/ e \in ctx[u]
      BY <3>1 DEF Private
    <3> QED
      BY <2>6, <3>2 DEF Private
  <2>7. CASE Restore(u)
    <3>1. InMaking(u) /\ ~InMaking(u)' /\ ctx'[u] = ctx[u] \cup {loc[u].e}
      BY <1>0, <2>7 DEF Restore, Return, InMaking, IInv, LocInv
    <3> QED
      BY <3>1 DEF Private
  <2> QED
    BY <1>4, <2>1, <2>2, <2>3, <2>4, <2>5, <2>6, <2>7 DEF Step
<1>5. CASE Serve \/ Shutdown \/ UNCHANGED vars
  BY <1>5, <1>a DEF Serve, Shutdown, vars, locals, InMaking
<1> QED
  BY <1>1, <1>2, <1>3, <1>4, <1>5 DEF Next, Terminated, Acts

\* A thread in the loop of allocate_new_resource stays there until it is done.
LEMMA BuildingStep ==
  ASSUME IInv, [Next]_vars, NEW u \in Thread, pc[u] = "build"
  PROVE  Built(u) \/ (pc'[u] = "build" /\ loc'[u] = loc[u])
<1>1. ASSUME NEW t \in Thread, t # u, Acts(t)
      PROVE  pc'[u] = "build" /\ loc'[u] = loc[u]
  BY <1>1, Bystander DEF IInv, Still
<1>2. ASSUME Call(u) PROVE FALSE
  BY <1>2
  DEF Call, FastGet, SlowGet, StaticGet, CallFreeId, GetOther, CallAllocateId,
      CallFreeThread, CallFreeWorkers, CallNewContext, CacheUpdate, ThreadExit,
      LeaveContext, EnterContext, FreeContext, FreeContextCrashes, MayCall
<1>3. ASSUME Lock(u) PROVE FALSE
  BY <1>3 DEF Lock
<1>4. ASSUME Step(u), ~Built(u) PROVE pc'[u] = "build" /\ loc'[u] = loc[u]
  BY <1>4
  DEF Step, Find, Load, Deref, Create, NewContext, Enlarge, BuildSlot, Register,
      Enlarged, FreeThread, FreeWorkers, FreeId, Restore, Crash
<1>5. CASE Serve \/ Shutdown \/ UNCHANGED vars
  BY <1>5 DEF Serve, Shutdown, vars
<1> QED
  BY <1>1, <1>2, <1>3, <1>4, <1>5 DEF Next, Terminated, Acts

LEMMA ContextStep ==
  ASSUME Disciplined, IInv, IdsInv, [Next]_vars,
         \A t \in Thread : CallInv(t), \A t \in Thread : CallInv(t)',
         \A t \in Thread : ContextInv(t)
  PROVE  \A t \in Thread : ContextInv(t)'
<1> SUFFICES ASSUME NEW u \in Thread, NEW e \in Entry, Private(u, e)'
             PROVE  /\ owner'[e] = u
                    /\ count'[e] = idCount'
                    /\ \A i \in 1..idCount' :
                          \/ slot'[e][i] = "live"
                          \/ i \in done'
                          \/ slot'[e][i] = "none" /\ pc'[u] = "build" /\ loc'[u].e = e
  BY DEF ContextInv
<1>0. /\ pc \in [Thread -> Label] /\ loc \in [Thread -> Local]
      /\ ctx \in [Thread -> SUBSET Entry]
  BY DEF IInv, TypeOK
<1>1. done \subseteq done'
  BY DoneStep
\* Nobody allocates ids while there are contexts.
<1>2. idCount' = idCount
  <2>1. ASSUME NEW t \in Thread, Step(t), Register(t) PROVE FALSE
    <3>1. /\ pc[t] = "register" /\ loc[t].op = "register"
          /\ ctx' = ctx /\ pc'[t] \in {"idle", "enlarge"}
          /\ loc'[t] \in {loc[t], Idle}
          /\ \A v \in Thread : v # t => pc'[v] = pc[v] /\ loc'[v] = loc[v]
      BY <2>1, <1>0
      DEF Register, UnlockReturn, Return, locals, IInv, LocInv, Entered, Critical
    <3>2. phase = "startup"
      BY <2>1, <3>1, ActsPhase DEF CallInv, Acts
    <3>3. ctx'[u] = {} /\ ~InMaking(u)'
      BY <3>1, <3>2, <1>0 DEF CallInv, InMaking, Idle
    <3> QED
      BY <3>3 DEF Private
  <2>2. ASSUME NEW t \in Thread, Call(t) \/ Lock(t) PROVE idCount' = idCount
    BY <2>2
    DEF Call, FastGet, SlowGet, StaticGet, CallFreeId, GetOther, CallAllocateId,
        CallFreeThread, CallFreeWorkers, CallNewContext, CacheUpdate, ThreadExit,
        LeaveContext, EnterContext, FreeContext, FreeContextCrashes, CallRead,
        CallLocked, Lock, types
  <2>3. ASSUME NEW t \in Thread, Step(t), ~Register(t) PROVE idCount' = idCount
    BY <2>3
    DEF Step, Find, Load, Deref, Create, NewContext, Allocate, Enlarge, BuildSlot,
        Built, Enlarged, FreeThread, FreeWorkers, FreeId, Restore, Crash, types
  <2>4. CASE Serve \/ Shutdown \/ UNCHANGED vars
    BY <2>4 DEF Serve, Shutdown, vars, types
  <2> QED
    BY <2>1, <2>2, <2>3, <2>4 DEF Next, Terminated
<1>3. CASE Private(u, e) /\ ~FreeContext(u, e) /\ \A i \in Id : ~BuildSlot(u, i)
  <2>1. UNCHANGED <<owner[e], count[e], slot[e]>>
    BY <1>3, PrivateUntouched
  <2>2. ASSUME NEW i \in 1..idCount, slot[e][i] = "none", i \notin done
        PROVE  pc'[u] = "build" /\ loc'[u].e = e
    <3>1. pc[u] = "build" /\ loc[u].e = e /\ i \in 1..count[e]
      BY <1>3, <2>2 DEF ContextInv
    <3>2. ~Built(u)
      BY <2>2, <3>1 DEF Built
    <3> QED
      BY <3>1, <3>2, BuildingStep
  <2> QED
    BY <1>1, <1>2, <1>3, <2>1, <2>2 DEF ContextInv
<1>4. ~FreeContext(u, e)
  <2>1. FreeContext(u, e) => e \notin ctx'[u] /\ ~InMaking(u)'
    BY <1>0 DEF FreeContext, MayCall, InMaking
  <2> QED
    BY <2>1 DEF Private
<1>5. ASSUME NEW j \in Id, Private(u, e), BuildSlot(u, j)
      PROVE  /\ owner'[e] = u
             /\ count'[e] = idCount'
             /\ \A i \in 1..idCount' :
                   \/ slot'[e][i] = "live"
                   \/ i \in done'
                   \/ slot'[e][i] = "none" /\ pc'[u] = "build" /\ loc'[u].e = e
  <2>1. /\ UNCHANGED <<pc, loc, owner, count>>
        /\ slot' = [slot EXCEPT ![loc[u].e][j] =
                        IF j \in done THEN "null" ELSE "live"]
    BY <1>5 DEF BuildSlot
  <2>2. ASSUME NEW i \in 1..idCount
        PROVE  \/ slot'[e][i] = "live"
               \/ i \in done
               \/ slot'[e][i] = "none" /\ pc[u] = "build" /\ loc[u].e = e
    <3>1. \/ slot'[e][i] = slot[e][i]
          \/ i = j /\ slot'[e][i] = IF j \in done THEN "null" ELSE "live"
      BY <2>1 DEF IInv, TypeOK
    <3> QED
      BY <1>5, <3>1 DEF ContextInv
  <2> QED
    BY <1>1, <1>2, <1>5, <2>1, <2>2 DEF ContextInv
<1>6. CASE NewContext(u, e)
  <2>1. /\ e \in Entry \ used /\ slot[e] = NoSlots /\ idCount \in 0..MaxId
    BY <1>6 DEF NewContext, Allocate, Available, IInv, ReadyInv, TypeOK
  <2>2. /\ owner'[e] = u /\ count'[e] = idCount /\ slot'[e] = NoSlots
        /\ pc'[u] = "build" /\ loc'[u].e = e
    BY <1>0, <1>6, <2>1 DEF NewContext, Allocate, Local, IInv, TypeOK
  <2>3. \A i \in 1..idCount : NoSlots[i] = "none"
    BY <2>1, BoundAssumption DEF NoSlots, Id
  <2> QED
    BY <1>2, <2>2, <2>3
<1> QED
  BY <1>3, <1>4, <1>5, <1>6, PrivateStep

-----------------------------------------------------------------------------
(* The pointers through which a thread reads.                              *)

PointerInv(t) ==
    /\ home[t] = Null => tls[t] \in Own(t) \cup {Null} \/ InMaking(t)
    /\ home[t] # Null => /\ home[t] \in Own(t)
                         /\ tls[t] \in ctx[t] \/ InMaking(t)
    /\ InMaking(t) => IF home[t] = Null THEN loc[t].prev \in Own(t) \cup {Null}
                                        ELSE loc[t].prev \in ctx[t]
    /\ cache[t] # Null => cache[t] \in Own(t) /\ "static" \in Api
    /\ pc[t] \in {"load", "deref"} => loc[t].e \in Own(t) \cup ctx[t]
    /\ pc[t] = "deref" => loc[t].ver = arr[loc[t].e]
    /\ pc[t] = "build" /\ loc[t].op = "find" => loc[t].e \in Own(t)
    /\ pc[t] \in {"lock", "find", "build", "free_thread"}
         /\ loc[t].op \in {"find", "free_thread"} => home[t] = Null

\* Only the thread itself adds or frees its entry.
LEMMA OwnStep ==
  ASSUME IInv, \A t \in Thread : CallInv(t), NEW t \in Thread, Acts(t),
         NEW u \in Thread
  PROVE  \/ Own(u)' = Own(u)
         \/ u = t /\ FreeThread(t)
         \/ u = t /\ \E e \in Entry : Create(t, e) /\ Own(u)' = Own(u) \cup {e}
<1>0. /\ Linked \subseteq Entry /\ Linked \subseteq used
      /\ owner \in [Entry -> Thread] /\ table \in [Bucket -> SUBSET Entry]
  BY LinkedType DEF IInv, TypeOK, TableInv
<1>a. ASSUME table' = table, \A e \in Linked : owner'[e] = owner[e]
      PROVE  Own(u)' = Own(u)
  BY <1>a DEF Own, Linked
<1>1. ASSUME Call(t) PROVE Own(u)' = Own(u)
  <2>1. CASE \E f \in Entry : FreeContext(t, f)
    <3>1. PICK f \in Entry : FreeContext(t, f)
      BY <2>1
    <3>2. f \notin Linked
      BY <3>1 DEF FreeContext, IInv, TableInv
    <3> QED
      BY <1>0, <3>1, <3>2, <1>a DEF FreeContext, FreeEntries, Release
  <2>2. CASE \A f \in Entry : ~FreeContext(t, f)
    <3>1. UNCHANGED <<table, owner>>
      BY <1>1, <2>2
      DEF Call, FastGet, SlowGet, StaticGet, CallFreeId, GetOther, CallAllocateId,
          CallFreeThread, CallFreeWorkers, CallNewContext, CacheUpdate, ThreadExit,
          LeaveContext, EnterContext, FreeContextCrashes, CallRead, CallLocked, heap
    <3> QED
      BY <3>1, <1>a
  <2> QED
    BY <2>1, <2>2
<1>2. ASSUME Lock(t) PROVE Own(u)' = Own(u)
  BY <1>2, <1>a DEF Lock, heap
<1>3. ASSUME Step(t)
      PROVE  \/ Own(u)' = Own(u)
             \/ u = t /\ FreeThread(t)
             \/ u = t /\ \E e \in Entry : Create(t, e) /\ Own(u)' = Own(u) \cup {e}
  <2>1. CASE \/ Find(t) \/ Load(t) \/ Deref(t) \/ Built(t) \/ Register(t)
             \/ Enlarged(t) \/ Restore(t) \/ Crash(t) \/ FreeId(t)
             \/ \E i \in Id : BuildSlot(t, i)
             \/ \E e \in Entry : Enlarge(t, e)
    BY <2>1, <1>a
    DEF Find, Load, Deref, Built, Register, Enlarged, Restore, Crash, FreeId,
        BuildSlot, Enlarge, heap
  <2>2. ASSUME NEW f \in Entry, NewContext(t, f) PROVE Own(u)' = Own(u)
    BY <1>0, <2>2, <1>a DEF NewContext, Allocate, Available
  <2>3. ASSUME NEW f \in Entry, Create(t, f)
        PROVE  IF u = t THEN Own(u)' = Own(u) \cup {f} ELSE Own(u)' = Own(u)
    <3>1. loc[t].who = t /\ f \notin used /\ Hash[t] \in Bucket
      BY <2>3, ThreadAssumption DEF CallInv, Create, Allocate, Available
    <3>2. Linked' = Linked \cup {f}
      BY <1>0, <2>3, <3>1 DEF Create, Linked
    <3>3. owner' = [owner EXCEPT ![f] = t]
      BY <2>3, <3>1 DEF Create, Allocate
    <3> QED
      BY <1>0, <3>1, <3>2, <3>3 DEF Own
  <2>4. CASE FreeThread(t)
    <3>1. CASE u = t
      BY <2>4, <3>1
    <3>2. CASE u # t
      <4>1. Entries(t) = Own(t)
        BY OwnEntries
      <4>2. Release(Own(t)) /\ table' = [table EXCEPT ![Hash[t]] = @ \ Own(t)]
        BY <2>4, <4>1 DEF FreeThread, FreeEntries
      <4>3. Own(t) \in SUBSET table[Hash[t]]
        BY <4>1 DEF Entries
      <4>4. \A b \in Bucket : table'[b] = table[b] \ Own(t)
        BY <4>2, <4>3, OneBucket DEF IInv
      <4>5. Linked' = Linked \ Own(t)
        BY <4>4 DEF Linked
      <4>6. \A e \in Linked' : owner'[e] = owner[e]
        BY <1>0, <4>2, <4>5 DEF Release
      <4> QED
        BY <3>2, <4>5, <4>6 DEF Own
    <3> QED
      BY <3>1, <3>2
  <2>5. CASE FreeWorkers(t)
    BY <2>5 DEF FreeWorkers, CallInv, IInv, LocInv, Entered, Critical
  <2> QED
    BY <1>3, <2>1, <2>2, <2>3, <2>4, <2>5 DEF Step
<1> QED
  BY <1>1, <1>2, <1>3 DEF Acts

\* The array of an entry that stays allocated moves only under ts_allocate_id.
LEMMA ArrayStep ==
  ASSUME IInv, NEW t \in Thread, Acts(t), NEW e \in Entry, e \in used, e \in used',
         pc[t] # "enlarge"
  PROVE  arr'[e] = arr[e]
<1>0. arr \in [Entry -> Nat]
  BY DEF IInv, TypeOK
<1>a. ASSUME NEW S, Release(S) PROVE arr'[e] = arr[e]
  BY <1>a DEF Release
<1>1. ASSUME Call(t) PROVE arr'[e] = arr[e]
  <2>1. CASE \E f \in Entry : FreeContext(t, f)
    BY <2>1, <1>a DEF FreeContext, FreeEntries
  <2>2. CASE \A f \in Entry : ~FreeContext(t, f)
    BY <1>1, <2>2
    DEF Call, FastGet, SlowGet, StaticGet, CallFreeId, GetOther, CallAllocateId,
        CallFreeThread, CallFreeWorkers, CallNewContext, CacheUpdate, ThreadExit,
        LeaveContext, EnterContext, FreeContextCrashes, CallRead, CallLocked, heap
  <2> QED
    BY <2>1, <2>2
<1>2. ASSUME Lock(t) PROVE arr'[e] = arr[e]
  BY <1>2 DEF Lock, heap
<1>3. ASSUME Step(t) PROVE arr'[e] = arr[e]
  <2>1. CASE FreeThread(t) \/ FreeWorkers(t)
    BY <2>1, <1>a DEF FreeThread, FreeWorkers, FreeEntries
  <2>2. CASE ~FreeThread(t) /\ ~FreeWorkers(t)
    BY <1>3, <2>2
    DEF Step, Find, Load, Deref, Create, NewContext, Allocate, Enlarge, BuildSlot,
        Built, Register, Enlarged, FreeId, Restore, Crash, heap
  <2> QED
    BY <2>1, <2>2
<1> QED
  BY <1>1, <1>2, <1>3 DEF Acts

LEMMA PointerBystander ==
  ASSUME IInv, IInv', \A t \in Thread : CallInv(t), NEW t \in Thread, Acts(t),
         NEW u \in Thread, u # t, PointerInv(u)
  PROVE  PointerInv(u)'
<1>1. Still(u) /\ Own(u)' = Own(u)
  BY Bystander, OwnStep DEF IInv
<1>2. InMaking(u)' <=> InMaking(u)
  BY <1>1 DEF Still, InMaking
<1>3. ASSUME pc[u] = "deref" PROVE arr'[loc[u].e] = arr[loc[u].e]
  <2>1. pc[t] # "enlarge"
    BY <1>3, ActsPhase DEF CallInv
  <2>2. loc[u].e \in Own(u) \cup ctx[u]
    BY <1>3 DEF PointerInv
  <2>3. loc[u].e \in used
    BY <2>2 DEF Own, IInv, TableInv
  <2>4. loc[u].e \in Own(u)' \cup ctx'[u]
    BY <1>1, <2>2 DEF Still
  <2>5. loc[u].e \in used'
    BY <2>4 DEF Own, IInv, TableInv
  <2>6. loc[u].e \in Entry
    BY <2>3 DEF IInv, TypeOK
  <2> QED
    BY <2>1, <2>3, <2>5, <2>6, ArrayStep
<1> QED
  BY <1>1, <1>2, <1>3 DEF PointerInv, Still

LEMMA PointerCall ==
  ASSUME Disciplined, IInv, \A t \in Thread : CallInv(t), NEW t \in Thread,
         Call(t), PointerInv(t)
  PROVE  PointerInv(t)'
<1>0. /\ pc \in [Thread -> Label] /\ loc \in [Thread -> Local]
      /\ tls \in [Thread -> Pointer] /\ cache \in [Thread -> Pointer]
      /\ home \in [Thread -> Pointer] /\ ctx \in [Thread -> SUBSET Entry]
  BY DEF IInv, TypeOK
<1>1. pc[t] = "idle" /\ ~InMaking(t)
  BY DEF Call, FastGet, SlowGet, StaticGet, CallFreeId, GetOther, CallAllocateId,
         CallFreeThread, CallFreeWorkers, CallNewContext, CacheUpdate, ThreadExit,
         LeaveContext, EnterContext, FreeContext, FreeContextCrashes, MayCall, InMaking
<1>2. Own(t)' = Own(t)
  <2>1. ~FreeThread(t) /\ \A e \in Entry : ~Create(t, e)
    BY <1>1 DEF FreeThread, Create
  <2> QED
    BY <2>1, OwnStep DEF Acts
<1>3. Null \notin ctx[t]
  BY <1>0, EntryAssumption
<1>a. ASSUME NEW op, NEW id, CallLocked(t, op, id, t),
             op \in {"find", "free_thread"} => home[t] = Null
      PROVE  PointerInv(t)'
  <2>1. /\ pc'[t] = "lock" /\ loc'[t].op = op
        /\ UNCHANGED <<tls, cache, home, ctx>>
    BY <1>0, <1>a DEF CallLocked, Idle, locals
  <2> QED
    BY <1>1, <1>2, <1>a, <2>1 DEF PointerInv, InMaking
<1>b. ASSUME NEW id, NEW e \in Own(t) \cup ctx[t], CallRead(t, id, e)
      PROVE  PointerInv(t)'
  <2>1. /\ pc'[t] = "load" /\ loc'[t].e = e
        /\ UNCHANGED <<tls, cache, home, ctx>>
    BY <1>0, <1>b DEF CallRead, Idle, locals
  <2> QED
    BY <1>1, <1>2, <1>b, <2>1 DEF PointerInv, InMaking
<1>4. ASSUME NEW id \in 0..MaxId, FastGet(t, id) PROVE PointerInv(t)'
  <2>1. tls[t] \in Own(t) \cup ctx[t]
    BY <1>1, <1>4 DEF FastGet, PointerInv
  <2> QED
    BY <1>4, <2>1, <1>b DEF FastGet
<1>5. ASSUME NEW id \in 0..MaxId, SlowGet(t, id) PROVE PointerInv(t)'
  <2>1. home[t] = Null
    BY <1>1, <1>3, <1>5 DEF SlowGet, PointerInv
  <2> QED
    BY <1>5, <2>1, <1>a DEF SlowGet
<1>6. ASSUME NEW id \in 0..MaxId, StaticGet(t, id) PROVE PointerInv(t)'
  <2>1. cache[t] \in Own(t)
    BY <1>6 DEF StaticGet, PointerInv
  <2> QED
    BY <1>6, <2>1, <1>b DEF StaticGet
<1>7. CASE \/ \E id \in 0..MaxId : CallFreeId(t, id)
           \/ CallAllocateId(t) \/ CallFreeThread(t) \/ CallNewContext(t)
  BY <1>7, <1>a DEF CallFreeId, CallAllocateId, CallFreeThread, CallNewContext
<1>8. CASE \/ CallFreeWorkers(t)
           \/ \E id \in 0..MaxId, w \in Thread : GetOther(t, id, w)
  BY <1>8 DEF CallFreeWorkers, GetOther, MayCall, Disciplined
\* What is left changes nothing but the pointers of t, which stays idle.
<1>c. ASSUME pc' = pc,
             home'[t] = Null => tls'[t] \in Own(t) \cup {Null},
             home'[t] # Null => home'[t] \in Own(t) /\ tls'[t] \in ctx'[t],
             cache'[t] # Null => cache'[t] \in Own(t) /\ "static" \in Api
      PROVE  PointerInv(t)'
  BY <1>1, <1>2, <1>c DEF PointerInv, InMaking
<1>9. CASE CacheUpdate(t)
  <2>1. /\ pc' = pc /\ home'[t] = Null /\ home[t] = Null /\ tls' = tls
        /\ cache'[t] = tls[t] /\ "static" \in Api
    BY <1>0, <1>9 DEF CacheUpdate, MayCall
  <2>2. tls[t] \in Own(t) \cup {Null}
    BY <1>1, <2>1 DEF PointerInv
  <2> QED
    BY <2>1, <2>2, <1>c
<1>10. CASE ThreadExit(t)
  BY <1>0, <1>10, <1>c DEF ThreadExit
<1>11. CASE LeaveContext(t)
  <2>1. /\ pc' = pc /\ home[t] # Null /\ home'[t] = Null /\ tls'[t] = home[t]
        /\ cache' = cache
    BY <1>0, <1>11 DEF LeaveContext
  <2>2. home[t] \in Own(t)
    BY <2>1 DEF PointerInv
  <2>3. cache'[t] # Null => cache'[t] \in Own(t) /\ "static" \in Api
    BY <2>1 DEF PointerInv
  <2> QED
    BY <2>1, <2>2, <2>3, <1>c
<1>12. ASSUME NEW e \in Entry, EnterContext(t, e) PROVE PointerInv(t)'
  <2>1. /\ pc' = pc /\ home[t] = Null /\ home'[t] = tls[t] /\ tls[t] # Null
        /\ tls'[t] = e /\ e \in ctx'[t] /\ cache' = cache
    BY <1>0, <1>12 DEF EnterContext
  <2>2. tls[t] \in Own(t)
    BY <1>1, <2>1 DEF PointerInv
  <2>3. cache'[t] # Null => cache'[t] \in Own(t) /\ "static" \in Api
    BY <2>1 DEF PointerInv
  <2> QED
    BY <2>1, <2>2, <2>3, <1>c
<1>13. ASSUME NEW e \in Entry, FreeContext(t, e) PROVE PointerInv(t)'
  <2>1. /\ pc' = pc /\ home' = home /\ tls' = tls /\ cache' = cache
        /\ tls[t] # e /\ ctx'[t] = ctx[t] \ {e}
    BY <1>0, <1>13 DEF FreeContext
  <2>2. /\ home[t] = Null => tls[t] \in Own(t) \cup {Null}
        /\ home[t] # Null => home[t] \in Own(t) /\ tls[t] \in ctx'[t]
        /\ cache[t] # Null => cache[t] \in Own(t) /\ "static" \in Api
    BY <1>1, <2>1 DEF PointerInv
  <2> QED
    BY <2>1, <2>2, <1>c
<1>14. ASSUME NEW e \in Entry, FreeContextCrashes(t, e) PROVE PointerInv(t)'
  <2>1. pc' = pc /\ UNCHANGED <<tls, cache, home, ctx>>
    BY <1>14 DEF FreeContextCrashes
  <2> QED
    BY <1>1, <2>1, <1>c DEF PointerInv
<1> QED
  BY <1>4, <1>5, <1>6, <1>7, <1>8, <1>9, <1>10, <1>11, <1>12, <1>13, <1>14
  DEF Call

LEMMA PointerStep ==
  ASSUME Disciplined, IInv, IInv', \A t \in Thread : CallInv(t), NEW t \in Thread,
         Lock(t) \/ Step(t), PointerInv(t)
  PROVE  PointerInv(t)'
<1>0. /\ pc \in [Thread -> Label] /\ loc \in [Thread -> Local]
      /\ tls \in [Thread -> Pointer] /\ cache \in [Thread -> Pointer]
      /\ home \in [Thread -> Pointer] /\ ctx \in [Thread -> SUBSET Entry]
      /\ arr \in [Entry -> Nat]
  BY DEF IInv, TypeOK
<1>1. pc[t] # "find" /\ ~FreeThread(t) => Own(t)' = Own(t)
  BY OwnStep DEF Acts, Create
\* The thread goes on to a label at which it holds no entry of its own making.
<1>a. ASSUME Own(t)' = Own(t), UNCHANGED locals, ~InMaking(t),
             pc'[t] \in {"idle", "lock", "find", "register", "free_thread",
                         "free_workers", "free_id", "new_ctx", "enlarge"},
             pc'[t] \in {"lock", "find", "free_thread"}
                /\ loc'[t].op \in {"find", "free_thread"} => home[t] = Null
      PROVE  PointerInv(t)'
  BY <1>a DEF PointerInv, InMaking, locals
<1>2. CASE Lock(t)
  <2>1. /\ pc[t] = "lock" /\ pc'[t] = loc[t].op /\ loc' = loc /\ UNCHANGED locals
        /\ loc[t].op \in Entered
    BY <1>0, <1>2 DEF Lock, Local
  <2>2. pc'[t] \in {"find", "free_thread"} => home[t] = Null
    BY <2>1 DEF PointerInv
  <2>3. Own(t)' = Own(t)
    BY <1>1, <2>1 DEF FreeThread
  <2>4. ~InMaking(t) /\ pc'[t] # "lock" /\ pc'[t] \in
           {"idle", "lock", "find", "register", "free_thread",
                         "free_workers", "free_id", "new_ctx", "enlarge"}
    BY <2>1 DEF InMaking, Entered, Critical
  <2> QED
    BY <2>1, <2>2, <2>3, <2>4, <1>a
<1>3. CASE Find(t)
  <2>1. PICK e \in Entries(loc[t].who) : loc' = [loc EXCEPT ![t].e = e]
    BY <1>3 DEF Find
  <2>2. e \in Own(t)
    BY <1>3, <2>1, OwnEntries DEF Find, CallInv
  <2>3. Own(t)' = Own(t)
    BY <1>3, OwnStep DEF Find, FreeThread, Create, Acts
  <2>4. /\ pc[t] = "find" /\ pc'[t] = "load" /\ loc'[t].e = e /\ UNCHANGED locals
    BY <1>0, <1>3, <2>1 DEF Find, Local
  <2> QED
    BY <2>2, <2>3, <2>4 DEF PointerInv, InMaking, locals
<1>4. CASE Load(t)
  <2>1. /\ pc[t] = "load" /\ pc'[t] = "deref" /\ loc'[t].e = loc[t].e
        /\ loc'[t].ver = arr[loc[t].e] /\ arr' = arr /\ UNCHANGED locals
    BY <1>0, <1>4 DEF Load, Local, heap
  <2>2. Own(t)' = Own(t)
    BY <1>1, <2>1 DEF FreeThread
  <2> QED
    BY <2>1, <2>2 DEF PointerInv, InMaking, locals
<1>5. CASE Deref(t) \/ FreeId(t) \/ Enlarged(t)
  <2>1. /\ pc[t] \in {"load", "deref", "free_id", "enlarge"} /\ pc'[t] = "idle"
        /\ UNCHANGED locals
    BY <1>0, <1>5 DEF Deref, FreeId, Enlarged, UnlockReturn, Return
  <2>2. Own(t)' = Own(t) /\ ~InMaking(t)
    BY <1>1, <2>1 DEF FreeThread, InMaking
  <2> QED
    BY <2>1, <2>2, <1>a
<1>6. CASE Register(t)
  <2>1. /\ pc[t] = "register" /\ pc'[t] \in {"idle", "enlarge"} /\ UNCHANGED locals
    BY <1>0, <1>6 DEF Register, UnlockReturn, Return
  <2>2. Own(t)' = Own(t) /\ ~InMaking(t)
    BY <1>1, <2>1 DEF FreeThread, InMaking
  <2> QED
    BY <2>1, <2>2, <1>a
<1>7. ASSUME NEW e \in Entry, Create(t, e) PROVE PointerInv(t)'
  <2>1. /\ pc[t] = "find" /\ loc[t].op = "find" /\ home[t] = Null
    BY <1>7 DEF Create, IInv, LocInv, Entered, Critical, PointerInv
  <2>2. /\ pc'[t] = "build" /\ loc'[t].e = e /\ loc'[t].op = "find"
        /\ tls'[t] = e /\ UNCHANGED <<cache, home, ctx>>
    BY <1>0, <1>7, <2>1 DEF Create, Allocate, Local
  <2>3. e \in Own(t)'
    <3>1. loc[t].who = t
      BY <2>1 DEF CallInv
    <3>2. e \in Linked' /\ owner'[e] = t
      BY <1>7, <3>1, ThreadAssumption DEF Create, Allocate, Linked, IInv, TypeOK
    <3> QED
      BY <3>2 DEF Own
  <2>4. Own(t) \subseteq Own(t)'
    BY <1>7, <2>1, OwnStep DEF Acts, FreeThread
  <2> QED
    BY <2>1, <2>2, <2>3, <2>4 DEF PointerInv, InMaking
<1>8. ASSUME NEW e \in Entry, NewContext(t, e) PROVE PointerInv(t)'
  <2>1. pc[t] = "new_ctx" /\ loc[t].op = "new_ctx" /\ ~InMaking(t)
    BY <1>8 DEF NewContext, IInv, LocInv, Entered, Critical, InMaking
  <2>2. /\ pc'[t] = "build" /\ loc'[t].e = e /\ loc'[t].op = "new_ctx"
        /\ loc'[t].prev = tls[t] /\ UNCHANGED <<cache, home, ctx>>
    BY <1>0, <1>8, <2>1 DEF NewContext, Allocate, Local
  <2>3. Own(t)' = Own(t)
    BY <1>1, <2>1 DEF FreeThread
  <2> QED
    BY <2>1, <2>2, <2>3 DEF PointerInv, InMaking
<1>9. CASE \/ Crash(t) \/ \E i \in Id : BuildSlot(t, i)
           \/ \E e \in Entry : Enlarge(t, e)
  <2>1. pc' = pc /\ loc' = loc /\ UNCHANGED locals /\ (pc[t] = "deref" => arr' = arr)
    BY <1>9 DEF Crash, BuildSlot, Enlarge, heap
  <2>2. Own(t)' = Own(t)
    <3>1. UNCHANGED <<table, owner>>
      BY <1>9 DEF Crash, BuildSlot, Enlarge, heap
    <3> QED
      BY <3>1 DEF Own, Linked
  <2> QED
    BY <2>1, <2>2 DEF PointerInv, InMaking, locals
<1>10. CASE Built(t)
  <2>1. /\ pc[t] = "build" /\ UNCHANGED locals /\ Own(t)' = Own(t)
        /\ loc[t].op \in {"find", "new_ctx"}
    BY <1>1, <1>10 DEF Built, FreeThread, IInv, LocInv
  <2>2. CASE loc[t].op = "new_ctx"
    <3>1. pc'[t] = "restore" /\ loc'[t] = loc[t]
      BY <1>0, <1>10, <2>2 DEF Built
    <3> QED
      BY <2>1, <2>2, <3>1 DEF PointerInv, InMaking, locals
  <2>3. CASE loc[t].op = "find"
    <3>1. pc'[t] = "lock" /\ loc'[t].op = "find" /\ home[t] = Null
      BY <1>0, <1>10, <2>1, <2>3 DEF Built, Local, PointerInv
    <3>2. ~InMaking(t)
      BY <2>3 DEF InMaking
    <3> QED
      BY <2>1, <3>1, <3>2, <1>a
  <2> QED
    BY <2>1, <2>2, <2>3
<1>11. CASE FreeThread(t)
  <2>1. /\ pc[t] = "free_thread" /\ loc[t].op = "free_thread" /\ home[t] = Null
    BY <1>11 DEF FreeThread, IInv, LocInv, Entered, Critical, PointerInv
  <2>2. cache[t] = Null
    BY <2>1 DEF PointerInv, CallInv, Disciplined
  <2>3. tls'[t] = Null
    <3>1. Entries(t) = {} => tls[t] = Null
      BY <2>1, OwnEntries DEF PointerInv, InMaking
    <3> QED
      BY <1>0, <1>11, <3>1 DEF FreeThread
  <2>4. pc'[t] = "idle" /\ UNCHANGED <<cache, home, ctx>>
    BY <1>0, <1>11 DEF FreeThread, UnlockReturn, Return
  <2> QED
    BY <2>1, <2>2, <2>3, <2>4 DEF PointerInv, InMaking
<1>12. CASE FreeWorkers(t)
  BY <1>12 DEF FreeWorkers, CallInv, IInv, LocInv, Entered, Critical
<1>13. CASE Restore(t)
  <2>1. InMaking(t) /\ pc'[t] = "idle" /\ Own(t)' = Own(t)
    BY <1>0, <1>1, <1>13 DEF Restore, Return, InMaking, IInv, LocInv, FreeThread
  <2>2. /\ tls'[t] = loc[t].prev /\ ctx'[t] = ctx[t] \cup {loc[t].e}
        /\ UNCHANGED <<cache, home>>
    BY <1>0, <1>13 DEF Restore
  <2> QED
    BY <2>1, <2>2 DEF PointerInv, InMaking
<1> QED
  BY <1>2, <1>3, <1>4, <1>5, <1>6, <1>7, <1>8, <1>9, <1>10, <1>11, <1>12, <1>13
  DEF Step

-----------------------------------------------------------------------------
(* The theorems about reads.                                               *)

ClientInv ==
    /\ \A t \in Thread : CallInv(t)
    /\ phase # "down" => \A t \in Thread : ContextInv(t) /\ PointerInv(t)

LEMMA ClientInit == Init => ClientInv
<1> SUFFICES ASSUME Init PROVE ClientInv
  OBVIOUS
<1>1. \A t \in Thread : CallInv(t)
  BY DEF Init, CallInv, Idle
<1>2. \A t \in Thread : ContextInv(t)
  BY DEF Init, ContextInv, Private, InMaking
<1>3. \A t \in Thread : PointerInv(t)
  BY DEF Init, PointerInv, InMaking, Idle
<1> QED
  BY <1>1, <1>2, <1>3 DEF ClientInv

LEMMA ClientStep ==
  ASSUME Disciplined
  PROVE  IInv /\ IInv' /\ IdsInv /\ ClientInv /\ [Next]_vars => ClientInv'
<1> SUFFICES ASSUME IInv, IInv', IdsInv, ClientInv, [Next]_vars PROVE ClientInv'
  OBVIOUS
<1>1. \A t \in Thread : CallInv(t)'
  BY CallStep DEF ClientInv
<1> SUFFICES ASSUME phase' # "down"
             PROVE  \A t \in Thread : ContextInv(t)' /\ PointerInv(t)'
  BY <1>1 DEF ClientInv
<1>2. phase # "down"
  <2>1. ASSUME NEW t \in Thread, Acts(t) PROVE phase # "down"
    BY <2>1, ActsPhase
  <2> QED
    BY <2>1 DEF Next, Acts, Serve, Shutdown, Terminated, vars
<1>3. \A t \in Thread : ContextInv(t)'
  BY <1>1, <1>2, ContextStep DEF ClientInv
<1>4. ASSUME NEW u \in Thread PROVE PointerInv(u)'
  <2>0. PointerInv(u) /\ \A t \in Thread : CallInv(t)
    BY <1>2 DEF ClientInv
  <2>1. ASSUME NEW t \in Thread, t # u, Acts(t) PROVE PointerInv(u)'
    BY <2>0, <2>1, PointerBystander
  <2>2. CASE Acts(u)
    BY <2>0, <2>2, PointerCall, PointerStep DEF Acts
  <2>3. CASE Serve \/ UNCHANGED vars
    BY <2>0, <2>3 DEF Serve, vars, locals, heap, PointerInv, InMaking, Own, Linked
  <2>4. CASE Shutdown
    BY <2>4 DEF Shutdown
  <2> QED
    BY <2>1, <2>2, <2>3, <2>4 DEF Next, Terminated, Acts
<1> QED
  BY <1>3, <1>4

LEMMA ReadProperties ==
  ASSUME IInv, IdsInv, ClientInv
  PROVE  ReadSafe /\ OwnResource
<1> SUFFICES ASSUME NEW t \in Thread, pc[t] \in {"load", "deref"}
             PROVE  /\ loc[t].e \in used
                    /\ owner[loc[t].e] = loc[t].who
                    /\ pc[t] = "deref" =>
                          /\ loc[t].ver = arr[loc[t].e]
                          /\ loc[t].id \in 1..count[loc[t].e]
                          /\ \/ slot[loc[t].e][loc[t].id] = "live"
                             \/ loc[t].id \in done
  BY DEF ReadSafe, OwnResource
<1> DEFINE e == loc[t].e
<1>1. CallInv(t) /\ ContextInv(t) /\ PointerInv(t)
  BY DEF ClientInv, CallInv
<1>2. /\ e \in Own(t) \cup ctx[t] /\ loc[t].who = t
      /\ pc[t] = "deref" => loc[t].ver = arr[e]
  BY <1>1 DEF PointerInv, CallInv
<1>3. e \in used /\ e \in Entry
  BY <1>2 DEF Own, IInv, TableInv, TypeOK
<1>4. Known \in Nat /\ Known <= idCount /\ idCount \in Nat /\ count[e] \in Nat
  BY <1>3, PublishedType, BoundAssumption DEF IInv, TypeOK, IdsInv
<1>5. CASE e \in Own(t)
  <2>1. ~UnderConstruction(e)
    <3>1. ASSUME NEW u \in Thread, pc[u] = "build", loc[u].op = "find", loc[u].e = e
          PROVE  FALSE
      <4>1. e \in Own(u)
        BY <3>1 DEF ClientInv, CallInv, PointerInv
      <4> QED
        BY <1>5, <3>1, <4>1 DEF Own
    <3> QED
      BY <3>1 DEF UnderConstruction
  <2>2. owner[e] = t /\ e \in Linked /\ Known <= count[e]
    BY <1>5 DEF Own, IInv, ReadyInv
  <2>3. ASSUME pc[t] = "deref"
        PROVE  /\ loc[t].id \in 1..count[e]
               /\ slot[e][loc[t].id] = "live" \/ loc[t].id \in done
    <3>1. loc[t].id \in 1..Known
      BY <2>3 DEF IdsInv, Published, IInv, LocInv
    <3>2. loc[t].id \in 1..count[e]
      BY <1>4, <2>2, <3>1
    <3> QED
      BY <2>1, <2>2, <3>2 DEF IInv, ReadyInv, Right
  <2> QED
    BY <1>2, <1>3, <2>2, <2>3
<1>6. CASE e \in ctx[t]
  <2>1. Private(t, e)
    BY <1>6 DEF Private
  <2>2. owner[e] = t /\ count[e] = idCount
    BY <1>1, <1>3, <2>1 DEF ContextInv
  <2>3. ASSUME pc[t] = "deref"
        PROVE  /\ loc[t].id \in 1..count[e]
               /\ slot[e][loc[t].id] = "live" \/ loc[t].id \in done
    <3>1. loc[t].id \in 1..Known
      BY <2>3 DEF IdsInv, Published, IInv, LocInv
    <3>2. loc[t].id \in 1..idCount
      BY <1>4, <3>1
    <3> QED
      BY <1>1, <1>3, <2>1, <2>2, <3>2 DEF ContextInv
  <2> QED
    BY <1>2, <1>3, <2>2, <2>3
<1> QED
  BY <1>2, <1>5, <1>6

\* In a disciplined program a read without the mutex finds an entry and an array
\* that still exist, an index inside it and a resource that is constructed, or
\* was retired; whatever other threads allocate, free and build meanwhile.
THEOREM ReadsSafe ==
  ASSUME Disciplined
  PROVE  Spec => []ReadSafe
<1>1. IInv /\ IdsInv /\ ClientInv => ReadSafe
  BY ReadProperties
<1> QED
  BY <1>1, IInvInit, IdsInit, ClientInit, IInvStep, IdsStep, ClientStep, PTL
  DEF Spec

\* In a disciplined program every thread reads its own resources.
THEOREM ReadsOwn ==
  ASSUME Disciplined
  PROVE  Spec => []OwnResource
<1>1. IInv /\ IdsInv /\ ClientInv => OwnResource
  BY ReadProperties
<1> QED
  BY <1>1, IInvInit, IdsInit, ClientInit, IInvStep, IdsStep, ClientStep, PTL
  DEF Spec
=============================================================================
