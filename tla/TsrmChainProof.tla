---------------------------- MODULE TsrmChainProof ----------------------------
(***************************************************************************)
(* Proofs about TsrmChain, for any threads, buckets, hash function and     *)
(* addresses.                                                              *)
(*                                                                         *)
(* What can be reached is the least set that is closed under next, so a    *)
(* set is shown to be a chain by comparing it with closed sets; neither    *)
(* the order nor the length of a chain is ever needed.                     *)
(***************************************************************************)
EXTENDS TsrmChain, TLAPS

-----------------------------------------------------------------------------
(* What can be reached, for any pointers.                                  *)

ClosedIn(nx, q, S) ==
    /\ q \in S \cup {Null}
    /\ \A e \in S : nx[e] \in S \cup {Null}

FromIn(nx, q) ==
    {e \in Entry : \A S \in SUBSET Entry : ClosedIn(nx, q, S) => e \in S}

Pointers == [Entry -> Pointer]

LEMMA FromIsClosed ==
  ASSUME NEW nx \in Pointers, NEW q \in Pointer
  PROVE  /\ FromIn(nx, q) \in SUBSET Entry
         /\ ClosedIn(nx, q, FromIn(nx, q))
<1> DEFINE F == FromIn(nx, q)
<1>1. F \in SUBSET Entry
  BY DEF FromIn
<1>2. q \in F \cup {Null}
  BY DEF FromIn, ClosedIn, Pointer
<1>3. ASSUME NEW e \in F PROVE nx[e] \in F \cup {Null}
  <2>1. e \in Entry /\ nx[e] \in Pointer
    BY <1>1, <1>3 DEF Pointers
  <2>2. ASSUME NEW S \in SUBSET Entry, ClosedIn(nx, q, S), nx[e] # Null
        PROVE  nx[e] \in S
    <3>1. e \in S
      BY <1>3, <2>2 DEF FromIn
    <3> QED
      BY <2>2, <3>1 DEF ClosedIn
  <2> QED
    BY <2>1, <2>2 DEF FromIn, Pointer
<1> QED
  BY <1>1, <1>2, <1>3 DEF ClosedIn

LEMMA FromIsLeast ==
  ASSUME NEW nx, NEW q, NEW S \in SUBSET Entry, ClosedIn(nx, q, S)
  PROVE  FromIn(nx, q) \subseteq S
BY DEF FromIn

LEMMA FromNull ==
  ASSUME NEW nx
  PROVE  FromIn(nx, Null) = {}
<1>1. ClosedIn(nx, Null, {})
  BY DEF ClosedIn
<1> QED
  BY <1>1, FromIsLeast

LEMMA FromFirst ==
  ASSUME NEW nx \in Pointers, NEW q \in Entry
  PROVE  FromIn(nx, q) = {q} \cup FromIn(nx, nx[q])
<1> DEFINE F == FromIn(nx, q)
           G == FromIn(nx, nx[q])
<1>0. q \in Pointer /\ q # Null /\ nx[q] \in Pointer
  BY ChainAssumption DEF Pointer, Pointers
<1>1. F \in SUBSET Entry /\ ClosedIn(nx, q, F)
  BY <1>0, FromIsClosed
<1>2. G \in SUBSET Entry /\ ClosedIn(nx, nx[q], G)
  BY <1>0, FromIsClosed
<1>3. F \subseteq {q} \cup G
  <2>1. ClosedIn(nx, q, {q} \cup G)
    BY <1>2 DEF ClosedIn
  <2> QED
    BY <2>1, <1>2, FromIsLeast
<1>4. q \in F
  BY <1>0, <1>1 DEF ClosedIn
<1>5. ClosedIn(nx, nx[q], F)
  BY <1>1, <1>4 DEF ClosedIn
<1>6. G \subseteq F
  BY <1>5, <1>1, FromIsLeast
<1> QED
  BY <1>3, <1>4, <1>6

\* A change of pointers that are not reached.
LEMMA FromSame ==
  ASSUME NEW nx \in Pointers, NEW ny \in Pointers, NEW q \in Pointer,
         \A e \in FromIn(nx, q) : ny[e] = nx[e]
  PROVE  FromIn(ny, q) = FromIn(nx, q)
<1> DEFINE F == FromIn(nx, q)
           G == FromIn(ny, q)
<1>1. F \in SUBSET Entry /\ ClosedIn(nx, q, F)
  BY FromIsClosed
<1>2. G \in SUBSET Entry /\ ClosedIn(ny, q, G)
  BY FromIsClosed
<1>3. \A e \in F : ny[e] = nx[e]
  OBVIOUS
<1> HIDE DEF F, G
<1>4. ClosedIn(ny, q, F)
  BY <1>1, <1>3 DEF ClosedIn
<1>5. ClosedIn(nx, q, F \cap G)
  BY <1>1, <1>2, <1>3 DEF ClosedIn
<1>6. G \subseteq F
  BY <1>1, <1>4, FromIsLeast DEF G
<1>7. F \subseteq F \cap G
  <2>1. F \cap G \in SUBSET Entry
    BY <1>1
  <2> QED
    BY <2>1, <1>5, FromIsLeast DEF F
<1>8. F = G
  BY <1>6, <1>7
<1> QED
  BY <1>8 DEF F, G

\* A new last entry.
Appends(nx, ny, q, x, e) ==
    /\ nx \in Pointers /\ ny \in Pointers /\ q \in Pointer
    /\ x \in FromIn(nx, q) /\ nx[x] = Null
    /\ e \in Entry /\ e \notin FromIn(nx, q)
    /\ ny[x] = e /\ ny[e] = Null
    /\ \A f \in Entry \ {x, e} : ny[f] = nx[f]

LEMMA FromAppended ==
  ASSUME NEW nx, NEW ny, NEW q, NEW x, NEW e, Appends(nx, ny, q, x, e)
  PROVE  FromIn(ny, q) = FromIn(nx, q) \cup {e}
<1> USE DEF Appends
<1> DEFINE F == FromIn(nx, q)
           G == FromIn(ny, q)
<1>1. F \in SUBSET Entry /\ ClosedIn(nx, q, F)
  BY FromIsClosed
<1>2. x \in F /\ x \in Entry /\ e \notin F /\ e # x
  BY <1>1
<1>3. /\ ny[x] = e /\ ny[e] = Null
      /\ \A f \in Entry : f # x /\ f # e => ny[f] = nx[f]
  BY <1>2
<1>4. G \in SUBSET Entry /\ ClosedIn(ny, q, G)
  BY <1>3, FromIsClosed
<1> HIDE DEF F, G
<1>5. ClosedIn(ny, q, F \cup {e})
  BY <1>1, <1>2, <1>3 DEF ClosedIn
<1>6. G \subseteq F \cup {e}
  BY <1>1, <1>5, FromIsLeast DEF G
<1>7. ClosedIn(nx, q, F \cap G)
  <2>1. q \in (F \cap G) \cup {Null}
    BY <1>1, <1>4 DEF ClosedIn
  <2>2. ASSUME NEW f \in F \cap G PROVE nx[f] \in (F \cap G) \cup {Null}
    <3>1. CASE f = x
      BY <3>1
    <3>2. CASE f # x
      <4>1. ny[f] = nx[f]
        BY <3>2, <1>1, <1>2, <1>3
      <4> QED
        BY <4>1, <1>1, <1>4 DEF ClosedIn
    <3> QED
      BY <3>1, <3>2
  <2> QED
    BY <2>1, <2>2 DEF ClosedIn
<1>8. F \subseteq G
  <2>1. F \cap G \in SUBSET Entry
    BY <1>1
  <2> QED
    BY <2>1, <1>7, FromIsLeast DEF F
<1>9. e \in G
  BY <1>8, <1>2, <1>3, <1>4, ChainAssumption DEF ClosedIn
<1>10. G = F \cup {e}
  BY <1>6, <1>8, <1>9
<1> QED
  BY <1>10 DEF F, G

\* The first entry is taken out: nothing else leads to it.
LEMMA FromUnlinkedFirst ==
  ASSUME NEW nx \in Pointers, NEW x \in Entry,
         \A f \in FromIn(nx, x) : nx[f] # x
  PROVE  FromIn(nx, nx[x]) = FromIn(nx, x) \ {x}
<1> DEFINE F == FromIn(nx, x)
           G == FromIn(nx, nx[x])
<1>1. F = {x} \cup G
  BY FromFirst
<1>2. nx[x] \in Pointer
  BY DEF Pointers
<1>3. G \in SUBSET Entry /\ ClosedIn(nx, nx[x], G)
  BY <1>2, FromIsClosed
<1>4. \A f \in F : nx[f] # x
  OBVIOUS
<1> HIDE DEF F, G
<1>5. ClosedIn(nx, nx[x], G \ {x})
  BY <1>1, <1>3, <1>4 DEF ClosedIn
<1>6. G \subseteq G \ {x}
  <2>1. G \ {x} \in SUBSET Entry
    BY <1>3
  <2> QED
    BY <2>1, <1>5, FromIsLeast DEF G
<1>7. G = F \ {x}
  BY <1>1, <1>6
<1> QED
  BY <1>7 DEF F, G

\* An entry behind another is taken out.
Unlinks(nx, ny, q, x, l) ==
    /\ nx \in Pointers /\ ny \in Pointers /\ q \in Pointer
    /\ x \in FromIn(nx, q) /\ l \in FromIn(nx, q)
    /\ q # x /\ nx[l] = x
    /\ \A f \in FromIn(nx, q) : nx[f] = x => f = l
    /\ ny[l] = nx[x]
    /\ \A f \in Entry \ {l} : ny[f] = nx[f]

LEMMA FromUnlinked ==
  ASSUME NEW nx, NEW ny, NEW q, NEW x, NEW l, Unlinks(nx, ny, q, x, l)
  PROVE  /\ FromIn(ny, q) = FromIn(nx, q) \ {x}
         /\ FromIn(nx, x) \ {x} \subseteq FromIn(ny, nx[x])
         /\ l # x
<1> USE DEF Unlinks
<1> DEFINE F == FromIn(nx, q)
           G == FromIn(ny, q)
           H == FromIn(ny, nx[x])
<1>1. F \in SUBSET Entry /\ ClosedIn(nx, q, F)
  BY FromIsClosed
<1>2. /\ x \in F /\ l \in F /\ x \in Entry /\ l \in Entry
      /\ \A f \in F : nx[f] = x => f = l
  BY <1>1
<1>3. /\ \A f \in Entry : f # l => ny[f] = nx[f]
      /\ nx[x] \in Pointer
      /\ nx[l] = x
  BY <1>2 DEF Pointers, Pointer
<1>4. G \in SUBSET Entry /\ ClosedIn(ny, q, G)
  BY <1>3, FromIsClosed
<1>5. H \in SUBSET Entry /\ ClosedIn(ny, nx[x], H)
  BY <1>3, FromIsClosed
<1> HIDE DEF F, G, H
<1>6. l # x
  <2> SUFFICES ASSUME l = x PROVE FALSE
    OBVIOUS
  <2>1. ClosedIn(nx, q, F \ {x})
    BY <1>1, <1>2 DEF ClosedIn
  <2>2. F \ {x} \in SUBSET Entry
    BY <1>1
  <2>3. F \subseteq F \ {x}
    BY <2>1, <2>2, FromIsLeast DEF F
  <2> QED
    BY <2>3, <1>2
<1>7. nx[x] # x
  BY <1>2, <1>6
<1>8. ClosedIn(ny, q, F \ {x})
  <2>1. q \in (F \ {x}) \cup {Null}
    BY <1>1 DEF ClosedIn
  <2>2. ASSUME NEW f \in F \ {x} PROVE ny[f] \in (F \ {x}) \cup {Null}
    <3>1. CASE f = l
      BY <3>1, <1>1, <1>2, <1>3, <1>7 DEF ClosedIn
    <3>2. CASE f # l
      <4>1. ny[f] = nx[f] /\ nx[f] # x
        BY <3>2, <1>1, <1>2, <1>3
      <4> QED
        BY <4>1, <1>1 DEF ClosedIn
    <3> QED
      BY <3>1, <3>2
  <2> QED
    BY <2>1, <2>2 DEF ClosedIn
<1>9. G \subseteq F \ {x}
  <2>1. F \ {x} \in SUBSET Entry
    BY <1>1
  <2> QED
    BY <2>1, <1>8, FromIsLeast DEF G
<1>10. l \in G
  <2> SUFFICES ASSUME l \notin G PROVE FALSE
    OBVIOUS
  <2>1. \A f \in G : ny[f] = nx[f]
    BY <1>3, <1>4
  <2>2. ClosedIn(nx, q, G)
    BY <2>1, <1>4 DEF ClosedIn
  <2>3. F \subseteq G
    BY <2>2, <1>4, FromIsLeast DEF F
  <2> QED
    BY <2>3, <1>2
<1>11. ClosedIn(nx, q, G \cup {x})
  <2>1. q \in G \cup {x} \cup {Null}
    BY <1>4 DEF ClosedIn
  <2>2. nx[x] \in G \cup {x} \cup {Null}
    BY <1>10, <1>3, <1>4 DEF ClosedIn
  <2>3. ASSUME NEW f \in G PROVE nx[f] \in G \cup {x} \cup {Null}
    BY <1>3, <1>4 DEF ClosedIn
  <2> QED
    BY <2>1, <2>2, <2>3 DEF ClosedIn
<1>12. F \subseteq G \cup {x}
  <2>1. G \cup {x} \in SUBSET Entry
    BY <1>2, <1>4
  <2> QED
    BY <2>1, <1>11, FromIsLeast DEF F
<1>13. G = F \ {x}
  BY <1>9, <1>12
<1>14. FromIn(nx, x) \ {x} \subseteq H
  <2>1. ClosedIn(nx, x, H \cup {x})
    BY <1>3, <1>5 DEF ClosedIn
  <2>2. H \cup {x} \in SUBSET Entry
    BY <1>2, <1>5
  <2>3. FromIn(nx, x) \subseteq H \cup {x}
    BY <2>1, <2>2, FromIsLeast
  <2> QED
    BY <2>3
<1> QED
  BY <1>6, <1>13, <1>14 DEF F, G, H

-----------------------------------------------------------------------------
(* The invariant.                                                          *)

Walks == {"find", "free_thread", "free_workers"}

\* No two pointers lead to one entry.
Apart ==
    /\ \A e, f \in used : next[e] = next[f] => e = f \/ next[e] = Null
    /\ \A e \in used, b \in Bucket : next[e] = ChainHead(b) => next[e] = Null

UniqueEntry == \A e, f \in used : owner[e] = owner[f] => e = f

CallInv ==
    /\ op \in Walks => /\ bucket = Hash[me]
                       /\ p # Null => p \in Chain(bucket)
    /\ op = "find" /\ p = Null => table[bucket] = Null
    /\ op = "shutdown" /\ p # Null => bucket \notin todo
    /\ op = "down" => p = Null /\ todo = {}

\* What lies behind the loop: entries of others, or what is left of them.
PassedInv ==
    op \in Walks => \A e \in Chain(bucket) \ From(p) :
                       owner[e] = me <=> op = "free_workers"

IInv ==
    /\ TypeOK
    /\ ChainsExact
    /\ Apart
    /\ UniqueEntry
    /\ CallInv
    /\ LastLeadsHere
    /\ PassedInv

LEMMA ChainIs ==
  /\ From(p) = FromIn(next, p)
  /\ \A b \in Bucket : Chain(b) = FromIn(next, ChainHead(b))
BY DEF Chain, From, Closed, FromIn, ClosedIn

LEMMA ChainIsNext ==
  /\ From(p)' = FromIn(next', p')
  /\ \A b \in Bucket : Chain(b)' = FromIn(next', ChainHead(b)')
BY DEF Chain, From, Closed, FromIn, ClosedIn

LEMMA ChainFacts ==
  ASSUME TypeOK, ChainsExact, NEW b \in Bucket
  PROVE  /\ ChainHead(b) \in Pointer
         /\ Chain(b) \in SUBSET Entry
         /\ Chain(b) \in SUBSET used
         /\ ChainHead(b) \in Chain(b) \cup {Null}
         /\ \A e \in Chain(b) : next[e] \in Chain(b) \cup {Null}
<1>1. ChainHead(b) \in Pointer
  BY DEF ChainHead, TypeOK, Pointer
<1>2. next \in Pointers
  BY DEF TypeOK, Pointers
<1>3. Chain(b) \in SUBSET Entry /\ ClosedIn(next, ChainHead(b), Chain(b))
  BY <1>1, <1>2, FromIsClosed, ChainIs
<1>4. Chain(b) \in SUBSET used
  BY DEF ChainsExact
<1> QED
  BY <1>1, <1>3, <1>4 DEF ClosedIn

\* Every allocated entry is in one chain.
LEMMA UsedFacts ==
  ASSUME TypeOK, ChainsExact
  PROVE  /\ \A e \in used : /\ Hash[owner[e]] \in Bucket
                            /\ e \in Chain(Hash[owner[e]])
                            /\ e \in Entry /\ e # Null
                            /\ next[e] \in used \cup {Null}
         /\ \A b \in Bucket : ChainHead(b) \in used \cup {Null}
<1>1. ASSUME NEW e \in used
      PROVE  /\ Hash[owner[e]] \in Bucket
             /\ e \in Chain(Hash[owner[e]])
             /\ e \in Entry /\ e # Null
             /\ next[e] \in used \cup {Null}
  <2>1. e \in Entry /\ e # Null /\ Hash[owner[e]] \in Bucket
    BY ChainAssumption DEF TypeOK
  <2>2. e \in Chain(Hash[owner[e]])
    BY <2>1 DEF ChainsExact
  <2> QED
    BY <2>1, <2>2, ChainFacts
<1>2. \A b \in Bucket : ChainHead(b) \in used \cup {Null}
  BY ChainFacts
<1> QED
  BY <1>1, <1>2

\* A turn of a loop that only moves on.
LEMMA Kept ==
  ASSUME TypeOK, ChainsExact, Apart, UniqueEntry,
         UNCHANGED <<next, owner, used>>,
         \A b \in Bucket : ChainHead(b)' = ChainHead(b)
  PROVE  /\ \A b \in Bucket : Chain(b)' = Chain(b)
         /\ ChainsExact' /\ Apart' /\ UniqueEntry'
<1>1. \A b \in Bucket : Chain(b)' = Chain(b)
  BY ChainIs, ChainIsNext
<1>2. ChainsExact'
  BY <1>1 DEF ChainsExact
<1>3. Apart'
  BY DEF Apart
<1>4. UniqueEntry'
  BY DEF UniqueEntry
<1> QED
  BY <1>1, <1>2, <1>3, <1>4

\* An entry is freed and no chain leads to it any longer.
LEMMA Freed ==
  ASSUME TypeOK, ChainsExact, UniqueEntry,
         NEW x \in used,
         used' = used \ {x}, UNCHANGED owner,
         \A b \in Bucket : Chain(b)' = Chain(b) \ {x}
  PROVE  ChainsExact' /\ UniqueEntry'
BY DEF ChainsExact, UniqueEntry

\* Freeing the first entry of a chain: what leads to it leads to the next one.
LEMMA FreedFirst ==
  ASSUME TypeOK, ChainsExact, Apart, UniqueEntry,
         NEW c \in Bucket, NEW x \in Entry, ChainHead(c) = x,
         ChainHead(c)' = next[x],
         \A b \in Bucket \ {c} : ChainHead(b)' = ChainHead(b),
         used' = used \ {x}, UNCHANGED <<next, owner>>
  PROVE  /\ \A b \in Bucket : Chain(b)' = Chain(b) \ {x}
         /\ ChainsExact' /\ Apart' /\ UniqueEntry'
<1>0. x # Null /\ next \in Pointers
  BY ChainAssumption DEF TypeOK, Pointers
<1>1. x \in Chain(c) /\ x \in used
  BY <1>0, ChainFacts
<1>2. \A f \in Chain(c) : next[f] # x
  BY <1>0, ChainFacts DEF Apart
<1>3. ASSUME NEW b \in Bucket PROVE Chain(b)' = Chain(b) \ {x}
  <2>1. CASE b = c
    <3>1. Chain(c) = FromIn(next, x)
      BY ChainIs
    <3>2. Chain(c)' = FromIn(next, next[x])
      BY ChainIsNext
    <3> QED
      BY <2>1, <3>1, <3>2, <1>0, <1>2, FromUnlinkedFirst
  <2>2. CASE b # c
    <3>1. Chain(b)' = Chain(b)
      BY <2>2, ChainIs, ChainIsNext
    <3>2. x \notin Chain(b)
      BY <2>2, <1>1 DEF ChainsExact
    <3> QED
      BY <3>1, <3>2
  <2> QED
    BY <2>1, <2>2
<1>4. ChainsExact' /\ UniqueEntry'
  BY <1>1, <1>3, Freed
<1>5. Apart'
  <2>1. \A e, f \in used' : next'[e] = next'[f] => e = f \/ next'[e] = Null
    BY DEF Apart
  <2>2. ASSUME NEW e \in used', NEW b \in Bucket, next'[e] = ChainHead(b)'
        PROVE  next'[e] = Null
    BY <1>1, <2>2 DEF Apart
  <2> QED
    BY <2>1, <2>2 DEF Apart
<1> QED
  BY <1>3, <1>4, <1>5

\* Freeing an entry behind another.
LEMMA FreedBehind ==
  ASSUME TypeOK, ChainsExact, Apart, UniqueEntry,
         NEW c \in Bucket, NEW x \in Chain(c), NEW l \in Chain(c), next[l] = x,
         next' = [next EXCEPT ![l] = next[x]],
         \A b \in Bucket : ChainHead(b)' = ChainHead(b),
         used' = used \ {x}, UNCHANGED owner
  PROVE  /\ \A b \in Bucket : Chain(b)' = Chain(b) \ {x}
         /\ ChainsExact' /\ Apart' /\ UniqueEntry'
         /\ FromIn(next, x) \ {x} \subseteq FromIn(next', next[x])
         /\ l # x
<1>0. next \in Pointers /\ ChainHead(c) \in Pointer
  BY ChainFacts DEF TypeOK, Pointers
<1>1. /\ x \in used /\ l \in used /\ x \in Entry /\ l \in Entry /\ x # Null
      /\ Chain(c) \in SUBSET used
  BY ChainFacts, ChainAssumption
<1>2. \A f \in used : next[f] = x => f = l
  BY <1>1 DEF Apart
<1>3. \A b \in Bucket : ChainHead(b) # x
  BY <1>1 DEF Apart
<1>4. Chain(c) = FromIn(next, ChainHead(c))
  BY ChainIs
<1>5. /\ FromIn(next', ChainHead(c)) = Chain(c) \ {x}
      /\ FromIn(next, x) \ {x} \subseteq FromIn(next', next[x])
      /\ l # x
  <2>1. \A f \in FromIn(next, ChainHead(c)) : next[f] = x => f = l
    BY <1>1, <1>2, <1>4
  <2>2. ChainHead(c) # x
    BY <1>3
  <2>3. x \in FromIn(next, ChainHead(c)) /\ l \in FromIn(next, ChainHead(c))
    BY <1>4
  <2> DEFINE q == ChainHead(c)
  <2>4. q \in Pointer /\ q # x /\ x \in FromIn(next, q) /\ l \in FromIn(next, q)
    BY <1>0, <2>2, <2>3
  <2>5. \A f \in FromIn(next, q) : next[f] = x => f = l
    BY <2>1
  <2>6. /\ next' \in Pointers /\ next'[l] = next[x]
        /\ \A f \in Entry \ {l} : next'[f] = next[f]
    BY <1>0, <1>1 DEF Pointers
  <2> HIDE DEF q
  <2>7. /\ FromIn(next', q) = FromIn(next, q) \ {x}
        /\ FromIn(next, x) \ {x} \subseteq FromIn(next', next[x])
        /\ l # x
    <3>1. Unlinks(next, next', q, x, l)
      BY <1>0, <2>4, <2>5, <2>6 DEF Unlinks
    <3>2. l # x
      BY <3>1, FromUnlinked
    <3>3. FromIn(next', q) = FromIn(next, q) \ {x}
      BY <3>1, FromUnlinked
    <3>4. FromIn(next, x) \ {x} \subseteq FromIn(next', next[x])
      BY <3>1, FromUnlinked
    <3> QED
      BY <3>2, <3>3, <3>4
  <2> QED
    BY <1>4, <2>7 DEF q
<1>6. ASSUME NEW b \in Bucket PROVE Chain(b)' = Chain(b) \ {x}
  <2>1. CASE b = c
    BY <2>1, <1>5, ChainIsNext
  <2>2. CASE b # c
    <3>1. x \notin Chain(b) /\ l \notin Chain(b)
      BY <2>2 DEF ChainsExact
    <3>2. next' \in Pointers
      BY <1>0, <1>1 DEF Pointers
    <3>3. \A e \in Chain(b) : next'[e] = next[e]
      BY <3>1, <1>0, <1>1, ChainFacts DEF Pointers
    <3>4. FromIn(next', ChainHead(b)) = FromIn(next, ChainHead(b))
      <4>1. ChainHead(b) \in Pointer
        BY ChainFacts
      <4>2. \A e \in FromIn(next, ChainHead(b)) : next'[e] = next[e]
        BY <3>3, ChainIs
      <4> QED
        BY <1>0, <3>2, <4>1, <4>2, FromSame
    <3> QED
      BY <3>1, <3>4, ChainIs, ChainIsNext
  <2> QED
    BY <2>1, <2>2
<1>7. ChainsExact' /\ UniqueEntry'
  BY <1>1, <1>6, Freed
<1>8. Apart'
  <2>0. /\ next'[l] = next[x]
        /\ \A e \in used : e # l => next'[e] = next[e]
    BY <1>0, <1>1 DEF Pointers, TypeOK
  <2>1. ASSUME NEW e \in used', NEW f \in used', next'[e] = next'[f], e # f
        PROVE  next'[e] = Null
    BY <2>0, <2>1, <1>1 DEF Apart
  <2>2. ASSUME NEW e \in used', NEW b \in Bucket, next'[e] = ChainHead(b)'
        PROVE  next'[e] = Null
    BY <2>0, <2>2, <1>1 DEF Apart
  <2> QED
    BY <2>1, <2>2 DEF Apart
<1> QED
  BY <1>5, <1>6, <1>7, <1>8

\* A new entry at the end of the chain of its bucket.
LEMMA Added ==
  ASSUME TypeOK, ChainsExact, UniqueEntry,
         NEW c \in Bucket, c = Hash[me], \A f \in used : owner[f] # me,
         NEW e \in Entry \ used,
         used' = used \cup {e}, owner' = [owner EXCEPT ![e] = me],
         Chain(c)' = Chain(c) \cup {e},
         \A b \in Bucket \ {c} : Chain(b)' = Chain(b)
  PROVE  ChainsExact' /\ UniqueEntry'
<1>1. /\ owner'[e] = me
      /\ \A f \in used : owner'[f] = owner[f]
  BY DEF TypeOK
<1>2. ChainsExact'
  <2> SUFFICES ASSUME NEW b \in Bucket
               PROVE  Chain(b)' = {f \in used' : Hash[owner'[f]] = b}
    BY DEF ChainsExact
  <2>1. Chain(b) = {f \in used : Hash[owner[f]] = b}
    BY DEF ChainsExact
  <2>2. CASE b = c
    BY <1>1, <2>1, <2>2
  <2>3. CASE b # c
    BY <1>1, <2>1, <2>3
  <2> QED
    BY <2>2, <2>3
<1>3. UniqueEntry'
  BY <1>1 DEF UniqueEntry
<1> QED
  BY <1>2, <1>3

-----------------------------------------------------------------------------
(* Every action keeps the invariant.                                       *)

LEMMA InitInv == ChainInit => IInv
<1> SUFFICES ASSUME ChainInit PROVE IInv
  OBVIOUS
<1>1. TypeOK
  BY ChainAssumption DEF ChainInit, ChainStart, TypeOK, Pointer
<1>2. \A b \in Bucket : ChainHead(b) = Null /\ Chain(b) = {}
  BY ChainIs, FromNull DEF ChainInit, ChainStart, ChainHead
<1> QED
  BY <1>1, <1>2 DEF ChainInit, ChainStart, IInv, ChainsExact, Apart, UniqueEntry, CallInv,
                    LastLeadsHere, PassedInv, Walks

LEMMA TypeStep == TypeOK /\ [ChainNext]_chainVars => TypeOK'
<1> SUFFICES ASSUME TypeOK, [ChainNext]_chainVars PROVE TypeOK'
  OBVIOUS
<1> USE DEF TypeOK, Pointer, Return
<1>1. ASSUME NEW t \in Thread, NEW o \in Walks, Call(o, t) PROVE TypeOK'
  BY <1>1, ChainAssumption DEF Call, Walks
<1>2. CASE Shutdown
  BY <1>2 DEF Shutdown
<1>3. CASE Found
  BY <1>3 DEF Found
<1>4. CASE FindNext
  BY <1>4 DEF FindNext
<1>5. ASSUME NEW e \in Entry, AllocateFirst(e) PROVE TypeOK'
  BY <1>5 DEF AllocateFirst, Allocate
<1>6. ASSUME NEW e \in Entry, AllocateLast(e) PROVE TypeOK'
  BY <1>6 DEF AllocateLast, Allocate
<1>7. CASE FreeThread
  BY <1>7 DEF FreeThread, Unlink
<1>8. CASE FreeWorker
  BY <1>8 DEF FreeWorker, Unlink
<1>9. CASE Pass
  BY <1>9 DEF Pass
<1>10. CASE EndOfChain
  BY <1>10 DEF EndOfChain
<1>11. ASSUME NEW b \in Bucket, ShutdownBucket(b) PROVE TypeOK'
  BY <1>11 DEF ShutdownBucket
<1>12. CASE ShutdownEntry
  BY <1>12 DEF ShutdownEntry
<1>13. CASE ShutdownEnds
  BY <1>13 DEF ShutdownEnds
<1>14. CASE UNCHANGED chainVars
  BY <1>14 DEF chainVars
<1> QED
  BY <1>1, <1>2, <1>3, <1>4, <1>5, <1>6, <1>7, <1>8, <1>9, <1>10, <1>11, <1>12,
     <1>13, <1>14 DEF ChainNext, Turn, Walks, Terminated

\* A function that returns leaves nothing to be said of its locals.
LEMMA Returned ==
  ASSUME op' = "idle"
  PROVE  CallInv' /\ LastLeadsHere' /\ PassedInv'
BY DEF CallInv, LastLeadsHere, PassedInv, Walks

\* A loop that goes on to the next entry has passed one more.
LEMMA Passed ==
  ASSUME TypeOK, ChainsExact, CallInv, PassedInv, op \in Walks, p # Null,
         owner[p] = me <=> op = "free_workers",
         p' = next[p], UNCHANGED <<next, owner, op, me, bucket>>,
         Chain(bucket)' = Chain(bucket)
  PROVE  PassedInv'
<1>1. p \in Entry /\ next \in Pointers
  BY DEF TypeOK, Pointer, Pointers
<1>2. From(p) = {p} \cup From(p)'
  BY <1>1, FromFirst, ChainIs, ChainIsNext
<1> QED
  BY <1>2 DEF PassedInv

LEMMA CallKeeps ==
  ASSUME IInv, NEW t \in Thread, NEW o \in Walks, Call(o, t)
  PROVE  ChainsExact' /\ Apart' /\ UniqueEntry' /\ CallInv' /\ LastLeadsHere'
         /\ PassedInv'
<1> USE DEF IInv
<1>1. \A b \in Bucket : ChainHead(b)' = ChainHead(b)
  BY DEF Call, ChainHead, Walks
<1>2. /\ \A b \in Bucket : Chain(b)' = Chain(b)
      /\ ChainsExact' /\ Apart' /\ UniqueEntry'
  BY <1>1, Kept DEF Call
<1> DEFINE c == Hash[t]
<1>3. /\ c \in Bucket /\ bucket' = c /\ me' = t /\ op' = o /\ last' = Null
      /\ p' = table[c] /\ table' = table
  BY ChainAssumption DEF Call
<1>4. ChainHead(c) = p' /\ ChainHead(c)' = p'
  BY <1>1, <1>3 DEF ChainHead, Walks, Call
<1>5. Chain(bucket)' = Chain(c) /\ (p' # Null => p' \in Chain(c))
  BY <1>2, <1>3, <1>4, ChainFacts
<1>6. CallInv'
  BY <1>3, <1>5 DEF CallInv, Walks
<1>7. LastLeadsHere'
  BY <1>3, <1>5 DEF LastLeadsHere
<1>8. PassedInv'
  <2>1. Chain(bucket)' = From(p)'
    BY <1>3, <1>4, ChainIsNext
  <2> QED
    BY <2>1 DEF PassedInv
<1> QED
  BY <1>2, <1>6, <1>7, <1>8

LEMMA FoundKeeps ==
  ASSUME IInv, Found
  PROVE  ChainsExact' /\ Apart' /\ UniqueEntry' /\ CallInv' /\ LastLeadsHere'
         /\ PassedInv'
<1>1. \A b \in Bucket : ChainHead(b)' = ChainHead(b)
  BY DEF Found, ChainHead
<1> QED
  BY <1>1, Kept, Returned DEF IInv, Found

LEMMA FindNextKeeps ==
  ASSUME IInv, FindNext
  PROVE  ChainsExact' /\ Apart' /\ UniqueEntry' /\ CallInv' /\ LastLeadsHere'
         /\ PassedInv'
<1> USE DEF IInv
<1>1. \A b \in Bucket : ChainHead(b)' = ChainHead(b)
  BY DEF FindNext, ChainHead
<1>2. /\ \A b \in Bucket : Chain(b)' = Chain(b)
      /\ ChainsExact' /\ Apart' /\ UniqueEntry'
  BY <1>1, Kept DEF FindNext
<1>3. /\ bucket \in Bucket /\ op \in Walks /\ Chain(bucket)' = Chain(bucket)
      /\ p \in Chain(bucket) /\ next[p] \in Chain(bucket)
  BY <1>2, ChainFacts DEF FindNext, TypeOK, Walks, CallInv
<1>4. CallInv'
  BY <1>3 DEF FindNext, CallInv
<1>5. LastLeadsHere'
  BY DEF FindNext, LastLeadsHere
<1>6. PassedInv'
  BY <1>3, Passed DEF FindNext
<1> QED
  BY <1>2, <1>4, <1>5, <1>6

\* The chain is empty.
LEMMA AllocateFirstKeeps ==
  ASSUME IInv, NEW e \in Entry, AllocateFirst(e)
  PROVE  ChainsExact' /\ Apart' /\ UniqueEntry' /\ CallInv' /\ LastLeadsHere'
         /\ PassedInv' /\ \A f \in used : owner[f] # me
<1> USE DEF IInv
<1>0. PICK c : c = bucket
  OBVIOUS
<1>1. /\ c = bucket /\ c \in Bucket /\ c = Hash[me] /\ op = "find" /\ e \in Entry \ used
      /\ e # Null
  BY <1>0, ChainAssumption DEF AllocateFirst, Allocate, CallInv, Walks, TypeOK
<1>2. /\ ChainHead(c) = Null /\ ChainHead(c)' = e
      /\ \A b \in Bucket \ {c} : ChainHead(b)' = ChainHead(b)
  BY <1>1 DEF AllocateFirst, CallInv, ChainHead, Return, TypeOK
<1>3. /\ next \in Pointers /\ next' \in Pointers
      /\ next'[e] = Null
      /\ \A f \in Entry : f # e => next'[f] = next[f]
  BY DEF AllocateFirst, TypeOK, Pointers, Pointer
<1>4. Chain(c) = {}
  <2>1. FromIn(next, Null) = {}
    BY FromNull
  <2> QED
    BY <2>1, <1>1, <1>2, ChainIs
<1>5. \A f \in used : owner[f] # me
  BY <1>1, <1>4 DEF ChainsExact
<1>6. Chain(c)' = Chain(c) \cup {e}
  <2>1. FromIn(next', e) = {e} \cup FromIn(next', Null)
    BY <1>3, FromFirst
  <2>2. FromIn(next', Null) = {}
    BY FromNull
  <2> QED
    BY <2>1, <2>2, <1>1, <1>2, <1>4, ChainIsNext
<1>7. ASSUME NEW b \in Bucket \ {c} PROVE Chain(b)' = Chain(b)
  <2>1. ChainHead(b) \in Pointer /\ \A f \in Chain(b) : f # e /\ f \in Entry
    BY <1>1, ChainFacts
  <2>2. \A f \in FromIn(next, ChainHead(b)) : next'[f] = next[f]
    BY <2>1, <1>3, ChainIs
  <2>3. FromIn(next', ChainHead(b)) = FromIn(next, ChainHead(b))
    BY <2>1, <2>2, <1>3, FromSame
  <2> QED
    BY <2>3, <1>2, ChainIs, ChainIsNext
<1>8. ChainsExact' /\ UniqueEntry'
  <2>1. used' = used \cup {e} /\ owner' = [owner EXCEPT ![e] = me]
    BY DEF AllocateFirst, Allocate
  <2> QED
    BY <2>1, <1>1, <1>5, <1>6, <1>7, Added
<1>9. Apart'
  <2>1. /\ used' = used \cup {e}
        /\ \A f \in used : f \in Entry /\ f # e /\ next[f] # e
        /\ \A b \in Bucket : ChainHead(b) # e
    BY <1>1, UsedFacts DEF AllocateFirst, Allocate
  <2>2. \A f \in used : next'[f] = next[f]
    BY <2>1, <1>3
  <2>3. ASSUME NEW f \in used', NEW g \in used', next'[f] = next'[g], f # g
        PROVE  next'[f] = Null
    BY <2>1, <2>2, <2>3, <1>3 DEF Apart
  <2>4. ASSUME NEW f \in used', NEW b \in Bucket, next'[f] = ChainHead(b)'
        PROVE  next'[f] = Null
    BY <2>1, <2>2, <2>4, <1>2, <1>3 DEF Apart
  <2> QED
    BY <2>3, <2>4 DEF Apart
<1>10. op' = "idle"
  BY DEF AllocateFirst, Return
<1> QED
  BY <1>5, <1>8, <1>9, <1>10, Returned

\* The last entry of the chain was not the one that is looked for.
LEMMA AllocateLastKeeps ==
  ASSUME IInv, NEW e \in Entry, AllocateLast(e)
  PROVE  ChainsExact' /\ Apart' /\ UniqueEntry' /\ CallInv' /\ LastLeadsHere'
         /\ PassedInv' /\ \A f \in used : owner[f] # me
<1> USE DEF IInv
<1>0. PICK c : c = bucket
  OBVIOUS
<1>1. /\ c = bucket /\ c \in Bucket /\ c = Hash[me] /\ op = "find" /\ e \in Entry \ used
      /\ e # Null /\ p # Null /\ p \in Chain(c) /\ p \in Entry /\ next[p] = Null
      /\ owner[p] # me
  BY <1>0, ChainAssumption DEF AllocateLast, Allocate, CallInv, Walks, TypeOK, Pointer
<1>2. \A b \in Bucket : ChainHead(b)' = ChainHead(b)
  BY <1>1 DEF AllocateLast, ChainHead, Return
<1>3. p \in used /\ p # e
  BY <1>1, ChainFacts
<1>4. /\ next \in Pointers /\ next' \in Pointers
      /\ next' = [next EXCEPT ![p] = e, ![e] = Null]
      /\ next'[p] = e /\ next'[e] = Null
      /\ \A f \in Entry : f # p /\ f # e => next'[f] = next[f]
  BY <1>1, <1>3 DEF AllocateLast, TypeOK, Pointers, Pointer
<1>5. \A f \in used : owner[f] # me
  <2> SUFFICES ASSUME NEW f \in used, owner[f] = me PROVE FALSE
    OBVIOUS
  <2>1. f \in Chain(c)
    BY <1>1 DEF ChainsExact
  <2>2. f \in From(p)
    BY <1>1, <2>1 DEF PassedInv, Walks
  <2>3. From(p) = {p}
    BY <1>1, <1>4, FromFirst, FromNull, ChainIs
  <2> QED
    BY <2>2, <2>3, <1>1
<1>6. Chain(c)' = Chain(c) \cup {e}
  <2> DEFINE q == ChainHead(c)
  <2>1. /\ q \in Pointer /\ e \notin FromIn(next, q) /\ p \in FromIn(next, q)
        /\ FromIn(next, q) = Chain(c)
    BY <1>1, ChainIs, ChainFacts
  <2>2. Chain(c)' = FromIn(next', q)
    BY <1>1, <1>2, ChainIsNext
  <2> HIDE DEF q
  <2>3. FromIn(next', q) = FromIn(next, q) \cup {e}
    <3>1. Appends(next, next', q, p, e)
      BY <2>1, <1>1, <1>4 DEF Appends
    <3> QED
      BY <3>1, FromAppended
  <2> QED
    BY <2>1, <2>2, <2>3
<1>7. ASSUME NEW b \in Bucket \ {c} PROVE Chain(b)' = Chain(b)
  <2>1. ChainHead(b) \in Pointer /\ \A f \in Chain(b) : f # e /\ f \in Entry
    BY <1>1, ChainFacts
  <2>2. p \notin Chain(b)
    BY <1>1 DEF ChainsExact
  <2>3. \A f \in FromIn(next, ChainHead(b)) : next'[f] = next[f]
    BY <2>1, <2>2, <1>4, ChainIs
  <2>4. FromIn(next', ChainHead(b)) = FromIn(next, ChainHead(b))
    BY <2>1, <2>3, <1>4, FromSame
  <2> QED
    BY <2>4, <1>2, ChainIs, ChainIsNext
<1>8. ChainsExact' /\ UniqueEntry'
  <2>1. used' = used \cup {e} /\ owner' = [owner EXCEPT ![e] = me]
    BY DEF AllocateLast, Allocate
  <2> QED
    BY <2>1, <1>1, <1>5, <1>6, <1>7, Added
<1>9. Apart'
  <2>1. /\ used' = used \cup {e}
        /\ \A f \in used : f \in Entry /\ f # e /\ next[f] # e
        /\ \A b \in Bucket : ChainHead(b) # e
    BY <1>1, UsedFacts DEF AllocateLast, Allocate
  <2>2. \A f \in used : f # p => next'[f] = next[f]
    BY <2>1, <1>4
  <2>3. ASSUME NEW f \in used', NEW g \in used', next'[f] = next'[g], f # g
        PROVE  next'[f] = Null
    BY <2>1, <2>2, <2>3, <1>4 DEF Apart
  <2>4. ASSUME NEW f \in used', NEW b \in Bucket, next'[f] = ChainHead(b)'
        PROVE  next'[f] = Null
    BY <2>1, <2>2, <2>4, <1>2, <1>4 DEF Apart
  <2> QED
    BY <2>3, <2>4 DEF Apart
<1>10. op' = "idle"
  BY DEF AllocateLast, Return
<1> QED
  BY <1>5, <1>8, <1>9, <1>10, Returned

\* Where Unlink finds the entry: first in its chain, or behind last.
LEMMA UnlinkKeeps ==
  ASSUME IInv, op \in {"free_thread", "free_workers"}, p # Null, Unlink,
         op' # "shutdown", op' # "down", NEW c \in Bucket, c = bucket
  PROVE  /\ ChainsExact' /\ Apart' /\ UniqueEntry'
         /\ \A b \in Bucket : Chain(b)' = Chain(b) \ {p}
         /\ p \in used /\ p \in Chain(c) /\ next[p] # p
         /\ next[p] # Null => next[p] \in Chain(c) \ {p}
         /\ last = Null => ChainHead(c)' = next[p] /\ table'[c] = next[p]
         /\ last # Null => /\ last \in Chain(c) \ {p}
                           /\ next'[last] = next[p]
                           /\ From(p) \ {p} \subseteq FromIn(next', next[p])
<1> USE DEF IInv
<1>1. /\ p \in Chain(c) /\ p \in used /\ p \in Entry
      /\ used' = used \ {p} /\ UNCHANGED owner
      /\ next[p] \in Chain(c) \cup {Null}
      /\ Chain(c) \in SUBSET used
  BY ChainFacts, ChainAssumption DEF Unlink, LastLeadsHere
<1>2. next \in Pointers
  BY DEF TypeOK, Pointers
<1>3. CASE last = Null
  <2>1. ChainHead(c) = p
    BY <1>3 DEF LastLeadsHere, ChainHead
  <2>2. /\ ChainHead(c)' = next[p] /\ table'[c] = next[p] /\ next' = next
        /\ \A b \in Bucket \ {c} : ChainHead(b)' = ChainHead(b)
    BY <1>3 DEF Unlink, ChainHead, TypeOK
  <2>3. /\ \A b \in Bucket : Chain(b)' = Chain(b) \ {p}
        /\ ChainsExact' /\ Apart' /\ UniqueEntry'
    BY <1>1, <2>1, <2>2, FreedFirst
  <2>4. next[p] # p
    BY <1>1, <2>1 DEF Apart
  <2> QED
    BY <1>1, <1>3, <2>2, <2>3, <2>4
<1>4. CASE last # Null
  <2>1. last \in Chain(c) /\ next[last] = p
    BY <1>4 DEF LastLeadsHere
  <2>2. /\ next' = [next EXCEPT ![last] = next[p]]
        /\ \A b \in Bucket : ChainHead(b)' = ChainHead(b)
    BY <1>4 DEF Unlink, ChainHead
  <2>3. /\ \A b \in Bucket : Chain(b)' = Chain(b) \ {p}
        /\ ChainsExact' /\ Apart' /\ UniqueEntry'
        /\ FromIn(next, p) \ {p} \subseteq FromIn(next', next[p])
        /\ last # p
    BY <1>1, <2>1, <2>2, FreedBehind
  <2>4. next[p] # p
    BY <1>1, <2>1, <2>3 DEF Apart
  <2>5. next'[last] = next[p]
    BY <1>1, <1>2, <2>1, <2>2 DEF Pointers, TypeOK
  <2>6. From(p) = FromIn(next, p)
    BY ChainIs
  <2> QED
    <3>1. /\ last \in Chain(c) \ {p}
          /\ From(p) \ {p} \subseteq FromIn(next', next[p])
      BY <2>1, <2>3, <2>6
    <3>2. next[p] # Null => next[p] \in Chain(c) \ {p}
      BY <1>1, <2>4
    <3> QED
      BY <1>1, <1>4, <2>3, <2>4, <2>5, <3>1, <3>2
<1> QED
  BY <1>3, <1>4

LEMMA FreeThreadKeeps ==
  ASSUME IInv, FreeThread
  PROVE  ChainsExact' /\ Apart' /\ UniqueEntry' /\ CallInv' /\ LastLeadsHere'
         /\ PassedInv' /\ p \in used
<1>1. PICK c \in Bucket : c = bucket
  BY DEF IInv, TypeOK
<1>2. op' = "idle" /\ Unlink /\ op = "free_thread" /\ p # Null
  BY DEF FreeThread, Return
<1> QED
  BY <1>1, <1>2, UnlinkKeeps, Returned

LEMMA FreeWorkerKeeps ==
  ASSUME IInv, FreeWorker
  PROVE  ChainsExact' /\ Apart' /\ UniqueEntry' /\ CallInv' /\ LastLeadsHere'
         /\ PassedInv' /\ p \in used /\ p \in Chain(bucket)
<1>1. PICK c \in Bucket : c = bucket
  BY DEF IInv, TypeOK
<1>2. /\ op = "free_workers" /\ op' = "free_workers" /\ p # Null /\ Unlink
      /\ UNCHANGED <<owner, me, bucket, last>>
      /\ p' = IF last # Null THEN next'[last] ELSE table'[bucket]
  BY DEF FreeWorker, Unlink
<1>3. /\ ChainsExact' /\ Apart' /\ UniqueEntry'
      /\ \A b \in Bucket : Chain(b)' = Chain(b) \ {p}
      /\ p \in used /\ p \in Chain(c) /\ next[p] # p
      /\ next[p] # Null => next[p] \in Chain(c) \ {p}
      /\ last = Null => ChainHead(c)' = next[p] /\ table'[c] = next[p]
      /\ last # Null => /\ last \in Chain(c) \ {p}
                        /\ next'[last] = next[p]
                        /\ From(p) \ {p} \subseteq FromIn(next', next[p])
  BY <1>1, <1>2, UnlinkKeeps
<1>4. p' = next[p] /\ Chain(bucket)' = Chain(c) \ {p}
  BY <1>1, <1>2, <1>3
<1>5. CallInv'
  BY <1>1, <1>2, <1>3, <1>4 DEF CallInv, IInv, Walks
<1>6. LastLeadsHere'
  BY <1>1, <1>2, <1>3, <1>4 DEF LastLeadsHere
<1>7. PassedInv'
  <2>1. From(p)' = FromIn(next', next[p])
    BY <1>4, ChainIsNext
  <2>2. CASE last = Null
    <3>1. From(p)' = Chain(bucket)'
      BY <1>1, <1>2, <1>3, <2>1, <2>2, ChainIsNext
    <3> QED
      BY <3>1 DEF PassedInv
  <2>3. CASE last # Null
    <3>1. \A e \in Chain(bucket)' \ From(p)' : e \in Chain(bucket) \ From(p)
      BY <1>1, <1>3, <1>4, <2>1, <2>3
    <3> QED
      BY <3>1, <1>2 DEF PassedInv, IInv, Walks
  <2> QED
    BY <2>2, <2>3
<1> QED
  BY <1>1, <1>3, <1>5, <1>6, <1>7

LEMMA PassKeeps ==
  ASSUME IInv, Pass
  PROVE  ChainsExact' /\ Apart' /\ UniqueEntry' /\ CallInv' /\ LastLeadsHere'
         /\ PassedInv'
<1> USE DEF IInv
<1>1. \A b \in Bucket : ChainHead(b)' = ChainHead(b)
  BY DEF Pass, ChainHead
<1>2. /\ \A b \in Bucket : Chain(b)' = Chain(b)
      /\ ChainsExact' /\ Apart' /\ UniqueEntry'
  BY <1>1, Kept DEF Pass
<1>3. /\ bucket \in Bucket /\ op \in Walks /\ Chain(bucket)' = Chain(bucket)
      /\ p \in Chain(bucket) /\ next[p] \in Chain(bucket) \cup {Null}
  BY <1>2, ChainFacts DEF Pass, TypeOK, Walks, CallInv
<1>4. CallInv'
  BY <1>3 DEF Pass, CallInv
<1>5. LastLeadsHere'
  BY <1>3 DEF Pass, LastLeadsHere
<1>6. PassedInv'
  BY <1>3, Passed DEF Pass
<1> QED
  BY <1>2, <1>4, <1>5, <1>6

LEMMA EndKeeps ==
  ASSUME IInv, EndOfChain
  PROVE  /\ ChainsExact' /\ Apart' /\ UniqueEntry' /\ CallInv' /\ LastLeadsHere'
         /\ PassedInv'
         /\ \A e \in used : Hash[owner[e]] = bucket =>
                              (owner[e] = me <=> op = "free_workers")
<1> USE DEF IInv
<1>1. \A b \in Bucket : ChainHead(b)' = ChainHead(b)
  BY DEF EndOfChain, Return, ChainHead
<1>2. ChainsExact' /\ Apart' /\ UniqueEntry'
  BY <1>1, Kept DEF EndOfChain
<1>3. CallInv' /\ LastLeadsHere' /\ PassedInv'
  BY Returned DEF EndOfChain, Return
<1>4. From(p) = {}
  <2>1. FromIn(next, Null) = {}
    BY FromNull
  <2> QED
    BY <2>1, ChainIs DEF EndOfChain
<1>5. \A e \in Chain(bucket) : owner[e] = me <=> op = "free_workers"
  BY <1>4 DEF PassedInv, EndOfChain, Walks
<1>6. bucket \in Bucket
  BY DEF TypeOK
<1> QED
  BY <1>2, <1>3, <1>5, <1>6 DEF ChainsExact

LEMMA ShutdownKeeps ==
  ASSUME IInv,
         Shutdown \/ (\E b \in Bucket : ShutdownBucket(b)) \/ ShutdownEnds
  PROVE  ChainsExact' /\ Apart' /\ UniqueEntry' /\ CallInv' /\ LastLeadsHere'
         /\ PassedInv'
<1> USE DEF IInv
<1>1. \A b \in Bucket : ChainHead(b)' = ChainHead(b)
  <2>1. CASE Shutdown
    BY <2>1 DEF Shutdown, ChainHead
  <2>2. ASSUME NEW c \in Bucket, ShutdownBucket(c)
        PROVE  \A b \in Bucket : ChainHead(b)' = ChainHead(b)
    BY <2>2 DEF ShutdownBucket, ChainHead
  <2>3. CASE ShutdownEnds
    BY <2>3 DEF ShutdownEnds, ChainHead
  <2> QED
    BY <2>1, <2>2, <2>3
<1>2. ChainsExact' /\ Apart' /\ UniqueEntry'
  BY <1>1, Kept DEF Shutdown, ShutdownBucket, ShutdownEnds
<1>3. CallInv'
  BY DEF Shutdown, ShutdownBucket, ShutdownEnds, CallInv, Walks
<1>4. LastLeadsHere' /\ PassedInv'
  BY DEF Shutdown, ShutdownBucket, ShutdownEnds, LastLeadsHere, PassedInv, Walks
<1> QED
  BY <1>2, <1>3, <1>4

LEMMA ShutdownEntryKeeps ==
  ASSUME IInv, ShutdownEntry
  PROVE  ChainsExact' /\ Apart' /\ UniqueEntry' /\ CallInv' /\ LastLeadsHere'
         /\ PassedInv'
<1> USE DEF IInv
<1>1. PICK c \in Bucket : c = bucket
  BY DEF TypeOK
<1>2. /\ p \in Entry /\ c \notin todo /\ op = "shutdown" /\ op' = "shutdown"
      /\ used' = used \ {p} /\ p' = next[p]
      /\ UNCHANGED <<table, next, owner, bucket, todo>>
  BY <1>1 DEF ShutdownEntry, CallInv, TypeOK, Pointer
<1>3. /\ ChainHead(c) = p /\ ChainHead(c)' = next[p]
      /\ \A b \in Bucket \ {c} : ChainHead(b)' = ChainHead(b)
  BY <1>1, <1>2 DEF ChainHead
<1>4. ChainsExact' /\ Apart' /\ UniqueEntry'
  BY <1>1, <1>2, <1>3, FreedFirst
<1>5. CallInv' /\ LastLeadsHere' /\ PassedInv'
  BY <1>1, <1>2 DEF CallInv, LastLeadsHere, PassedInv, Walks
<1> QED
  BY <1>4, <1>5

LEMMA StutterKeeps ==
  ASSUME IInv, UNCHANGED chainVars
  PROVE  IInv'
BY DEF IInv, chainVars, TypeOK, ChainsExact, Apart, UniqueEntry, CallInv,
       LastLeadsHere, PassedInv, Chain, From, Closed, ChainHead

LEMMA NextInv == IInv /\ [ChainNext]_chainVars => IInv'
<1> SUFFICES ASSUME IInv, [ChainNext]_chainVars PROVE IInv'
  OBVIOUS
<1>1. TypeOK'
  BY TypeStep DEF IInv
<1>2. ASSUME NEW t \in Thread, NEW o \in Walks, Call(o, t) PROVE IInv'
  BY <1>1, <1>2, CallKeeps DEF IInv
<1>3. CASE Found
  BY <1>1, <1>3, FoundKeeps DEF IInv
<1>4. CASE FindNext
  BY <1>1, <1>4, FindNextKeeps DEF IInv
<1>5. ASSUME NEW e \in Entry, AllocateFirst(e) PROVE IInv'
  BY <1>1, <1>5, AllocateFirstKeeps DEF IInv
<1>6. ASSUME NEW e \in Entry, AllocateLast(e) PROVE IInv'
  BY <1>1, <1>6, AllocateLastKeeps DEF IInv
<1>7. CASE FreeThread
  BY <1>1, <1>7, FreeThreadKeeps DEF IInv
<1>8. CASE FreeWorker
  BY <1>1, <1>8, FreeWorkerKeeps DEF IInv
<1>9. CASE Pass
  BY <1>1, <1>9, PassKeeps DEF IInv
<1>10. CASE EndOfChain
  BY <1>1, <1>10, EndKeeps DEF IInv
<1>11. CASE Shutdown \/ (\E b \in Bucket : ShutdownBucket(b)) \/ ShutdownEnds
  BY <1>1, <1>11, ShutdownKeeps DEF IInv
<1>12. CASE ShutdownEntry
  BY <1>1, <1>12, ShutdownEntryKeeps DEF IInv
<1>13. CASE UNCHANGED chainVars
  BY <1>13, StutterKeeps
<1> QED
  BY <1>2, <1>3, <1>4, <1>5, <1>6, <1>7, <1>8, <1>9, <1>10, <1>11, <1>12, <1>13
     DEF ChainNext, Turn, Walks, Terminated

THEOREM ChainInvariant == ChainSpec => []IInv
BY InitInv, NextInv, PTL DEF ChainSpec

(* The types of the variables (the locals of TSRM.c:253-255, 375-379).       *)
THEOREM ChainTypeCorrect == ChainSpec => []TypeOK
BY ChainInvariant, PTL DEF IInv

(* Whatever is called in whatever order, the chain of each bucket holds the  *)
(* allocated entries of its bucket and nothing else: nothing leaks and no    *)
(* freed entry can be reached (TSRM.c:284-296, 396-409, 438-455).            *)
THEOREM ChainsAreExact == ChainSpec => []ChainsExact
BY ChainInvariant, PTL DEF IInv

(* The pointer that is overwritten when an entry is taken out is always the  *)
(* one that leads to it (TSRM.c:396-400, 438-448).                           *)
THEOREM LastIsBefore == ChainSpec => []LastLeadsHere
BY ChainInvariant, PTL DEF IInv

-----------------------------------------------------------------------------
(* The set of entries that the chains implement.                           *)

\* The entries of the set, without chains.
LiveUsed ==
    IF op \in {"shutdown", "down"} THEN {}
    ELSE IF op = "free_workers"
    THEN {e \in used : Hash[owner[e]] = bucket => owner[e] = me}
    ELSE used

Result == IF op = "idle" THEN p ELSE Null

LEMMA LiveIs == TypeOK /\ ChainsExact => Live = LiveUsed
<1> SUFFICES ASSUME TypeOK, ChainsExact PROVE Live = LiveUsed
  OBVIOUS
<1>1. Linked = used
  BY UsedFacts DEF Linked, ChainsExact
<1> QED
  BY <1>1 DEF Live, LiveUsed

LEMMA LiveIsNext == (TypeOK /\ ChainsExact)' => (Live = LiveUsed)'
BY LiveIs, PTL

LEMMA TableInit == ChainInit => Set!Init
<1> SUFFICES ASSUME ChainInit PROVE Set!Init
  OBVIOUS
<1>1. TypeOK /\ ChainsExact
  BY InitInv DEF IInv
<1>2. Live = {}
  BY <1>1, LiveIs DEF LiveUsed, ChainInit, ChainStart
<1> QED
  BY <1>1, <1>2 DEF Set!Init, ChainInit, ChainStart, TypeOK

\* One action: what it does to the set, or nothing.
LEMMA TableStep ==
  IInv /\ IInv' /\ [ChainNext]_chainVars => [Set!Next]_(Set!tableVars)
<1> SUFFICES ASSUME IInv, IInv', [ChainNext]_chainVars
             PROVE  Set!Next \/ UNCHANGED Set!tableVars
  BY DEF Set!tableVars
<1>0. /\ Live = LiveUsed /\ Live' = LiveUsed'
      /\ TypeOK /\ TypeOK'
  BY LiveIs, LiveIsNext DEF IInv
<1> USE DEF Result, Set!Finish
<1>1. ASSUME NEW t \in Thread, NEW o \in {"find", "free_thread"}, Call(o, t)
      PROVE  Set!Search(o, t)
  BY <1>0, <1>1 DEF Call, LiveUsed, Set!Search, Set!Start
<1>2. ASSUME NEW t \in Thread, Call("free_workers", t)
      PROVE  Set!DetachOthers(t)
  BY <1>0, <1>2 DEF Call, LiveUsed, Set!DetachOthers, Set!Start
<1>3. CASE Shutdown
  <2>1. Set!DetachAll
    BY <1>0, <1>3 DEF Shutdown, LiveUsed, Set!DetachAll, Set!Start
  <2> QED
    BY <2>1 DEF Set!Next
<1>4. CASE Found
  <2>1. p \in used /\ p \in Entry
    BY <1>4, ChainFacts DEF Found, IInv, CallInv, Walks, TypeOK, Pointer
  <2>2. Set!Hit(p)
    BY <1>0, <1>4, <2>1 DEF Found, LiveUsed, Set!Hit
  <2> QED
    BY <2>1, <2>2 DEF Set!Next
<1>5. CASE FindNext
  BY <1>0, <1>5 DEF FindNext, LiveUsed, Set!tableVars
<1>6. ASSUME NEW e \in Entry, AllocateFirst(e) PROVE Set!Attach(e)
  <2>1. \A f \in used : owner[f] # me
    BY <1>6, AllocateFirstKeeps
  <2> QED
    BY <1>0, <1>6, <2>1 DEF AllocateFirst, Allocate, Return, LiveUsed, Set!Attach
<1>7. ASSUME NEW e \in Entry, AllocateLast(e) PROVE Set!Attach(e)
  <2>1. \A f \in used : owner[f] # me
    BY <1>7, AllocateLastKeeps
  <2> QED
    BY <1>0, <1>7, <2>1 DEF AllocateLast, Allocate, Return, LiveUsed, Set!Attach
<1>8. CASE FreeThread
  <2>1. p \in used
    BY <1>8, FreeThreadKeeps
  <2>2. used \ {p} = {e \in used : owner[e] # me}
    BY <1>8, <2>1 DEF FreeThread, IInv, UniqueEntry
  <2>3. Set!Detach
    BY <1>0, <1>8, <2>2 DEF FreeThread, Unlink, Return, LiveUsed, Set!Detach
  <2> QED
    BY <2>3 DEF Set!Next
<1>9. CASE FreeWorker
  <2>1. p \in used /\ Hash[owner[p]] = bucket /\ owner[p] # me
    BY <1>9, FreeWorkerKeeps DEF FreeWorker, IInv, ChainsExact, TypeOK
  <2>2. LiveUsed' = LiveUsed
    BY <1>9, <2>1 DEF FreeWorker, Unlink, LiveUsed
  <2> QED
    BY <1>0, <1>9, <2>2 DEF FreeWorker, Unlink, Set!tableVars
<1>10. CASE Pass
  BY <1>0, <1>10 DEF Pass, LiveUsed, Set!tableVars
<1>11. CASE EndOfChain
  <2>1. \A e \in used : Hash[owner[e]] = bucket =>
                          (owner[e] = me <=> op = "free_workers")
    BY <1>11, EndKeeps
  <2>2. CASE op = "free_thread"
    <3>1. \A e \in used : owner[e] # me
      BY <2>1, <2>2 DEF IInv, CallInv, Walks
    <3>2. Set!Detach
      BY <1>0, <1>11, <2>2, <3>1 DEF EndOfChain, Return, LiveUsed, Set!Detach
    <3> QED
      BY <3>2 DEF Set!Next
  <2>3. CASE op = "free_workers"
    <3>1. Set!Done
      BY <1>0, <1>11, <2>1, <2>3 DEF EndOfChain, Return, LiveUsed, Set!Done
    <3> QED
      BY <3>1 DEF Set!Next
  <2> QED
    BY <1>11, <2>2, <2>3 DEF EndOfChain
<1>12. ASSUME NEW b \in Bucket, ShutdownBucket(b) PROVE UNCHANGED Set!tableVars
  BY <1>0, <1>12 DEF ShutdownBucket, LiveUsed, Set!tableVars
<1>13. CASE ShutdownEntry
  BY <1>0, <1>13 DEF ShutdownEntry, LiveUsed, Set!tableVars
<1>14. CASE ShutdownEnds
  <2>1. Set!Done
    BY <1>0, <1>14 DEF ShutdownEnds, LiveUsed, Set!Done
  <2> QED
    BY <2>1 DEF Set!Next
<1>15. CASE UNCHANGED chainVars
  BY <1>0, <1>15 DEF chainVars, LiveUsed, Set!tableVars
<1> QED
  BY <1>1, <1>2, <1>3, <1>4, <1>5, <1>6, <1>7, <1>8, <1>9, <1>10, <1>11, <1>12,
     <1>13, <1>14, <1>15 DEF ChainNext, Turn, Terminated, Set!Next

(* The chains implement the set of entries: a search misses no entry, nobody *)
(* gets a second one, the functions that free leave none of those that they  *)
(* are to free, and all others stay (TSRM.c:284-303, 385-409, 427-455,       *)
(* 116-135).                                                                 *)
THEOREM TableImplemented == ChainSpec => ImplementsTable
<1>1. ChainInit => Set!Init
  BY TableInit
<1>2. IInv /\ IInv' /\ [ChainNext]_chainVars => [Set!Next]_(Set!tableVars)
  BY TableStep
<1> QED
  BY <1>1, <1>2, ChainInvariant, PTL DEF ChainSpec, ImplementsTable, Set!Spec
=============================================================================
