------------------------------ MODULE MyiProof ------------------------------
(***************************************************************************)
(* Proofs about ReadMyi, for any index file: any columns, keys and trees.  *)
(*                                                                         *)
(* The reader knows the bytes of a page, the writer its keys.  That they   *)
(* agree is shown from the inside out: what a conversion makes of the      *)
(* bytes of a number, where a column ends, where a key ends by induction   *)
(* over its columns, how far an activation of printBtreeNode is on its     *)
(* page.  The activations that wait are on their way through the children. *)
(*                                                                         *)
(* That every page is printed once is shown from what the activations      *)
(* know: those of a page's children before its i were entered, no other    *)
(* was, and a page that was left has none that was not.                    *)
(***************************************************************************)
EXTENDS ReadMyi, FiniteSetTheorems, WellFoundedInduction, TLAPS

\* A member of a sequence is of the kind that the sequence is of.
LEMMA ElementOf ==
  ASSUME NEW S, NEW s \in Seq(S), NEW k \in 1..Len(s)
  PROVE  s[k] \in S
OBVIOUS

-----------------------------------------------------------------------------
(* Induction.                                                              *)

\* A set of numbers has a least one.
LEMMA LeastNumber ==
  ASSUME NEW S \in SUBSET Nat, S # {}
  PROVE  \E n \in S : \A m \in S : n <= m
<1> DEFINE R == OpToRel(<, Nat)
<1>1. IsWellFoundedOn(R, Nat)
  BY NatLessThanWellFounded
<1>2. R = {ss \in Nat \X Nat : ss[1] < ss[2]}
  BY DEF OpToRel
<1> HIDE DEF R
<1>3. PICK n \in S : \A m \in S : ~(<<m, n>> \in R)
  BY <1>1, WFMin
<1>4. \A m \in S : ~(m < n) /\ m \in Nat
  BY <1>2, <1>3
<1> QED
  BY <1>4

\* A set that has zero and the successors of its numbers has all of them.
LEMMA Induction ==
  ASSUME NEW S \in SUBSET Nat, 0 \in S, \A n \in S : n + 1 \in S
  PROVE  S = Nat
<1> SUFFICES ASSUME Nat \ S # {} PROVE FALSE
  OBVIOUS
<1>1. PICK n \in Nat \ S : \A m \in Nat \ S : n <= m
  BY LeastNumber
<1>2. n - 1 \in Nat /\ ~(n <= n - 1)
  BY <1>1
<1>3. n - 1 \in S
  BY <1>1, <1>2
<1> QED
  BY <1>1, <1>3

\* A function that is defined by recursion takes its values where its steps lead.
LEMMA RecursionType ==
  ASSUME NEW S, NEW n \in Nat, NEW e, e = [k \in 0..n |-> e[k]],
         e[0] \in S, \A k \in 1..n : e[k - 1] \in S => e[k] \in S
  PROVE  e \in [0..n -> S]
<1> DEFINE T == {k \in Nat : k <= n => e[k] \in S}
<1>1. 0 \in T
  OBVIOUS
<1>2. ASSUME NEW k \in T PROVE k + 1 \in T
  <2> SUFFICES ASSUME k + 1 <= n PROVE e[k + 1] \in S
    BY <1>2
  <2>1. k + 1 \in 1..n /\ (k + 1) - 1 = k /\ k <= n
    BY <1>2
  <2>2. e[k] \in S
    BY <1>2, <2>1
  <2> QED
    BY <2>1, <2>2
<1>3. T = Nat
  <2> HIDE DEF T
  <2>1. T \subseteq Nat
    BY DEF T
  <2> QED
    BY <1>1, <1>2, <2>1, Induction
<1> QED
  BY <1>3

\* Steps that lead from a set into it can be taken one after the other.
Steps(step, S, n) == step \in [1..n -> [S -> S]]
Follows(f, step, x, S, n) ==
    f \in [0..n -> S] /\ f[0] = x /\ \A k \in 1..n : f[k] = step[k][f[k - 1]]

LEMMA Recursion ==
  ASSUME NEW S, NEW x \in S, NEW n \in Nat, NEW step, Steps(step, S, n)
  PROVE  \E f : Follows(f, step, x, S, n)
<1> DEFINE T == {m \in Nat : m <= n => \E f : Follows(f, step, x, S, m)}
<1>1. 0 \in T
  <2> DEFINE f == [k \in 0..0 |-> x]
  <2>1. Follows(f, step, x, S, 0)
    BY DEF Follows
  <2> QED
    BY <2>1
<1>2. ASSUME NEW m \in T PROVE m + 1 \in T
  <2> SUFFICES ASSUME m + 1 <= n PROVE \E f : Follows(f, step, x, S, m + 1)
    BY <1>2
  <2>1. PICK g : Follows(g, step, x, S, m)
    BY <1>2
  <2> DEFINE s == step[m + 1]
             y == s[g[m]]
             f == [k \in 0..m + 1 |-> IF k = m + 1 THEN y ELSE g[k]]
  <2>2. g[m] \in S /\ s \in [S -> S] /\ m \in Nat
    BY <1>2, <2>1 DEF Follows, Steps
  <2> HIDE DEF s
  <2>3. y \in S
    BY <2>2
  <2> HIDE DEF y
  <2>4. f \in [0..m + 1 -> S] /\ f[0] = x
    BY <2>1, <2>2, <2>3 DEF Follows
  <2>5. ASSUME NEW k \in 1..m + 1 PROVE f[k] = step[k][f[k - 1]]
    <3>1. CASE k = m + 1
      <4>1. f[k] = y /\ k - 1 = m /\ f[k - 1] = g[m]
        BY <2>2, <3>1
      <4> QED
        BY <3>1, <4>1 DEF y, s
    <3>2. CASE k # m + 1
      <4>1. k \in 1..m /\ k - 1 \in 0..m /\ f[k] = g[k] /\ f[k - 1] = g[k - 1]
        BY <2>2, <3>2
      <4> QED
        BY <2>1, <4>1 DEF Follows
    <3> QED
      BY <3>1, <3>2
  <2> HIDE DEF f
  <2>6. Follows(f, step, x, S, m + 1)
    BY <2>4, <2>5 DEF Follows
  <2> QED
    BY <2>6
<1>3. T = Nat
  <2> HIDE DEF T
  <2>1. T \subseteq Nat
    BY DEF T
  <2> QED
    BY <1>1, <1>2, <2>1, Induction
<1> QED
  BY <1>3

-----------------------------------------------------------------------------
(* read-MYI.  Things that are joined.                                      *)

LEMMA JoinsValue ==
  ASSUME NEW S, NEW parts \in Seq(Seq(S))
  PROVE  /\ Joins(parts) \in [0..Len(parts) -> Seq(S)]
         /\ Joins(parts)[0] = <<>>
         /\ \A n \in 1..Len(parts) : Joins(parts)[n] = Joins(parts)[n - 1] \o parts[n]
<1> DEFINE Q == Seq(S)
           N == Len(parts)
           Glue(s, t) == s \o t
           empty == <<>>
           step == [k \in 1..N |-> [s \in Q |-> Glue(s, parts[k])]]
<1>1. N \in Nat /\ (\A n \in 1..N : parts[n] \in Q) /\ empty \in Q
  BY ElementOf
<1>2. \A s, t \in Q : Glue(s, t) \in Q
  OBVIOUS
<1> HIDE DEF Q, N, Glue, empty
<1>3. Steps(step, Q, N)
  BY <1>1, <1>2 DEF Steps
<1>0. PICK f : Follows(f, step, empty, Q, N)
  <2> HIDE DEF step
  <2> QED
    BY <1>1, <1>3, Recursion
<1>4. f \in [0..N -> Q] /\ f[0] = empty
  BY <1>0 DEF Follows
<1>5. ASSUME NEW k \in 1..N PROVE f[k] = Glue(f[k - 1], parts[k])
  <2>1. f[k] = step[k][f[k - 1]] /\ f[k - 1] \in Q
    BY <1>1, <1>4, <1>0 DEF Follows
  <2>2. step[k] = [s \in Q |-> Glue(s, parts[k])]
    OBVIOUS
  <2> QED
    BY <2>1, <2>2
<1>6. f = [n \in 0..N |-> IF n = 0 THEN empty ELSE Glue(f[n - 1], parts[n])]
  <2>1. f = [n \in 0..N |-> f[n]]
    BY <1>4
  <2>2. ASSUME NEW n \in 0..N PROVE f[n] = IF n = 0 THEN empty ELSE Glue(f[n - 1], parts[n])
    BY <1>1, <1>4, <1>5
  <2> QED
    BY <2>1, <2>2
<1> DEFINE e == Joins(parts)
<1>7. e = [n \in 0..N |-> IF n = 0 THEN empty ELSE Glue(e[n - 1], parts[n])]
  BY <1>6 DEF Joins, N, Glue, empty
<1> HIDE DEF e, step
<1>8. e[0] = empty /\ \A n \in 1..N : e[n] = Glue(e[n - 1], parts[n])
  BY <1>1, <1>7
<1>9. e \in [0..N -> Q]
  <2>1. e = [k \in 0..N |-> e[k]]
    BY <1>7
  <2>2. \A k \in 1..N : e[k - 1] \in Q => e[k] \in Q
    BY <1>1, <1>2, <1>8
  <2> QED
    BY <1>1, <1>8, <2>1, <2>2, RecursionType
<1> QED
  BY <1>8, <1>9 DEF e, N, Q, Glue, empty

\* s begins with t.
Begins(s, t) == Len(t) <= Len(s) /\ \A i \in 1..Len(t) : s[i] = t[i]

\* s has t from its place n + 1 on.
Holds(s, n, t) == n + Len(t) <= Len(s) /\ \A i \in 1..Len(t) : s[n + i] = t[i]

LEMMA JoinedParts ==
  ASSUME NEW S, NEW parts \in Seq(Seq(S))
  PROVE  Len(parts) \in Nat /\ \A n \in 1..Len(parts) : parts[n] \in Seq(S)
<1> DEFINE Q == Seq(S)
<1>1. parts \in Seq(Q)
  OBVIOUS
<1> HIDE DEF Q
<1>2. Len(parts) \in Nat /\ \A n \in 1..Len(parts) : parts[n] \in Q
  BY <1>1, ElementOf
<1> QED
  BY <1>2 DEF Q

LEMMA JoinTwo ==
  ASSUME NEW S, NEW s \in Seq(S), NEW t \in Seq(S)
  PROVE  /\ s \o t \in Seq(S) /\ Len(s \o t) = Len(s) + Len(t)
         /\ Begins(s \o t, s) /\ Holds(s \o t, Len(s), t)
BY DEF Begins, Holds

LEMMA HoldsMore ==
  ASSUME NEW S, NEW s \in Seq(S), NEW t \in Seq(S), NEW u \in Seq(S), NEW n \in Nat, NEW m \in Nat,
         Holds(s, n, t), Holds(t, m, u)
  PROVE  Holds(s, n + m, u)
<1>1. n + m + Len(u) <= Len(s)
  BY DEF Holds
<1>2. ASSUME NEW i \in 1..Len(u) PROVE s[n + m + i] = u[i]
  <2>1. m + i \in 1..Len(t) /\ n + (m + i) = n + m + i
    BY DEF Holds
  <2>2. s[n + (m + i)] = t[m + i] /\ t[m + i] = u[i]
    BY <2>1 DEF Holds
  <2> QED
    BY <2>1, <2>2
<1> QED
  BY <1>1, <1>2 DEF Holds

LEMMA BeginsMore ==
  ASSUME NEW S, NEW s \in Seq(S), NEW t \in Seq(S), NEW u \in Seq(S), NEW n \in Nat,
         Begins(s, t), Holds(t, n, u)
  PROVE  Holds(s, n, u)
<1>1. Holds(s, 0, t)
  BY DEF Begins, Holds
<1> QED
  BY <1>1, HoldsMore

LEMMA HoldsFirst ==
  ASSUME NEW S, NEW s \in Seq(S), NEW t \in Seq(S), NEW u \in Seq(S), NEW n \in Nat,
         Holds(s, n, t), Begins(t, u)
  PROVE  Holds(s, n, u)
<1>1. Len(u) <= Len(t) /\ \A i \in 1..Len(u) : i \in 1..Len(t) /\ t[i] = u[i]
  BY DEF Begins
<1> QED
  BY <1>1 DEF Holds

\* The first m of the parts are where they are among the first n.
LEMMA JoinsBegin ==
  ASSUME NEW S, NEW parts \in Seq(Seq(S)), NEW n \in 0..Len(parts), NEW m \in 0..n
  PROVE  Begins(Joins(parts)[n], Joins(parts)[m])
<1> DEFINE e == Joins(parts)
           N == Len(parts)
<1>1. /\ e \in [0..N -> Seq(S)] /\ N \in Nat
      /\ \A k \in 1..N : e[k] = e[k - 1] \o parts[k]
      /\ \A k \in 1..N : parts[k] \in Seq(S)
  BY JoinsValue, JoinedParts
<1> HIDE DEF e, N
<1> DEFINE T == {k \in Nat : m + k <= N => Begins(e[m + k], e[m])}
<1>2. 0 \in T
  <2>1. m \in 0..N /\ m + 0 = m
    BY <1>1 DEF N
  <2>2. e[m] \in Seq(S)
    BY <1>1, <2>1
  <2>3. Begins(e[m], e[m])
    BY <2>2 DEF Begins
  <2> QED
    BY <2>1, <2>3
<1>3. ASSUME NEW k \in T PROVE k + 1 \in T
  <2> SUFFICES ASSUME m + (k + 1) <= N PROVE Begins(e[m + (k + 1)], e[m])
    BY <1>3
  <2>1. m + (k + 1) \in 1..N /\ (m + (k + 1)) - 1 = m + k /\ m + k \in 0..N /\ m \in 0..N
    BY <1>1 DEF N
  <2> DEFINE a == e[m + k]
             b == parts[m + (k + 1)]
             c == e[m]
  <2>2. a \in Seq(S) /\ b \in Seq(S) /\ c \in Seq(S) /\ e[m + (k + 1)] = a \o b
    BY <1>1, <2>1
  <2>3. Begins(a, c)
    BY <1>3, <2>1
  <2> HIDE DEF a, b, c
  <2>4. Begins(a \o b, a)
    BY <2>2, JoinTwo
  <2>5. Begins(a \o b, c)
    BY <2>2, <2>3, <2>4 DEF Begins
  <2> QED
    BY <2>2, <2>5 DEF c
<1>4. T = Nat
  <2> HIDE DEF T
  <2>1. T \subseteq Nat
    BY DEF T
  <2> QED
    BY <1>2, <1>3, <2>1, Induction
<1>5. n - m \in Nat /\ m + (n - m) = n /\ n <= N
  BY DEF N
<1>6. Begins(e[n], e[m])
  BY <1>4, <1>5
<1> QED
  BY <1>6 DEF e

\* The n-th part is behind those before it.
LEMMA JoinsHold ==
  ASSUME NEW S, NEW parts \in Seq(Seq(S)), NEW n \in 0..Len(parts), NEW m \in 1..n
  PROVE  /\ Holds(Joins(parts)[n], Len(Joins(parts)[m - 1]), parts[m])
         /\ Len(Joins(parts)[m]) = Len(Joins(parts)[m - 1]) + Len(parts[m])
<1> DEFINE e == Joins(parts)
           N == Len(parts)
<1>1. /\ e \in [0..N -> Seq(S)] /\ N \in Nat
      /\ \A k \in 1..N : e[k] = e[k - 1] \o parts[k]
      /\ \A k \in 1..N : parts[k] \in Seq(S)
  BY JoinsValue, JoinedParts
<1>2. Begins(e[n], e[m])
  BY JoinsBegin
<1>3. m \in 1..N /\ m - 1 \in 0..N /\ m \in 0..N
  BY <1>1
<1> HIDE DEF e, N
<1> DEFINE a == e[m - 1]
           b == parts[m]
           c == e[n]
<1>4. a \in Seq(S) /\ b \in Seq(S) /\ c \in Seq(S) /\ e[m] = a \o b
  BY <1>1, <1>3 DEF N
<1> HIDE DEF a, b, c
<1>5. Holds(a \o b, Len(a), b) /\ Len(a \o b) = Len(a) + Len(b) /\ a \o b \in Seq(S) /\ Len(a) \in Nat
  BY <1>4, JoinTwo
<1>6. Begins(c, a \o b)
  BY <1>2, <1>4 DEF c
<1>7. Holds(c, Len(a), b)
  BY <1>4, <1>5, <1>6, BeginsMore
<1> QED
  BY <1>4, <1>5, <1>7 DEF a, b, c, e
-----------------------------------------------------------------------------
(* Numbers.                                                                *)

LEMMA DigitOf ==
  ASSUME NEW n \in Nat
  PROVE  /\ n \div Base \in Nat /\ n % Base \in Nat /\ n % Base < Base
         /\ n = (n \div Base) * Base + (n % Base)
<1> DEFINE B == Base
<1>1. B \in Nat /\ B > 0
  BY MyiAssumption
<1> HIDE DEF B
<1>2. n \div B \in Nat /\ n % B \in Nat /\ n % B < B /\ n = (n \div B) * B + (n % B)
  BY <1>1
<1> QED
  BY <1>2 DEF B

LEMMA ShiftedValue ==
  ASSUME NEW n \in Nat, NEW len \in Nat
  PROVE  /\ Shifted(n, len) \in [0..len -> Nat]
         /\ Shifted(n, len)[0] = n
         /\ \A i \in 1..len : Shifted(n, len)[i] = Shifted(n, len)[i - 1] \div Base
<1> DEFINE Half(m) == m \div Base
           step == [k \in 1..len |-> [m \in Nat |-> Half(m)]]
<1>1. \A m \in Nat : Half(m) \in Nat
  BY DigitOf
<1> HIDE DEF Half
<1>2. Steps(step, Nat, len)
  BY <1>1 DEF Steps
<1>3. PICK f : Follows(f, step, n, Nat, len)
  <2> HIDE DEF step
  <2> QED
    BY <1>2, Recursion
<1>4. f \in [0..len -> Nat] /\ f[0] = n
  BY <1>3 DEF Follows
<1>5. ASSUME NEW k \in 1..len PROVE f[k] = Half(f[k - 1])
  <2>1. f[k] = step[k][f[k - 1]] /\ f[k - 1] \in Nat
    BY <1>3, <1>4 DEF Follows
  <2> QED
    BY <2>1
<1> HIDE DEF step
<1>6. f = [i \in 0..len |-> IF i = 0 THEN n ELSE Half(f[i - 1])]
  <2>1. f = [i \in 0..len |-> f[i]]
    BY <1>4
  <2>2. ASSUME NEW i \in 0..len PROVE f[i] = IF i = 0 THEN n ELSE Half(f[i - 1])
    BY <1>4, <1>5
  <2> QED
    BY <2>1, <2>2
<1> DEFINE e == Shifted(n, len)
<1>7. e = [i \in 0..len |-> IF i = 0 THEN n ELSE Half(e[i - 1])]
  BY <1>6 DEF Shifted, Half
<1> HIDE DEF e
<1>8. e[0] = n /\ \A i \in 1..len : e[i] = Half(e[i - 1])
  BY <1>7
<1>9. e \in [0..len -> Nat]
  <2>1. e = [k \in 0..len |-> e[k]]
    BY <1>7
  <2>2. \A k \in 1..len : e[k - 1] \in Nat => e[k] \in Nat
    BY <1>1, <1>8
  <2> QED
    BY <1>8, <2>1, <2>2, RecursionType
<1> QED
  BY <1>8, <1>9 DEF e, Half

LEMMA BytesValue ==
  ASSUME NEW n \in Nat, NEW len \in Nat
  PROVE  /\ Bytes(n, len) \in Seq(Nat) /\ Len(Bytes(n, len)) = len
         /\ \A i \in 1..len : /\ Bytes(n, len)[i] = Shifted(n, len)[len - i] % Base
                              /\ Bytes(n, len)[i] < Base
<1> DEFINE e == Shifted(n, len)
           Digit(i) == e[len - i] % Base
<1>1. \A i \in 1..len : Digit(i) \in Nat /\ Digit(i) < Base
  <2> TAKE i \in 1..len
  <2>1. len - i \in 0..len
    OBVIOUS
  <2>2. e[len - i] \in Nat
    BY <2>1, ShiftedValue
  <2> QED
    BY <2>2, DigitOf
<1>2. Bytes(n, len) = [i \in 1..len |-> Digit(i)]
  BY DEF Bytes
<1> HIDE DEF Digit, e
<1>3. Bytes(n, len) \in Seq(Nat) /\ Len(Bytes(n, len)) = len
  BY <1>1, <1>2
<1> QED
  BY <1>1, <1>2, <1>3 DEF Digit, e

LEMMA ValuesAre ==
  ASSUME NEW b \in Seq(Nat)
  PROVE  /\ Values(b) \in [0..Len(b) -> Nat]
         /\ Values(b)[0] = 0
         /\ \A i \in 1..Len(b) : Values(b)[i] = Values(b)[i - 1] * Base + b[i]
<1> DEFINE len == Len(b)
           More(v, d) == v * Base + d
           step == [k \in 1..len |-> [v \in Nat |-> More(v, b[k])]]
<1>0. len \in Nat /\ \A i \in 1..len : b[i] \in Nat
  OBVIOUS
<1>1. \A v, d \in Nat : More(v, d) \in Nat
  BY MyiAssumption
<1> HIDE DEF More, len
<1>2. Steps(step, Nat, len)
  BY <1>0, <1>1 DEF Steps
<1>3. PICK f : Follows(f, step, 0, Nat, len)
  <2> HIDE DEF step
  <2> QED
    BY <1>0, <1>2, Recursion
<1>4. f \in [0..len -> Nat] /\ f[0] = 0
  BY <1>3 DEF Follows
<1>5. ASSUME NEW k \in 1..len PROVE f[k] = More(f[k - 1], b[k])
  <2>1. f[k] = step[k][f[k - 1]] /\ f[k - 1] \in Nat
    BY <1>0, <1>3, <1>4 DEF Follows
  <2> QED
    BY <2>1
<1> HIDE DEF step
<1>6. f = [i \in 0..len |-> IF i = 0 THEN 0 ELSE More(f[i - 1], b[i])]
  <2>1. f = [i \in 0..len |-> f[i]]
    BY <1>4
  <2>2. ASSUME NEW i \in 0..len PROVE f[i] = IF i = 0 THEN 0 ELSE More(f[i - 1], b[i])
    BY <1>0, <1>4, <1>5
  <2> QED
    BY <2>1, <2>2
<1> DEFINE e == Values(b)
<1>7. e = [i \in 0..len |-> IF i = 0 THEN 0 ELSE More(e[i - 1], b[i])]
  BY <1>6 DEF Values, More, len
<1> HIDE DEF e
<1>8. e[0] = 0 /\ \A i \in 1..len : e[i] = More(e[i - 1], b[i])
  BY <1>0, <1>7
<1>9. e \in [0..len -> Nat]
  <2>1. e = [k \in 0..len |-> e[k]]
    BY <1>7
  <2>2. \A k \in 1..len : e[k - 1] \in Nat => e[k] \in Nat
    BY <1>0, <1>1, <1>8
  <2>3. e[0] \in Nat /\ len \in Nat
    BY <1>0, <1>8
  <2> QED
    BY <2>1, <2>2, <2>3, RecursionType
<1> QED
  BY <1>8, <1>9 DEF e, More, len

\* A number that fits in len bytes is read back from them.
LEMMA ReadBack ==
  ASSUME NEW n \in Nat, NEW len \in Nat, Shifted(n, len)[len] = 0
  PROVE  Value(Bytes(n, len)) = n
<1> DEFINE e == Shifted(n, len)
           b == Bytes(n, len)
           v == Values(b)
<1>1. /\ e \in [0..len -> Nat] /\ e[0] = n /\ e[len] = 0
      /\ \A i \in 1..len : e[i] = e[i - 1] \div Base
  BY ShiftedValue
<1>2. b \in Seq(Nat) /\ Len(b) = len /\ \A i \in 1..len : b[i] = e[len - i] % Base
  BY BytesValue
<1>3. v[0] = 0 /\ \A i \in 1..len : v[i] = v[i - 1] * Base + b[i]
  BY <1>2, ValuesAre
<1> DEFINE T == {k \in Nat : k <= len => v[k] = e[len - k]}
<1> HIDE DEF e, b, v
<1>4. 0 \in T
  <2>1. len - 0 = len
    OBVIOUS
  <2> QED
    BY <1>1, <1>3, <2>1
<1>5. ASSUME NEW k \in T PROVE k + 1 \in T
  <2> SUFFICES ASSUME k + 1 <= len PROVE v[k + 1] = e[len - (k + 1)]
    BY <1>5
  <2> DEFINE m == e[len - (k + 1)]
  <2>1. /\ k + 1 \in 1..len /\ (k + 1) - 1 = k /\ len - k \in 1..len
        /\ (len - k) - 1 = len - (k + 1) /\ len - (k + 1) \in 0..len
    BY <1>5
  <2>2. v[k] = e[len - k] /\ e[len - k] = m \div Base /\ m \in Nat
    BY <1>1, <1>5, <2>1
  <2>3. v[k + 1] = v[k] * Base + b[k + 1] /\ b[k + 1] = m % Base
    BY <1>2, <1>3, <2>1
  <2> HIDE DEF m
  <2>4. v[k + 1] = m
    BY <2>2, <2>3, DigitOf
  <2> QED
    BY <2>4 DEF m
<1>6. T = Nat
  <2> HIDE DEF T
  <2>1. T \subseteq Nat
    BY DEF T
  <2> QED
    BY <1>4, <1>5, <2>1, Induction
<1>7. v[len] = e[0]
  <2>1. v[len] = e[len - len] /\ len - len = 0
    BY <1>6
  <2> QED
    BY <2>1
<1> QED
  BY <1>1, <1>2, <1>7 DEF Value, v, b

LEMMA SubSeqIs ==
  ASSUME NEW S, NEW s \in Seq(S), NEW m \in 1..Len(s) + 1, NEW n \in m - 1..Len(s)
  PROVE  /\ SubSeq(s, m, n) \in Seq(S) /\ Len(SubSeq(s, m, n)) = n - m + 1
         /\ \A i \in 1..n - m + 1 : SubSeq(s, m, n)[i] = s[m + i - 1]
OBVIOUS

\* Four digits, and the digits before them.
Cube == Base * Base * Base
Four(a, b, c, d) == ((a * Base + b) * Base + c) * Base + d

LEMMA FourDigits ==
  ASSUME NEW v \in Nat, NEW a \in Nat, NEW b \in Nat, NEW c \in Nat, NEW d \in Nat
  PROVE  (((v * Base + a) * Base + b) * Base + c) * Base + d = v * Int32 + Four(a, b, c, d)
<1> DEFINE B == Base
<1>1. B \in Nat
  BY MyiAssumption
<1> HIDE DEF B
<1>2. (((v * B + a) * B + b) * B + c) * B + d
         = v * (B * B * B * B) + (((a * B + b) * B + c) * B + d)
  BY <1>1
<1> QED
  BY <1>2 DEF B, Int32, Four

LEMMA FirstDigit ==
  ASSUME NEW a \in Nat, NEW b \in Nat, NEW c \in Nat, NEW d \in Nat
  PROVE  /\ Four(0, b, c, d) \in Nat
         /\ Four(a, b, c, d) = a * Cube + Four(0, b, c, d)
<1> DEFINE B == Base
<1>1. B \in Nat
  BY MyiAssumption
<1> HIDE DEF B
<1>2. ((a * B + b) * B + c) * B + d = a * (B * B * B) + ((b * B + c) * B + d)
  BY <1>1
<1>3. b * B + c \in Nat /\ 0 * B + b = b
  BY <1>1
<1> DEFINE x == b * B + c
<1> HIDE DEF x
<1>4. x * B + d \in Nat
  BY <1>1, <1>3 DEF x
<1> QED
  BY <1>2, <1>3, <1>4 DEF B, Four, Cube, x

LEMMA LowIs ==
  ASSUME NEW b \in Seq(Nat), Len(b) >= 4
  PROVE  LET m == Len(b) - 4
         IN Low(b) = Four(b[m + 1], b[m + 2], b[m + 3], b[m + 4])
<1> DEFINE m == Len(b) - 4
           c == SubSeq(b, Len(b) - 3, Len(b))
           v == Values(c)
<1>1. /\ c \in Seq(Nat) /\ Len(c) = 4
      /\ c[1] = b[m + 1] /\ c[2] = b[m + 2] /\ c[3] = b[m + 3] /\ c[4] = b[m + 4]
  <2>1. Len(b) \in Nat /\ Len(b) - 3 \in 1..Len(b) + 1 /\ Len(b) \in (Len(b) - 3) - 1..Len(b)
    OBVIOUS
  <2>2. /\ c \in Seq(Nat) /\ Len(c) = Len(b) - (Len(b) - 3) + 1
        /\ \A i \in 1..Len(b) - (Len(b) - 3) + 1 : c[i] = b[Len(b) - 3 + i - 1]
    BY <2>1, SubSeqIs
  <2>3. Len(b) - (Len(b) - 3) + 1 = 4 /\ \A i \in 1..4 : Len(b) - 3 + i - 1 = m + i
    BY <2>1
  <2> HIDE DEF c, m
  <2>4. \A i \in 1..4 : c[i] = b[m + i]
    BY <2>2, <2>3
  <2>5. c \in Seq(Nat) /\ Len(c) = 4
    BY <2>2, <2>3
  <2> QED
    BY <2>4, <2>5
<1>2. v[0] = 0 /\ \A i \in 1..4 : v[i] = v[i - 1] * Base + c[i]
  <2>1. c \in Seq(Nat) /\ Len(c) = 4
    BY <1>1
  <2> HIDE DEF c
  <2>2. v[0] = 0 /\ \A i \in 1..Len(c) : v[i] = v[i - 1] * Base + c[i]
    BY <2>1, ValuesAre
  <2> QED
    BY <2>1, <2>2
<1> HIDE DEF c, v
<1>3. c[1] \in Nat /\ c[2] \in Nat /\ c[3] \in Nat /\ c[4] \in Nat /\ Base \in Nat
  <2>1. \A i \in 1..4 : c[i] \in Nat
    BY <1>1, ElementOf
  <2> QED
    BY <2>1, MyiAssumption
<1>4. /\ v[1] = v[0] * Base + c[1] /\ v[2] = v[1] * Base + c[2]
      /\ v[3] = v[2] * Base + c[3] /\ v[4] = v[3] * Base + c[4]
  <2>1. 1 - 1 = 0 /\ 2 - 1 = 1 /\ 3 - 1 = 2 /\ 4 - 1 = 3
    OBVIOUS
  <2>2. v[1] = v[1 - 1] * Base + c[1] /\ v[2] = v[2 - 1] * Base + c[2]
    BY <1>2
  <2>3. v[3] = v[3 - 1] * Base + c[3] /\ v[4] = v[4 - 1] * Base + c[4]
    BY <1>2
  <2> QED
    BY <2>1, <2>2, <2>3
<1>5. v[1] = c[1]
  BY <1>2, <1>3, <1>4
<1>6. v[4] = Four(c[1], c[2], c[3], c[4])
  BY <1>4, <1>5 DEF Four
<1> QED
  BY <1>1, <1>6 DEF Low, Value, v, c

LEMMA LowAndHigh ==
  ASSUME NEW b \in Seq(Nat), Len(b) >= 4
  PROVE  High(b) * Int32 + Low(b) = Value(b)
<1> DEFINE m == Len(b) - 4
           c == SubSeq(b, 1, m)
           u == Values(c)
           v == Values(b)
<1>1. m \in Nat /\ c \in Seq(Nat) /\ Len(c) = m /\ \A i \in 1..m : c[i] = b[i]
  <2>1. Len(b) \in Nat /\ m \in 1 - 1..Len(b) /\ 1 \in 1..Len(b) + 1
    OBVIOUS
  <2>2. /\ c \in Seq(Nat) /\ Len(c) = m - 1 + 1
        /\ \A i \in 1..m - 1 + 1 : c[i] = b[1 + i - 1]
    BY <2>1, SubSeqIs
  <2>3. m - 1 + 1 = m /\ \A i \in 1..m : 1 + i - 1 = i
    BY <2>1
  <2> HIDE DEF c, m
  <2> QED
    BY <2>1, <2>2, <2>3
<1>2. u[0] = 0 /\ \A i \in 1..m : u[i] = u[i - 1] * Base + c[i]
  BY <1>1, ValuesAre
<1>3. /\ v \in [0..m + 4 -> Nat] /\ v[0] = 0
      /\ \A i \in 1..m + 4 : v[i] = v[i - 1] * Base + b[i]
  <2>1. m + 4 = Len(b)
    OBVIOUS
  <2> QED
    BY <2>1, ValuesAre
<1>a. \A i \in 1..m + 4 : b[i] \in Nat
  OBVIOUS
<1>4. Low(b) = Four(b[m + 1], b[m + 2], b[m + 3], b[m + 4])
  BY LowIs
<1>5. High(b) = u[m] /\ Value(b) = v[m + 4]
  BY <1>1 DEF High, Value
<1> HIDE DEF m, c, u, v
<1> DEFINE T == {k \in Nat : k <= m => u[k] = v[k]}
<1>6. 0 \in T
  BY <1>2, <1>3
<1>7. ASSUME NEW k \in T PROVE k + 1 \in T
  <2> SUFFICES ASSUME k + 1 <= m PROVE u[k + 1] = v[k + 1]
    BY <1>7
  <2>1. k + 1 \in 1..m /\ k + 1 \in 1..m + 4 /\ (k + 1) - 1 = k /\ u[k] = v[k]
    BY <1>1, <1>7
  <2>2. u[k + 1] = u[k] * Base + c[k + 1]
    BY <1>2, <2>1
  <2>3. v[k + 1] = v[k] * Base + b[k + 1]
    BY <1>3, <2>1
  <2>4. c[k + 1] = b[k + 1]
    BY <1>1, <2>1
  <2> QED
    BY <2>1, <2>2, <2>3, <2>4
<1>8. T = Nat
  <2> HIDE DEF T
  <2>1. T \subseteq Nat
    BY DEF T
  <2> QED
    BY <1>6, <1>7, <2>1, Induction
<1>9. u[m] = v[m] /\ v[m] \in Nat
  <2>1. m \in T /\ m <= m /\ m \in 0..m + 4
    BY <1>1, <1>8
  <2> QED
    BY <1>3, <2>1
<1>10. /\ v[m + 1] = v[m] * Base + b[m + 1] /\ v[m + 2] = v[m + 1] * Base + b[m + 2]
       /\ v[m + 3] = v[m + 2] * Base + b[m + 3] /\ v[m + 4] = v[m + 3] * Base + b[m + 4]
  <2>1. /\ (m + 1) - 1 = m /\ (m + 2) - 1 = m + 1 /\ (m + 3) - 1 = m + 2 /\ (m + 4) - 1 = m + 3
        /\ {m + 1, m + 2, m + 3, m + 4} \subseteq 1..m + 4
    BY <1>1
  <2> QED
    BY <1>3, <2>1
<1>11. {b[m + 1], b[m + 2], b[m + 3], b[m + 4]} \subseteq Nat
  BY <1>1, <1>a
<1>12. v[m + 4] = v[m] * Int32 + Four(b[m + 1], b[m + 2], b[m + 3], b[m + 4])
  <2> DEFINE x == v[m]
             p == b[m + 1]
             q == b[m + 2]
             r == b[m + 3]
             s == b[m + 4]
  <2>1. x \in Nat /\ p \in Nat /\ q \in Nat /\ r \in Nat /\ s \in Nat
    BY <1>9, <1>11
  <2>2. v[m + 4] = (((x * Base + p) * Base + q) * Base + r) * Base + s
    BY <1>10
  <2> HIDE DEF x, p, q, r, s
  <2>3. v[m + 4] = x * Int32 + Four(p, q, r, s)
    BY <2>1, <2>2, FourDigits
  <2> QED
    BY <2>3 DEF x, p, q, r, s
<1> QED
  BY <1>4, <1>5, <1>9, <1>12

\* The bit that is taken for the sign is not set in a number that is Held.
LEMMA SignBit ==
  ASSUME NEW b \in Seq(Nat), Len(b) >= 4, Low(b) < Int32 \div 2
  PROVE  ~(b[Len(b) - 3] >= Base \div 2)
<1> DEFINE m == Len(b) - 4
           B == Base
           h == Base \div 2
           a == b[m + 1]
           rest == Four(0, b[m + 2], b[m + 3], b[m + 4])
<1>1. m + 1 = Len(b) - 3 /\ {b[m + 1], b[m + 2], b[m + 3], b[m + 4]} \subseteq Nat
  <2>1. Len(b) \in Nat /\ \A i \in 1..Len(b) : b[i] \in Nat
    BY ElementOf
  <2>2. m + 1 = Len(b) - 3 /\ {m + 1, m + 2, m + 3, m + 4} \subseteq 1..Len(b)
    BY <2>1
  <2> HIDE DEF m
  <2> QED
    BY <2>1, <2>2
<1>2. B \in Nat /\ h \in Nat /\ B = 2 * h /\ Int32 = B * B * B * B
  BY MyiAssumption DEF Int32
<1>3. Low(b) = Four(a, b[m + 2], b[m + 3], b[m + 4])
  BY LowIs
<1>4. Cube \in Nat /\ Int32 = B * Cube
  BY <1>2 DEF Cube
<1>5. rest \in Nat /\ Low(b) = a * Cube + rest
  <2> DEFINE p == b[m + 2]
             q == b[m + 3]
             r == b[m + 4]
  <2>1. p \in Nat /\ q \in Nat /\ r \in Nat /\ a \in Nat
    BY <1>1
  <2> HIDE DEF p, q, r, a, m
  <2>2. Four(0, p, q, r) \in Nat /\ Four(a, p, q, r) = a * Cube + Four(0, p, q, r)
    <3>1. Cube \in Nat
      BY <1>4
    <3>2. Four(0, p, q, r) \in Nat
      BY <2>1, FirstDigit
    <3>3. Four(a, p, q, r) = a * Cube + Four(0, p, q, r)
      BY <2>1, <3>1, FirstDigit
    <3> QED
      BY <3>2, <3>3
  <2> QED
    BY <1>3, <2>2 DEF p, q, r
<1>6. a \in Nat
  BY <1>1
<1> HIDE DEF h, rest, a, B
<1>7. Int32 \div 2 = h * Cube
  <2> DEFINE x == h * Cube
  <2>1. x \in Nat
    BY <1>2, <1>4
  <2>2. Int32 = 2 * x
    BY <1>2, <1>4
  <2> HIDE DEF x
  <2>3. Int32 \div 2 = x
    BY <2>1, <2>2
  <2> QED
    BY <2>3 DEF x
<1>8. ASSUME a >= h PROVE FALSE
  <2> DEFINE d == a - h
  <2>1. d \in Nat /\ a = h + d
    BY <1>2, <1>6, <1>8
  <2> HIDE DEF d
  <2>2. d * Cube \in Nat /\ a * Cube = h * Cube + d * Cube /\ h * Cube \in Nat
    BY <1>2, <1>4, <2>1
  <2> QED
    BY <1>5, <1>7, <2>2
<1> QED
  BY <1>1, <1>8 DEF a, h

\* The conversions give back what was put down.
LEMMA RecordsRead ==
  ASSUME NEW n \in Nat, Shifted(n, 8)[8] = 0, Low(Bytes(n, 8)) < Int32 \div 2
  PROVE  buf2MysqlUint64(Bytes(n, 8)) = n
<1> DEFINE b == Bytes(n, 8)
<1>a. 8 \in Nat
  OBVIOUS
<1>b. b \in Seq(Nat) /\ Len(b) = 8
  BY <1>a, BytesValue
<1>c. Value(b) = n
  BY <1>a, ReadBack
<1>1. /\ b \in Seq(Nat) /\ Len(b) = 8 /\ Value(b) = n
      /\ Low(b) < Int32 \div 2 /\ Len(b) >= 4
  <2> HIDE DEF b
  <2>1. Len(b) >= 4
    BY <1>b
  <2> QED
    BY <1>b, <1>c, <2>1 DEF b
<1> HIDE DEF b
<1>2. High(b) * Int32 + Low(b) = n
  BY <1>1, LowAndHigh
<1>3. ~(b[Len(b) - 3] >= Base \div 2)
  BY <1>1, SignBit
<1>4. ~(b[5] >= Base \div 2)
  BY <1>1, <1>3
<1> QED
  BY <1>2, <1>4 DEF b, buf2MysqlUint64

LEMMA ChildRead ==
  ASSUME myi.keyRefLen \in {5, 6}, NEW c, Held(c, myi.keyRefLen)
  PROVE  calcKeyRef(Bytes(c, myi.keyRefLen)) = c
<1> DEFINE len == myi.keyRefLen
           b == Bytes(c, len)
<1>1. c \in Nat /\ Shifted(c, len)[len] = 0 /\ Low(b) < Int32 \div 2
  BY DEF Held
<1>a. len \in {5, 6} /\ len \in Nat
  OBVIOUS
<1>b. b \in Seq(Nat) /\ Len(b) = len
  BY <1>1, <1>a, BytesValue
<1>c. Value(b) = c
  BY <1>1, <1>a, ReadBack
<1>2. /\ b \in Seq(Nat) /\ Len(b) = len /\ Value(b) = c /\ len \in {5, 6}
      /\ Len(b) >= 4 /\ Low(b) < Int32 \div 2
  <2> HIDE DEF b, len
  <2>1. Len(b) >= 4
    BY <1>a, <1>b
  <2> QED
    BY <1>1, <1>a, <1>b, <1>c, <2>1 DEF b
<1> HIDE DEF b
<1>3. High(b) * Int32 + Low(b) = c
  BY <1>2, LowAndHigh
<1>4. ~(b[Len(b) - 3] >= Base \div 2)
  BY <1>1, <1>2, SignBit
<1>5. CASE len = 5
  <2>1. ~(b[2] >= Base \div 2)
    BY <1>2, <1>4, <1>5
  <2> QED
    BY <1>3, <1>5, <2>1 DEF b, calcKeyRef, buf2MysqlUint40
<1>6. CASE len = 6
  <2>1. ~(b[3] >= Base \div 2)
    BY <1>2, <1>4, <1>6
  <2> QED
    BY <1>3, <1>6, <2>1 DEF b, calcKeyRef, buf2MysqlUint48
<1> QED
  BY <1>2, <1>5, <1>6

-----------------------------------------------------------------------------
(* Pages.                                                                  *)

Value0 == Nat \cup {Null}

LEMMA KeydefIs ==
  ASSUME IsFile(myi), NEW k \in 1..Len(myi.keydef)
  PROVE  /\ Len(myi.keydef) \in Nat /\ DOMAIN myi.keydef = 1..Len(myi.keydef)
         /\ myi.keydef[k] \in Index /\ myi.keydef[k] \in Range(myi.keydef)
         /\ Segs(k) \in Seq(Column) /\ Segs(k) = myi.keydef[k].segs
<1>1. myi.keydef \in Seq(Index) /\ DOMAIN myi.keydef = 1..Len(myi.keydef)
  BY DEF IsFile
<1>2. myi.keydef[k] \in Index
  BY <1>1, ElementOf
<1> QED
  BY <1>1, <1>2 DEF Index, Segs, Range

LEMMA PageIs ==
  ASSUME IsFile(myi), NEW b \in DOMAIN myi.pages
  PROVE  LET p == myi.pages[b]
         IN  /\ p.keys \in Seq(Seq(Value0)) /\ Len(p.keys) \in Nat
             /\ \A n \in 1..Len(p.keys) : p.keys[n] \in Seq(Value0)
             /\ p.kids \in Seq(Nat)
             /\ p.kids # <<>> => Len(p.kids) = Len(p.keys) + 1
<1>1. myi.pages[b] \in PageType
  BY DEF IsFile
<1>2. myi.pages[b].keys \in Seq(Seq(Value0)) /\ myi.pages[b].kids \in Seq(Nat)
  BY <1>1 DEF PageType, Value0
<1>3. myi.pages[b].kids # <<>> => Len(myi.pages[b].kids) = Len(myi.pages[b].keys) + 1
  BY DEF IsFile
<1> DEFINE keys == myi.pages[b].keys
<1>4. Len(keys) \in Nat /\ \A n \in 1..Len(keys) : keys[n] \in Seq(Value0)
  BY <1>2, JoinedParts
<1> QED
  BY <1>2, <1>3, <1>4

LEMMA ChildIs ==
  ASSUME IsFile(myi), NEW b \in DOMAIN myi.pages, NEW i \in 1..Len(myi.pages[b].keys) + 1
  PROVE  LET p == myi.pages[b]
         IN  /\ ChildBytes(p, i) \in Seq(Nat)
             /\ Len(ChildBytes(p, i)) = IF p.kids = <<>> THEN 0 ELSE myi.keyRefLen
             /\ myi.keyRefLen \in Nat
             /\ p.kids # <<>> => i \in DOMAIN p.kids /\ p.kids[i] \in Nat
<1> DEFINE p == myi.pages[b]
<1>1. /\ Len(p.keys) \in Nat /\ p.kids \in Seq(Nat) /\ myi.keyRefLen \in Nat
      /\ p.kids # <<>> => Len(p.kids) = Len(p.keys) + 1
  BY PageIs DEF IsFile
<1>2. p.kids # <<>> => i \in DOMAIN p.kids /\ p.kids[i] \in Nat
  <2> DEFINE kids == p.kids
             n == Len(p.keys)
  <2> SUFFICES ASSUME kids # <<>> PROVE i \in DOMAIN kids /\ kids[i] \in Nat
    OBVIOUS
  <2>1. kids \in Seq(Nat) /\ n \in Nat /\ Len(kids) = n + 1 /\ i \in 1..n + 1
    BY <1>1
  <2> HIDE DEF kids, n
  <2>2. i \in 1..Len(kids) /\ DOMAIN kids = 1..Len(kids)
    BY <2>1
  <2> QED
    BY <2>1, <2>2, ElementOf
<1>3. CASE p.kids = <<>>
  BY <1>1, <1>3 DEF ChildBytes
<1>4. CASE p.kids # <<>>
  <2> DEFINE c == p.kids[i]
             len == myi.keyRefLen
  <2>1. c \in Nat /\ len \in Nat
    BY <1>1, <1>2, <1>4
  <2>2. ChildBytes(p, i) = Bytes(c, len)
    BY <1>4 DEF ChildBytes
  <2> HIDE DEF c, len
  <2>3. Bytes(c, len) \in Seq(Nat) /\ Len(Bytes(c, len)) = len
    BY <2>1, BytesValue
  <2>4. ChildBytes(p, i) \in Seq(Nat) /\ Len(ChildBytes(p, i)) = myi.keyRefLen
    BY <2>2, <2>3 DEF len
  <2> HIDE DEF p
  <2> QED
    BY <1>1, <1>2, <1>4, <2>4 DEF p
<1> QED
  BY <1>3, <1>4

\* What a column needs, and what is in it.
Marker(s) == IF s.maybeNull THEN <<1>> ELSE <<>>
TextLen(s, value) == IF s.type = VARTEXT1 THEN Bytes(value, 2) ELSE <<>>
Text(s, value) == [i \in 1..(IF s.type = VARTEXT1 THEN value ELSE s.len) |-> 1]

LEMMA SegIs ==
  ASSUME NEW s \in Column, NEW value \in Value0
  PROVE  /\ SegBytes(s, value) \in Seq(Nat)
         /\ SegBytes(s, value) = IF value = Null THEN <<0>>
                                 ELSE Marker(s) \o TextLen(s, value) \o Text(s, value)
         /\ value # Null =>
              /\ Marker(s) \in Seq(Nat) /\ TextLen(s, value) \in Seq(Nat)
              /\ Text(s, value) \in Seq(Nat)
              /\ Len(Marker(s)) = IF s.maybeNull THEN 1 ELSE 0
              /\ Len(TextLen(s, value)) = IF s.type = VARTEXT1 THEN 2 ELSE 0
              /\ Len(Text(s, value)) = IF s.type = VARTEXT1 THEN value ELSE s.len
<1>1. SegBytes(s, value) = IF value = Null THEN <<0>>
                           ELSE Marker(s) \o TextLen(s, value) \o Text(s, value)
  BY DEF SegBytes, Marker, TextLen, Text
<1>2. CASE value = Null
  BY <1>1, <1>2
<1>3. CASE value # Null
  <2>1. value \in Nat /\ s.len \in Nat
    BY <1>3 DEF Value0, Column
  <2>2. Marker(s) \in Seq(Nat) /\ Len(Marker(s)) = IF s.maybeNull THEN 1 ELSE 0
    BY DEF Marker
  <2>3. TextLen(s, value) \in Seq(Nat) /\ Len(TextLen(s, value)) = IF s.type = VARTEXT1 THEN 2 ELSE 0
    <3>1. Bytes(value, 2) \in Seq(Nat) /\ Len(Bytes(value, 2)) = 2
      BY <2>1, BytesValue
    <3>2. CASE s.type = VARTEXT1
      <4>1. TextLen(s, value) = Bytes(value, 2)
        BY <3>2 DEF TextLen
      <4> QED
        BY <3>1, <3>2, <4>1
    <3>3. CASE s.type # VARTEXT1
      <4>1. TextLen(s, value) = <<>>
        BY <3>3 DEF TextLen
      <4> QED
        BY <3>3, <4>1
    <3> QED
      BY <3>2, <3>3
  <2>4. Text(s, value) \in Seq(Nat)
        /\ Len(Text(s, value)) = IF s.type = VARTEXT1 THEN value ELSE s.len
    <3> DEFINE w == IF s.type = VARTEXT1 THEN value ELSE s.len
    <3>1. w \in Nat
      BY <2>1
    <3>2. Text(s, value) = [i \in 1..w |-> 1]
      BY DEF Text
    <3> HIDE DEF w
    <3>3. [i \in 1..w |-> 1] \in Seq(Nat) /\ Len([i \in 1..w |-> 1]) = w
      BY <3>1
    <3> QED
      BY <3>2, <3>3 DEF w
  <2> DEFINE a == Marker(s)
             b == TextLen(s, value)
             c == Text(s, value)
  <2> HIDE DEF a, b, c
  <2>5. a \o b \o c \in Seq(Nat)
    BY <2>2, <2>3, <2>4 DEF a, b, c
  <2> QED
    BY <1>1, <1>3, <2>2, <2>3, <2>4, <2>5 DEF a, b, c
<1> QED
  BY <1>2, <1>3

\* The parts of a key and those of a page.
Parts(k, key) == [i \in DOMAIN key |-> SegBytes(Segs(k)[i], key[i])]
Ref == [i \in 1..myi.recordRefLen |-> 1]
Entries(k, p) == [i \in DOMAIN p.keys |-> KeyBytes(k, p.keys[i]) \o ChildBytes(p, i + 1)]

LEMMA KeyIs ==
  ASSUME IsFile(myi), NEW k \in 1..Len(myi.keydef), NEW key \in Seq(Value0),
         Len(key) = Len(Segs(k))
  PROVE  /\ Parts(k, key) \in Seq(Seq(Nat)) /\ Len(Parts(k, key)) = Len(Segs(k))
         /\ Join(Parts(k, key)) \in Seq(Nat)
         /\ KeyBytes(k, key) = Join(Parts(k, key)) \o Ref
         /\ Ref \in Seq(Nat) /\ Len(Ref) = myi.recordRefLen /\ myi.recordRefLen \in Nat \ {0}
         /\ KeyBytes(k, key) \in Seq(Nat)
         /\ Len(KeyBytes(k, key)) = Len(Join(Parts(k, key))) + myi.recordRefLen
<1>1. Segs(k) \in Seq(Column) /\ Len(key) \in Nat /\ DOMAIN key = 1..Len(key)
  BY KeydefIs
<1>2. ASSUME NEW i \in 1..Len(key) PROVE SegBytes(Segs(k)[i], key[i]) \in Seq(Nat)
  <2>1. Segs(k)[i] \in Column /\ key[i] \in Value0
    BY <1>1, ElementOf
  <2> QED
    BY <2>1, SegIs
<1>3. Parts(k, key) \in Seq(Seq(Nat)) /\ Len(Parts(k, key)) = Len(Segs(k))
  <2> DEFINE Q == Seq(Nat)
             P(i) == SegBytes(Segs(k)[i], key[i])
  <2>1. \A i \in 1..Len(key) : P(i) \in Q
    BY <1>2
  <2> HIDE DEF P, Q
  <2>2. [i \in 1..Len(key) |-> P(i)] \in Seq(Q) /\ Len([i \in 1..Len(key) |-> P(i)]) = Len(key)
    BY <1>1, <2>1
  <2> QED
    BY <1>1, <2>2 DEF P, Q, Parts
<1> DEFINE parts == Parts(k, key)
           j == Join(parts)
           len == myi.recordRefLen
<1>4. j \in Seq(Nat)
  <2>1. Joins(parts) \in [0..Len(parts) -> Seq(Nat)] /\ Len(parts) \in Nat
    BY <1>3, JoinsValue, JoinedParts
  <2> QED
    BY <2>1 DEF Join
<1>5. len \in Nat /\ len # 0
  BY DEF IsFile
<1>6. Ref \in Seq(Nat) /\ Len(Ref) = len
  BY <1>5 DEF Ref
<1>7. KeyBytes(k, key) = j \o Ref
  BY DEF KeyBytes, Parts, Ref
<1> HIDE DEF j, len, parts
<1>8. j \o Ref \in Seq(Nat) /\ Len(j \o Ref) = Len(j) + len
  <2>1. Ref \in Seq(Nat)
    BY <1>6
  <2>2. j \o Ref \in Seq(Nat) /\ Len(j \o Ref) = Len(j) + Len(Ref)
    BY <1>4, <2>1, JoinTwo
  <2> QED
    BY <1>6, <2>2
<1> QED
  BY <1>3, <1>4, <1>5, <1>6, <1>7, <1>8 DEF j, len, parts
PageIsFor(k, b) == b \in DOMAIN myi.pages /\ PageFor(myi.keydef[k], myi.pages[b])

LEMMA EntriesAre ==
  ASSUME IsFile(myi), NEW k \in 1..Len(myi.keydef), NEW b, PageIsFor(k, b)
  PROVE  LET p == myi.pages[b]
         IN  /\ Entries(k, p) \in Seq(Seq(Nat)) /\ Len(Entries(k, p)) = Len(p.keys)
             /\ \A n \in 1..Len(p.keys) :
                  /\ Entries(k, p)[n] = KeyBytes(k, p.keys[n]) \o ChildBytes(p, n + 1)
                  /\ p.keys[n] \in Seq(Value0) /\ Len(p.keys[n]) = Len(Segs(k))
                  /\ KeyBytes(k, p.keys[n]) \in Seq(Nat)
                  /\ ChildBytes(p, n + 1) \in Seq(Nat)
<1> DEFINE p == myi.pages[b]
           N == Len(p.keys)
           E(n) == KeyBytes(k, p.keys[n]) \o ChildBytes(p, n + 1)
           Q == Seq(Nat)
<1>1. b \in DOMAIN myi.pages
  BY DEF PageIsFor
<1>2. N \in Nat /\ DOMAIN p.keys = 1..N /\ \A n \in 1..N : p.keys[n] \in Seq(Value0)
  BY <1>1, PageIs
<1>3. \A n \in 1..N : Len(p.keys[n]) = Len(Segs(k))
  BY <1>2 DEF PageIsFor, PageFor, Segs
<1>4. ASSUME NEW n \in 1..N
      PROVE  /\ KeyBytes(k, p.keys[n]) \in Seq(Nat) /\ ChildBytes(p, n + 1) \in Seq(Nat)
             /\ E(n) \in Q
  <2>1. KeyBytes(k, p.keys[n]) \in Seq(Nat)
    BY <1>2, <1>3, KeyIs
  <2>2. n + 1 \in 1..N + 1
    BY <1>2
  <2>3. ChildBytes(p, n + 1) \in Seq(Nat)
    BY <1>1, <2>2, ChildIs
  <2> DEFINE x == KeyBytes(k, p.keys[n])
             y == ChildBytes(p, n + 1)
  <2> HIDE DEF x, y, p, N
  <2>4. x \o y \in Seq(Nat)
    BY <2>1, <2>3 DEF x, y
  <2> QED
    BY <2>1, <2>3, <2>4 DEF x, y
<1>5. Entries(k, p) = [n \in 1..N |-> E(n)]
  BY <1>2 DEF Entries
<1> DEFINE e == Entries(k, p)
<1>6. e \in Seq(Q) /\ Len(e) = N /\ \A n \in 1..N : e[n] = E(n)
  <2>1. \A n \in 1..N : E(n) \in Q
    BY <1>4
  <2> HIDE DEF E, Q, N, e
  <2>2. e = [n \in 1..N |-> E(n)]
    BY <1>5 DEF e
  <2> QED
    BY <1>2, <2>1, <2>2
<1> HIDE DEF e, p
<1> QED
  BY <1>2, <1>3, <1>4, <1>6 DEF e, p

\* The bytes of the first n keys, and what comes next.
LEMMA PrefixIs ==
  ASSUME IsFile(myi), NEW k \in 1..Len(myi.keydef), NEW b, PageIsFor(k, b),
         NEW n \in 0..Len(myi.pages[b].keys)
  PROVE  LET p == myi.pages[b]
         IN  /\ Prefix(k, p, n) = ChildBytes(p, 1) \o Joins(Entries(k, p))[n]
             /\ ChildBytes(p, 1) \in Seq(Nat) /\ Joins(Entries(k, p))[n] \in Seq(Nat)
             /\ Prefix(k, p, n) \in Seq(Nat)
             /\ Len(Prefix(k, p, n)) = Len(ChildBytes(p, 1)) + Len(Joins(Entries(k, p))[n])
<1> DEFINE p == myi.pages[b]
           e == Entries(k, p)
           c == ChildBytes(p, 1)
           j == Joins(e)[n]
<1>1. e \in Seq(Seq(Nat)) /\ Len(e) = Len(p.keys)
  BY EntriesAre
<1>2. j \in Seq(Nat)
  <2>1. n \in 0..Len(e)
    BY <1>1
  <2> HIDE DEF e, p
  <2>2. Joins(e) \in [0..Len(e) -> Seq(Nat)]
    BY <1>1, JoinsValue
  <2> QED
    BY <2>1, <2>2
<1>3. c \in Seq(Nat)
  <2>1. 1 \in 1..Len(p.keys) + 1 /\ b \in DOMAIN myi.pages
    BY PageIs DEF PageIsFor
  <2> QED
    BY <2>1, ChildIs
<1>4. Prefix(k, p, n) = c \o j
  BY DEF Prefix, Entries
<1> HIDE DEF c, j, p
<1>5. c \o j \in Seq(Nat) /\ Len(c \o j) = Len(c) + Len(j)
  BY <1>2, <1>3, JoinTwo
<1> QED
  BY <1>2, <1>3, <1>4, <1>5 DEF c, j, p, e

LEMMA PrefixFirst ==
  ASSUME IsFile(myi), NEW k \in 1..Len(myi.keydef), NEW b, PageIsFor(k, b)
  PROVE  LET p == myi.pages[b]
         IN  /\ Len(Prefix(k, p, 0)) = IF p.kids = <<>> THEN 0 ELSE myi.keyRefLen
             /\ Holds(Content(k, p), 0, ChildBytes(p, 1))
             /\ Content(k, p) \in Seq(Nat)
<1> DEFINE p == myi.pages[b]
           e == Entries(k, p)
           N == Len(p.keys)
           c == ChildBytes(p, 1)
           J == Joins(e)
<1>1. e \in Seq(Seq(Nat)) /\ Len(e) = N /\ N \in Nat /\ b \in DOMAIN myi.pages
  BY EntriesAre, PageIs DEF PageIsFor
<1>2. J[0] = <<>>
  BY <1>1, JoinsValue
<1>3. 0 \in 0..N /\ N \in 0..N /\ 1 \in 1..N + 1
  BY <1>1
<1>4. Len(Prefix(k, p, 0)) = Len(c) + Len(J[0])
  BY <1>3, PrefixIs
<1>5. Len(c) = IF p.kids = <<>> THEN 0 ELSE myi.keyRefLen
  BY <1>1, <1>3, ChildIs
<1>6. /\ Content(k, p) = c \o J[N] /\ c \in Seq(Nat) /\ J[N] \in Seq(Nat)
      /\ Content(k, p) \in Seq(Nat)
  <2>1. Content(k, p) = Prefix(k, p, N)
    BY DEF Content
  <2>2. \A i \in 0..N : /\ Prefix(k, p, i) = c \o J[i] /\ c \in Seq(Nat)
                         /\ J[i] \in Seq(Nat) /\ Prefix(k, p, i) \in Seq(Nat)
    BY PrefixIs
  <2> QED
    BY <1>3, <2>1, <2>2
<1> HIDE DEF c, J, p
<1>7. Begins(c \o J[N], c)
  BY <1>6, JoinTwo
<1>8. Holds(c \o J[N], 0, c)
  BY <1>6, <1>7 DEF Begins, Holds
<1>9. Len(Prefix(k, p, 0)) = Len(c)
  BY <1>2, <1>4, <1>6
<1> QED
  BY <1>5, <1>6, <1>8, <1>9 DEF c, p

LEMMA PrefixNext ==
  ASSUME IsFile(myi), NEW k \in 1..Len(myi.keydef), NEW b, PageIsFor(k, b),
         NEW n \in 1..Len(myi.pages[b].keys)
  PROVE  LET p == myi.pages[b]
             m == Len(Prefix(k, p, n - 1))
             x == KeyBytes(k, p.keys[n])
             y == ChildBytes(p, n + 1)
         IN  /\ m \in Nat /\ Holds(Content(k, p), m, x) /\ Holds(Content(k, p), m + Len(x), y)
             /\ Len(Prefix(k, p, n)) = m + Len(x) + Len(y)
<1> DEFINE p == myi.pages[b]
           e == Entries(k, p)
           N == Len(p.keys)
           c == ChildBytes(p, 1)
           J == Joins(e)
           m == Len(Prefix(k, p, n - 1))
           x == KeyBytes(k, p.keys[n])
           y == ChildBytes(p, n + 1)
           s == Content(k, p)
<1>1. /\ e \in Seq(Seq(Nat)) /\ Len(e) = N /\ N \in Nat /\ b \in DOMAIN myi.pages
      /\ e[n] = x \o y /\ x \in Seq(Nat) /\ y \in Seq(Nat)
  BY EntriesAre, PageIs DEF PageIsFor
<1>2. n - 1 \in 0..N /\ n \in 0..N /\ N \in 0..N /\ N \in 0..Len(e) /\ n \in 1..Len(e)
  BY <1>1
<1>3. m = Len(c) + Len(J[n - 1]) /\ J[n - 1] \in Seq(Nat) /\ c \in Seq(Nat)
  BY <1>2, PrefixIs
<1>4. Len(Prefix(k, p, n)) = Len(c) + Len(J[n])
  BY <1>2, PrefixIs
<1>5. s = c \o J[N] /\ J[N] \in Seq(Nat) /\ s \in Seq(Nat)
  <2>1. s = Prefix(k, p, N)
    BY DEF Content
  <2>2. \A i \in 0..N : /\ Prefix(k, p, i) = c \o J[i] /\ J[i] \in Seq(Nat)
                         /\ Prefix(k, p, i) \in Seq(Nat)
    BY PrefixIs
  <2> QED
    BY <1>2, <2>1, <2>2
<1>6. Holds(J[N], Len(J[n - 1]), e[n]) /\ Len(J[n]) = Len(J[n - 1]) + Len(e[n])
  BY <1>1, <1>2, JoinsHold
<1> HIDE DEF J, s, c, e, x, y, p, m
<1> DEFINE xy == x \o y
<1>7. /\ xy \in Seq(Nat) /\ Len(xy) = Len(x) + Len(y)
      /\ Begins(xy, x) /\ Holds(xy, Len(x), y) /\ Len(x) \in Nat /\ Len(y) \in Nat
  BY <1>1, JoinTwo
<1> HIDE DEF xy
<1>8. e[n] = xy
  BY <1>1 DEF xy
<1>9. Len(c) \in Nat /\ Len(J[n - 1]) \in Nat /\ m \in Nat
  BY <1>3
<1>10. Holds(s, Len(c), J[N])
  BY <1>3, <1>5, JoinTwo
<1>11. Holds(s, m, xy)
  <2>1. Holds(s, Len(c) + Len(J[n - 1]), xy)
    BY <1>5, <1>6, <1>7, <1>8, <1>9, <1>10, HoldsMore
  <2> QED
    BY <1>3, <2>1
<1>12. Holds(s, m + Len(x), y)
  BY <1>1, <1>5, <1>7, <1>9, <1>11, HoldsMore
<1>13. Holds(s, m, x)
  BY <1>1, <1>5, <1>7, <1>9, <1>11, HoldsFirst
<1>14. Len(Prefix(k, p, n)) = m + Len(x) + Len(y)
  <2>1. Len(J[n]) = Len(J[n - 1]) + (Len(x) + Len(y))
    BY <1>6, <1>7, <1>8
  <2>2. m = Len(c) + Len(J[n - 1]) /\ Len(Prefix(k, p, n)) = Len(c) + Len(J[n])
    BY <1>3, <1>4
  <2> DEFINE lc == Len(c)
             lj == Len(J[n - 1])
             lx == Len(x)
             ly == Len(y)
  <2>3. lc \in Nat /\ lj \in Nat /\ lx \in Nat /\ ly \in Nat
    BY <1>7, <1>9
  <2>4. m = lc + lj /\ Len(Prefix(k, p, n)) = lc + (lj + (lx + ly))
    BY <2>1, <2>2
  <2> HIDE DEF lc, lj, lx, ly
  <2>5. Len(Prefix(k, p, n)) = m + lx + ly
    BY <2>3, <2>4
  <2> QED
    BY <2>5 DEF lx, ly
<1> QED
  BY <1>9, <1>12, <1>13, <1>14 DEF m, x, y, s, p
-----------------------------------------------------------------------------
(* What the reader sees of a page.                                         *)

OnPage == index \in 1..Len(myi.keydef) /\ PageIsFor(index, Top.block)

LEMMA BufIs ==
  ASSUME IsFile(myi), OnPage, NEW q \in Nat, NEW t \in Seq(Nat), NEW n, n = Len(t),
         Holds(Content(index, Page), q, t)
  PROVE  Buf(q, n) = t
<1> DEFINE c == Content(index, Page)
           B(i) == Byte(index, Top.block, i)
<1>1. c \in Seq(Nat)
  BY PrefixFirst DEF OnPage, Page
<1>2. \A i : B(i) = IF i \in DOMAIN c THEN c[i] ELSE 0
  BY DEF Byte, Page
<1>3. Buf(q, n) = [i \in 1..n |-> B(q + i)]
  BY DEF Buf
<1>4. q + Len(t) <= Len(c) /\ \A i \in 1..Len(t) : c[q + i] = t[i]
  BY DEF Holds
<1> HIDE DEF c, B
<1>5. ASSUME NEW i \in 1..n PROVE B(q + i) = t[i]
  <2>1. q + i \in 1..Len(c) /\ DOMAIN c = 1..Len(c)
    BY <1>1, <1>4
  <2> QED
    BY <1>2, <1>4, <2>1
<1>6. t = [i \in 1..n |-> t[i]]
  OBVIOUS
<1> QED
  BY <1>3, <1>5, <1>6

LEMMA BufDigits ==
  ASSUME IsFile(myi), OnPage, NEW q \in Nat
  PROVE  Buf(q, 2)[2] \in Nat
<1> DEFINE c == Content(index, Page)
           B(i) == Byte(index, Top.block, i)
<1>1. c \in Seq(Nat)
  BY PrefixFirst DEF OnPage, Page
<1>2. \A i : B(i) = IF i \in DOMAIN c THEN c[i] ELSE 0
  BY DEF Byte, Page
<1>3. Buf(q, 2) = [i \in 1..2 |-> B(q + i)]
  BY DEF Buf
<1> HIDE DEF c, B
<1>4. Buf(q, 2)[2] = B(q + 2)
  BY <1>3
<1>5. B(q + 2) \in Nat
  BY <1>1, <1>2
<1> QED
  BY <1>4, <1>5

LEMMA SegEndIsNat ==
  ASSUME IsFile(myi), OnPage, NEW q \in Nat, NEW s \in Column
  PROVE  SegEnd(q, s) \in Nat
<1> DEFINE r == IF s.maybeNull THEN q + 1 ELSE q
           d == Buf(r, 2)[2]
<1>1. r \in Nat /\ s.len \in Nat
  BY DEF Column
<1>2. d \in Nat
  BY <1>1, BufDigits
<1>3. SegEnd(q, s) = IF s.maybeNull /\ Buf(q, 1) = <<0>> THEN r
                     ELSE IF s.type = VARTEXT1 THEN r + 2 + d ELSE r + s.len
  BY DEF SegEnd
<1> HIDE DEF r, d
<1> QED
  BY <1>1, <1>2, <1>3

LEMMA TextLenSays ==
  ASSUME NEW s \in Column, NEW value \in Nat, s.type = VARTEXT1, value < Base
  PROVE  TextLen(s, value)[2] = value
<1>1. TextLen(s, value) = Bytes(value, 2)
  BY DEF TextLen
<1>2. 2 \in Nat /\ 2 \in 1..2 /\ 2 - 2 = 0
  OBVIOUS
<1>3. Bytes(value, 2)[2] = Shifted(value, 2)[0] % Base
  <2>1. \A len \in Nat : \A i \in 1..len : Bytes(value, len)[i] = Shifted(value, len)[len - i] % Base
    BY BytesValue
  <2> QED
    BY <1>2, <2>1
<1>4. Shifted(value, 2)[0] = value
  BY <1>2, ShiftedValue
<1>5. value % Base = value
  <2> DEFINE B == Base
  <2>1. B \in Nat /\ B > 0 /\ value < B
    BY MyiAssumption
  <2> HIDE DEF B
  <2>2. value % B = value
    BY <2>1
  <2> QED
    BY <2>2 DEF B
<1> QED
  BY <1>1, <1>3, <1>4, <1>5

\* The reader finds where a column ends.
LEMMA SegRead ==
  ASSUME IsFile(myi), OnPage, NEW q \in Nat, NEW s \in Column, NEW value \in Value0,
         InColumn(value, s), Holds(Content(index, Page), q, SegBytes(s, value))
  PROVE  SegEnd(q, s) = q + Len(SegBytes(s, value))
<1> DEFINE c == Content(index, Page)
           r == IF s.maybeNull THEN q + 1 ELSE q
           d == Buf(r, 2)[2]
           w == SegBytes(s, value)
           first == Buf(q, 1)
<1>1. SegEnd(q, s) = IF s.maybeNull /\ first = <<0>> THEN r
                     ELSE IF s.type = VARTEXT1 THEN r + 2 + d ELSE r + s.len
  BY DEF SegEnd
<1>2. c \in Seq(Nat)
  BY PrefixFirst DEF OnPage, Page
<1>3. s.len \in Nat /\ s.maybeNull \in BOOLEAN /\ r \in Nat
  BY DEF Column
<1>4. CASE value = Null
  <2>1. s.maybeNull /\ w = <<0>>
    BY <1>4, SegIs DEF InColumn
  <2>2. first = <<0>>
    <3>1. <<0>> \in Seq(Nat) /\ 1 = Len(<<0>>) /\ Holds(Content(index, Page), q, <<0>>)
      BY <2>1
    <3> QED
      BY <3>1, BufIs
  <2>3. Len(w) = 1
    BY <2>1
  <2> HIDE DEF w, first, d
  <2> QED
    BY <1>1, <2>1, <2>2, <2>3 DEF w
<1>5. CASE value # Null
  <2> DEFINE a == Marker(s)
             b == TextLen(s, value)
             x == Text(s, value)
             ab == a \o b
  <2>1. /\ a \in Seq(Nat) /\ b \in Seq(Nat) /\ x \in Seq(Nat)
        /\ w = a \o b \o x /\ w \in Seq(Nat)
        /\ Len(a) = IF s.maybeNull THEN 1 ELSE 0
        /\ Len(b) = IF s.type = VARTEXT1 THEN 2 ELSE 0
        /\ Len(x) = IF s.type = VARTEXT1 THEN value ELSE s.len
    BY <1>5, SegIs
  <2>2. s.maybeNull => a = <<1>>
    BY DEF Marker
  <2>3. value \in Nat /\ (s.type = VARTEXT1 => value < Base)
    BY <1>5 DEF Value0, InColumn
  <2>4. s.type = VARTEXT1 => b[2] = value
    BY <2>3, TextLenSays
  <2> HIDE DEF a, b, x, first, d, r, c, w
  <2>5. ab \in Seq(Nat) /\ Begins(ab, a) /\ Holds(ab, Len(a), b) /\ Len(ab) = Len(a) + Len(b)
    BY <2>1, JoinTwo
  <2>6. w = ab \o x
    BY <2>1
  <2> HIDE DEF ab
  <2>7. Begins(w, ab) /\ Len(w) = Len(ab) + Len(x)
    <3>1. ab \in Seq(Nat) /\ x \in Seq(Nat)
      BY <2>1, <2>5
    <3>2. Begins(ab \o x, ab) /\ Len(ab \o x) = Len(ab) + Len(x)
      BY <3>1, JoinTwo
    <3> QED
      BY <2>6, <3>2
  <2>8. Holds(c, q, ab)
    BY <1>2, <2>1, <2>5, <2>7, HoldsFirst DEF c, w
  <2>9. Holds(c, q, a)
    BY <1>2, <2>1, <2>5, <2>8, HoldsFirst
  <2>10. Holds(c, q + Len(a), b) /\ Len(a) \in Nat /\ Len(b) \in Nat
    <3>1. Len(a) \in Nat /\ Len(b) \in Nat
      BY <2>1
    <3> QED
      BY <1>2, <2>1, <2>5, <2>8, <3>1, HoldsMore
  <2>11. r = q + Len(a) /\ r \in Nat
    BY <1>3, <2>1 DEF r
  <2>12. s.maybeNull => first # <<0>>
    <3> SUFFICES ASSUME s.maybeNull PROVE first # <<0>>
      OBVIOUS
    <3>1. <<1>> \in Seq(Nat) /\ 1 = Len(<<1>>) /\ Holds(Content(index, Page), q, <<1>>)
      BY <2>2, <2>9 DEF c
    <3>2. first = <<1>>
      BY <3>1, BufIs DEF first
    <3> QED
      BY <3>2
  <2>13. CASE s.type = VARTEXT1
    <3>1. 2 = Len(b) /\ Holds(Content(index, Page), r, b)
      BY <2>1, <2>10, <2>11, <2>13 DEF c
    <3>2. Buf(r, 2) = b
      BY <2>1, <2>11, <3>1, BufIs
    <3>3. d = value
      BY <2>4, <2>13, <3>2 DEF d
    <3>4. SegEnd(q, s) = r + 2 + value
      BY <1>1, <1>3, <2>12, <2>13, <3>3
    <3>5. Len(w) = Len(a) + 2 + value /\ Len(a) \in Nat
      BY <2>1, <2>5, <2>7, <2>10, <2>13
    <3> QED
      BY <2>3, <2>11, <3>4, <3>5 DEF w
  <2>14. CASE s.type # VARTEXT1
    <3>1. SegEnd(q, s) = r + s.len
      BY <1>1, <1>3, <2>12, <2>14
    <3>2. Len(w) = Len(a) + s.len /\ Len(a) \in Nat
      BY <1>3, <2>1, <2>5, <2>7, <2>10, <2>14
    <3> QED
      BY <1>3, <2>11, <3>1, <3>2 DEF w
  <2> QED
    BY <2>13, <2>14
<1> QED
  BY <1>4, <1>5

LEMMA SegEndsAre ==
  ASSUME IsFile(myi), OnPage, NEW q \in Nat
  PROVE  /\ SegEnds(q) \in [0..Len(Segs(index)) -> Nat]
         /\ SegEnds(q)[0] = q
         /\ \A n \in 1..Len(Segs(index)) :
              SegEnds(q)[n] = SegEnd(SegEnds(q)[n - 1], Segs(index)[n])
<1> DEFINE segs == Segs(index)
           len == Len(segs)
           G(p, n) == SegEnd(p, segs[n])
           step == [k \in 1..len |-> [p \in Nat |-> G(p, k)]]
<1>0. segs \in Seq(Column) /\ len \in Nat /\ \A n \in 1..len : segs[n] \in Column
  BY KeydefIs, ElementOf DEF OnPage
<1>1. \A p \in Nat : \A n \in 1..len : G(p, n) \in Nat
  BY <1>0, SegEndIsNat
<1> HIDE DEF G, len
<1>2. Steps(step, Nat, len)
  BY <1>1 DEF Steps
<1>3. PICK f : Follows(f, step, q, Nat, len)
  <2> HIDE DEF step
  <2> QED
    BY <1>0, <1>2, Recursion
<1>4. f \in [0..len -> Nat] /\ f[0] = q
  BY <1>3 DEF Follows
<1>5. ASSUME NEW k \in 1..len PROVE f[k] = G(f[k - 1], k)
  <2>1. f[k] = step[k][f[k - 1]] /\ f[k - 1] \in Nat
    BY <1>0, <1>3, <1>4 DEF Follows
  <2> QED
    BY <2>1
<1> HIDE DEF step
<1>6. f = [n \in 0..len |-> IF n = 0 THEN q ELSE G(f[n - 1], n)]
  <2>1. f = [n \in 0..len |-> f[n]]
    BY <1>4
  <2>2. ASSUME NEW n \in 0..len PROVE f[n] = IF n = 0 THEN q ELSE G(f[n - 1], n)
    BY <1>0, <1>4, <1>5
  <2> QED
    BY <2>1, <2>2
<1> DEFINE e == SegEnds(q)
<1>7. e = [n \in 0..len |-> IF n = 0 THEN q ELSE G(e[n - 1], n)]
  BY <1>6 DEF SegEnds, G, len
<1> HIDE DEF e
<1>8. e[0] = q /\ \A n \in 1..len : e[n] = G(e[n - 1], n)
  BY <1>0, <1>7
<1>9. e \in [0..len -> Nat]
  <2>1. e = [k \in 0..len |-> e[k]]
    BY <1>7
  <2>2. \A k \in 1..len : e[k - 1] \in Nat => e[k] \in Nat
    BY <1>1, <1>8
  <2> QED
    BY <1>0, <1>8, <2>1, <2>2, RecursionType
<1> QED
  BY <1>8, <1>9 DEF e, G, len

\* The reader finds where a key ends.
LEMMA KeyRead ==
  ASSUME IsFile(myi), OnPage, NEW q \in Nat, NEW key \in Seq(Value0),
         Len(key) = Len(Segs(index)),
         \A i \in DOMAIN Segs(index) : InColumn(key[i], Segs(index)[i]),
         Holds(Content(index, Page), q, KeyBytes(index, key))
  PROVE  printKeyValue(q) = q + Len(KeyBytes(index, key))
<1> DEFINE c == Content(index, Page)
           segs == Segs(index)
           N == Len(segs)
           parts == Parts(index, key)
           J == Joins(parts)
           e == SegEnds(q)
           w == KeyBytes(index, key)
<1>1. /\ segs \in Seq(Column) /\ N \in Nat /\ DOMAIN segs = 1..N /\ Len(key) = N
      /\ index \in 1..Len(myi.keydef)
  BY KeydefIs DEF OnPage
<1>2. /\ parts \in Seq(Seq(Nat)) /\ Len(parts) = N /\ Join(parts) \in Seq(Nat)
      /\ w = Join(parts) \o Ref /\ Ref \in Seq(Nat) /\ w \in Seq(Nat)
      /\ Len(w) = Len(Join(parts)) + myi.recordRefLen /\ myi.recordRefLen \in Nat
  BY <1>1, KeyIs
<1>3. \A n \in 1..N : parts[n] = SegBytes(segs[n], key[n])
  BY <1>1 DEF Parts
<1>4. c \in Seq(Nat)
  BY PrefixFirst DEF OnPage, Page
<1>5. e \in [0..N -> Nat] /\ e[0] = q /\ \A n \in 1..N : e[n] = SegEnd(e[n - 1], segs[n])
  BY SegEndsAre
<1>6. \A n \in 1..N : segs[n] \in Column /\ key[n] \in Value0 /\ InColumn(key[n], segs[n])
  BY <1>1, ElementOf
<1>7. Join(parts) = J[N]
  BY <1>2 DEF Join
<1>8. printKeyValue(q) = e[N] + myi.recordRefLen
  BY DEF printKeyValue
<1>9. Holds(c, q, w)
  OBVIOUS
<1> HIDE DEF parts
<1>10. /\ J \in [0..N -> Seq(Nat)] /\ J[0] = <<>>
       /\ \A n \in 1..N : parts[n] \in Seq(Nat)
  BY <1>2, JoinsValue, JoinedParts
<1>11. \A n \in 1..N : /\ Holds(J[N], Len(J[n - 1]), parts[n])
                       /\ Len(J[n]) = Len(J[n - 1]) + Len(parts[n])
  <2>1. N \in 0..Len(parts)
    BY <1>1, <1>2
  <2>2. \A m \in 0..Len(parts) : \A n \in 1..m :
           /\ Holds(Joins(parts)[m], Len(Joins(parts)[n - 1]), parts[n])
           /\ Len(Joins(parts)[n]) = Len(Joins(parts)[n - 1]) + Len(parts[n])
    BY <1>2, JoinsHold
  <2> QED
    BY <2>1, <2>2
<1> HIDE DEF c, segs, N, J, e, w
<1>12. Holds(c, q, J[N]) /\ J[N] \in Seq(Nat)
  <2>1. J[N] \in Seq(Nat) /\ w = J[N] \o Ref
    BY <1>1, <1>2, <1>7
  <2>2. Begins(w, J[N])
    BY <1>2, <2>1, JoinTwo
  <2> QED
    BY <1>2, <1>4, <1>9, <2>1, <2>2, HoldsFirst
<1> DEFINE T == {n \in Nat : n <= N => e[n] = q + Len(J[n])}
<1>13. 0 \in T
  <2>1. Len(J[0]) = 0
    BY <1>10
  <2> QED
    BY <1>5, <2>1
<1>14. ASSUME NEW n \in T PROVE n + 1 \in T
  <2> SUFFICES ASSUME n + 1 <= N PROVE e[n + 1] = q + Len(J[n + 1])
    BY <1>14
  <2>1. n + 1 \in 1..N /\ (n + 1) - 1 = n /\ n \in 0..N /\ e[n] = q + Len(J[n])
    BY <1>1, <1>14
  <2> DEFINE m == Len(J[n])
             x == parts[n + 1]
             s == segs[n + 1]
             value == key[n + 1]
  <2>2. m \in Nat
    BY <1>10, <2>1
  <2>3. /\ x \in Seq(Nat) /\ x = SegBytes(s, value) /\ s \in Column /\ value \in Value0
        /\ InColumn(value, s)
    BY <1>3, <1>6, <1>10, <2>1
  <2>4. Holds(J[N], m, x) /\ Len(J[n + 1]) = m + Len(x)
    BY <1>11, <2>1
  <2>5. e[n] = q + m /\ e[n + 1] = SegEnd(q + m, s)
    BY <1>5, <2>1
  <2> HIDE DEF m, x, s, value
  <2>6. Holds(c, q + m, x)
    BY <1>4, <1>12, <2>2, <2>3, <2>4, HoldsMore
  <2>7. SegEnd(q + m, s) = q + m + Len(x)
    <3>1. Holds(Content(index, Page), q + m, SegBytes(s, value)) /\ q + m \in Nat
      BY <2>2, <2>3, <2>6 DEF c
    <3>2. SegEnd(q + m, s) = (q + m) + Len(SegBytes(s, value))
      BY <2>3, <3>1, SegRead
    <3> QED
      BY <2>3, <3>2
  <2>8. Len(x) \in Nat
    BY <2>3
  <2> QED
    BY <2>2, <2>4, <2>5, <2>7, <2>8
<1>15. T = Nat
  <2> HIDE DEF T
  <2>1. T \subseteq Nat
    BY DEF T
  <2> QED
    BY <1>13, <1>14, <2>1, Induction
<1>16. e[N] = q + Len(J[N]) /\ Len(J[N]) \in Nat
  <2>1. N \in T /\ N <= N
    BY <1>1, <1>15
  <2> QED
    BY <1>12, <2>1
<1>17. printKeyValue(q) = q + Len(w)
  BY <1>2, <1>7, <1>8, <1>16
<1> QED
  BY <1>17 DEF w
-----------------------------------------------------------------------------
(* Invariant of read-MYI.                                                  *)

Frames(bs) == [block : bs, offset : Nat, keys : Nat, kids : Seq(Nat), i : Nat]

MyiTypes ==
  /\ IsFile(myi)
  /\ pages \in Seq(Frames(DOMAIN myi.pages))
  /\ index \in Nat /\ index > 0
  /\ mpc \in {"state", "keydef"} => pages = <<>>

\* How far activation f of printBtreeNode has read its page: nothing, before
\* the first child of a node; else some keys, and the children around them.
ReadSoFar(k, f, p) ==
  IF p.kids # <<>> /\ f.kids = <<>>
  THEN f.offset = 0 /\ f.keys = 0 /\ f.i = 0
  ELSE /\ f.offset = Len(Prefix(k, p, f.keys))
       /\ f.kids = IF p.kids = <<>> THEN <<>> ELSE SubSeq(p.kids, 1, f.keys + 1)

FrameOK(k, f) ==
  /\ PageIsFor(k, f.block)
  /\ f.keys <= Len(myi.pages[f.block].keys)
  /\ ReadSoFar(k, f, myi.pages[f.block])
  /\ f.i > 0 => f.keys = Len(myi.pages[f.block].keys)

MyiFrames ==
  /\ pages # <<>> => index <= Len(myi.keydef)
  /\ \A n \in 1..Len(pages) : FrameOK(index, pages[n])
  /\ \A n \in 1..Len(pages) - 1 : pages[n].i > 0
  /\ pages # <<>> /\ Top.i = 0 => pos = <<Top.block, 2 + Top.offset>>

MyiInv == MyiTypes /\ HeaderRead /\ MyiFrames

LEMMA MyiStays ==
  ASSUME myi' = myi
  PROVE  /\ \A k, f : FrameOK(k, f)' = FrameOK(k, f)
         /\ IsFile(myi)' = IsFile(myi)
         /\ (DOMAIN myi.pages)' = DOMAIN myi.pages
         /\ (Len(myi.keydef))' = Len(myi.keydef)
         /\ Low(Bytes(myi.records, 8))' = Low(Bytes(myi.records, 8))
<1>1. \A k, p, n : Prefix(k, p, n)' = Prefix(k, p, n)
  BY DEF Prefix, ChildBytes, KeyBytes, Segs
<1>2. \A k, f, p : ReadSoFar(k, f, p)' = ReadSoFar(k, f, p)
  BY <1>1 DEF ReadSoFar
<1>3. \A k, b : PageIsFor(k, b)' = PageIsFor(k, b)
  BY DEF PageIsFor, PageFor, InColumn
<1>4. \A k, f : FrameOK(k, f)' = FrameOK(k, f)
  BY <1>2, <1>3 DEF FrameOK
<1> QED
  BY <1>4

LEMMA MyiFiles0 == MyiInit => MyiInv
<1> SUFFICES ASSUME MyiInit PROVE MyiInv
  OBVIOUS
<1>1. myi \in MyiFiles /\ mpc = "state" /\ index = 1 /\ pages = <<>>
  BY DEF MyiInit, MyiStart
<1>2. IsFile(myi)
  BY <1>1, MyiAssumption
<1>3. MyiTypes
  BY <1>1, <1>2 DEF MyiTypes
<1>4. HeaderRead
  BY <1>1 DEF HeaderRead
<1>5. MyiFrames
  BY <1>1 DEF MyiFrames
<1> QED
  BY <1>3, <1>4, <1>5 DEF MyiInv

\* A step outside the pages, and one that leaves the pages as they are.
LEMMA NoPages ==
  ASSUME MyiInv, myi' = myi, pages' = <<>>, index' \in Nat, index' > 0, HeaderRead'
  PROVE  MyiInv'
<1>1. MyiTypes'
  <2>1. IsFile(myi)'
    BY MyiStays DEF MyiInv, MyiTypes
  <2> QED
    BY <2>1 DEF MyiTypes
<1>2. MyiFrames'
  BY DEF MyiFrames
<1> QED
  BY <1>1, <1>2 DEF MyiInv

LEMMA SamePages ==
  ASSUME MyiInv, myi' = myi, pages' = pages, index' = index, pos' = pos, records' = records,
         mpc' \in {mpc, "exit"}
  PROVE  MyiInv'
<1>1. MyiTypes'
  <2>1. IsFile(myi)' /\ (DOMAIN myi.pages)' = DOMAIN myi.pages
    BY MyiStays DEF MyiInv, MyiTypes
  <2>2. (pages \in Seq(Frames(DOMAIN myi.pages)))'
    BY <2>1 DEF MyiInv, MyiTypes
  <2> QED
    BY <2>1, <2>2 DEF MyiInv, MyiTypes
<1>2. HeaderRead'
  BY MyiStays DEF MyiInv, HeaderRead
<1>3. MyiFrames'
  <2>1. \A n \in 1..Len(pages) : FrameOK(index, pages[n])'
    BY MyiStays DEF MyiInv, MyiFrames
  <2>2. Top' = Top
    BY DEF Top
  <2> QED
    BY <2>1, <2>2, MyiStays DEF MyiInv, MyiFrames
<1> QED
  BY <1>1, <1>2, <1>3 DEF MyiInv

LEMMA HeaderStays ==
  ASSUME MyiInv, myi' = myi, records' = records, mpc # "state", mpc # "exit"
  PROVE  HeaderRead'
BY MyiStays DEF MyiInv, HeaderRead

LEMMA ReadStateStep == MyiInv /\ ReadState => MyiInv'
<1> SUFFICES ASSUME MyiInv, ReadState PROVE MyiInv'
  OBVIOUS
<1>1. CASE exit
  BY <1>1, SamePages DEF exit
<1>2. CASE ~exit
  <2>1. /\ mpc = "state" /\ mpc' = "keydef" /\ myi' = myi /\ pages' = pages /\ index' = index
        /\ records' = buf2MysqlUint64(Bytes(myi.records, 8))
    BY <1>2 DEF ReadState
  <2>2. pages = <<>> /\ index \in Nat /\ index > 0 /\ IsFile(myi)
    BY <2>1 DEF MyiInv, MyiTypes
  <2> DEFINE n == myi.records
  <2>3. n \in Nat /\ Shifted(n, 8)[8] = 0 /\ n' = n
    BY <2>1, <2>2 DEF IsFile
  <2> HIDE DEF n
  <2>4. Low(Bytes(n, 8)) < Int32 \div 2 => records' = n
    BY <2>1, <2>3, RecordsRead DEF n
  <2>5. HeaderRead'
    BY <2>1, <2>3, <2>4, MyiStays DEF HeaderRead, n
  <2> QED
    BY <2>1, <2>2, <2>5, NoPages
<1> QED
  BY <1>1, <1>2

LEMMA ReadKeydefStep == MyiInv /\ ReadKeydef => MyiInv'
<1> SUFFICES ASSUME MyiInv, ReadKeydef PROVE MyiInv'
  OBVIOUS
<1>1. CASE exit
  BY <1>1, SamePages DEF exit
<1>2. CASE ~exit
  <2>1. /\ mpc = "keydef" /\ myi' = myi /\ pages' = pages /\ index' \in {1, index + 1}
        /\ records' = records
    BY <1>2 DEF ReadKeydef
  <2>2. pages = <<>> /\ index' \in Nat /\ index' > 0
    BY <2>1 DEF MyiInv, MyiTypes
  <2> QED
    BY <2>1, <2>2, HeaderStays, NoPages
<1> QED
  BY <1>1, <1>2

LEMMA TopIs ==
  ASSUME MyiInv, pages # <<>>
  PROVE  /\ Len(pages) \in Nat /\ Len(pages) > 0
         /\ \A n \in 1..Len(pages) : pages[n] \in Frames(DOMAIN myi.pages)
         /\ Top \in Frames(DOMAIN myi.pages) /\ FrameOK(index, Top)
         /\ index \in 1..Len(myi.keydef) /\ OnPage /\ IsFile(myi)
<1>1. /\ pages \in Seq(Frames(DOMAIN myi.pages)) /\ IsFile(myi)
      /\ index \in Nat /\ index > 0 /\ index <= Len(myi.keydef)
  BY DEF MyiInv, MyiTypes, MyiFrames
<1>2. myi.keydef \in Seq(Index)
  BY <1>1 DEF IsFile
<1>3. index \in 1..Len(myi.keydef)
  BY <1>1, <1>2
<1>4. /\ Len(pages) \in Nat /\ Len(pages) > 0
      /\ \A n \in 1..Len(pages) : pages[n] \in Frames(DOMAIN myi.pages)
  <2> DEFINE F == Frames(DOMAIN myi.pages)
  <2> HIDE DEF F
  <2>1. pages \in Seq(F)
    BY <1>1 DEF F
  <2> QED
    BY <2>1, ElementOf DEF F
<1>5. Len(pages) \in 1..Len(pages)
  BY <1>4
<1>6. FrameOK(index, Top)
  BY <1>5 DEF MyiInv, MyiFrames, Top
<1> QED
  BY <1>1, <1>3, <1>4, <1>5, <1>6 DEF OnPage, FrameOK, Top

\* The innermost activation goes on.
LEMMA TopStep ==
  ASSUME MyiInv, mpc = "walk", pages # <<>>, NEW g, g \in Frames(DOMAIN myi.pages),
         FrameOK(index, g), pages' = [pages EXCEPT ![Len(pages)] = g],
         g.i = 0 => pos' = <<g.block, 2 + g.offset>>,
         myi' = myi, mpc' = mpc, index' = index, records' = records
  PROVE  MyiInv'
<1> DEFINE F == Frames(DOMAIN myi.pages)
           L == Len(pages)
<1>1. L \in Nat /\ L > 0 /\ pages \in Seq(F) /\ g \in F
  BY TopIs DEF MyiInv, MyiTypes
<1> HIDE DEF F
<1>2. /\ pages' \in Seq(F) /\ Len(pages') = L /\ pages'[L] = g
      /\ \A n \in 1..L : n # L => pages'[n] = pages[n]
  BY <1>1
<1>3. pages' # <<>>
  <2> SUFFICES ASSUME pages' = <<>> PROVE FALSE
    OBVIOUS
  <2>1. Len(pages') = 0
    OBVIOUS
  <2> HIDE DEF L
  <2> QED
    BY <1>1, <1>2, <2>1
<1>4. MyiTypes'
  <2>1. IsFile(myi)' /\ (DOMAIN myi.pages)' = DOMAIN myi.pages
    BY MyiStays DEF MyiInv, MyiTypes
  <2>2. (pages \in Seq(Frames(DOMAIN myi.pages)))'
    BY <1>2, <2>1 DEF F
  <2> QED
    BY <2>1, <2>2 DEF MyiInv, MyiTypes
<1>5. HeaderRead'
  BY HeaderStays
<1>6. MyiFrames'
  <2>1. ASSUME NEW n \in 1..L PROVE FrameOK(index, pages'[n])
    BY <1>2 DEF MyiInv, MyiFrames
  <2>a. \A k, f : FrameOK(k, f)' = FrameOK(k, f)
    BY MyiStays
  <2>b. \A n \in 1..L : FrameOK(index, pages[n])'
    BY <2>1, <2>a
  <2>2. \A n \in 1..Len(pages') : FrameOK(index, pages[n])'
    BY <1>2, <2>b
  <2>3. \A n \in 1..Len(pages') - 1 : pages'[n].i > 0
    <3> SUFFICES ASSUME NEW n \in 1..L - 1 PROVE pages'[n].i > 0
      BY <1>2
    <3>1. n \in 1..L /\ n # L
      BY <1>1
    <3> QED
      BY <1>2, <3>1 DEF MyiInv, MyiFrames
  <2>4. Top' = g
    BY <1>2 DEF Top
  <2>5. index' <= Len(myi'.keydef)
    BY DEF MyiInv, MyiFrames
  <2> QED
    BY <2>2, <2>3, <2>4, <2>5 DEF MyiFrames
<1> QED
  BY <1>4, <1>5, <1>6 DEF MyiInv

\* The frame that Eaten leaves.
Fed(q, keys, kids) == [Top EXCEPT !.offset = q, !.keys = keys, !.kids = kids]

LEMMA FedFrame ==
  ASSUME MyiInv, pages # <<>>, NEW q \in Nat, NEW keys \in Nat, NEW kids \in Seq(Nat)
  PROVE  /\ Fed(q, keys, kids) \in Frames(DOMAIN myi.pages)
         /\ Fed(q, keys, kids).block = Top.block /\ Fed(q, keys, kids).offset = q
         /\ Fed(q, keys, kids).keys = keys /\ Fed(q, keys, kids).kids = kids
         /\ Fed(q, keys, kids).i = Top.i
<1>1. Top \in Frames(DOMAIN myi.pages)
  BY TopIs
<1> QED
  BY <1>1 DEF Fed, Frames

\* After Eaten(p, keys) all is well when the bytes before p are the first keys
\* and all but the last of the children around them, and those at p the child.
LEMMA EatenStep ==
  ASSUME MyiInv, Reading, NEW p \in Nat, NEW keys \in 0..Len(Page.keys), Eaten(p, keys),
         Holds(Content(index, Page), p, ChildBytes(Page, keys + 1)),
         Len(Prefix(index, Page, keys)) = p + Len(ChildBytes(Page, keys + 1)),
         ~IsLeaf => Top.kids = SubSeq(Page.kids, 1, keys),
         IsLeaf => Top.kids = <<>>
  PROVE  MyiInv'
<1>0. mpc = "walk" /\ pages # <<>> /\ Top.i = 0
  BY DEF Reading
<1>1. CASE exit
  BY <1>1, SamePages DEF exit
<1>2. CASE ~exit
  <2> DEFINE q == IF IsLeaf THEN p ELSE p + myi.keyRefLen
             kid == calcKeyRef(Buf(p, myi.keyRefLen))
             kids == IF IsLeaf THEN <<>> ELSE <<kid>>
             more == Top.kids \o kids
             g == Fed(q, keys, more)
  <2>1. /\ IsFile(myi) /\ OnPage /\ FrameOK(index, Top) /\ Top \in Frames(DOMAIN myi.pages)
        /\ Top.block \in DOMAIN myi.pages
    BY <1>0, TopIs DEF Frames
  <2>2. /\ pages' = [pages EXCEPT ![Len(pages)].offset = q, ![Len(pages)].keys = keys,
                                  ![Len(pages)].kids = @ \o kids]
        /\ pos' = <<Top.block, 2 + q>>
        /\ myi' = myi /\ mpc' = mpc /\ index' = index /\ records' = records
        /\ IsLeaf \/ myi.keyRefLen \in {5, 6}
    BY <1>2 DEF Eaten
  <2>3. /\ Page.kids \in Seq(Nat) /\ Len(Page.keys) \in Nat /\ myi.keyRefLen \in Nat
        /\ Len(ChildBytes(Page, keys + 1)) = IF IsLeaf THEN 0 ELSE myi.keyRefLen
        /\ ChildBytes(Page, keys + 1) \in Seq(Nat)
        /\ ~IsLeaf => /\ keys + 1 \in DOMAIN Page.kids /\ Page.kids[keys + 1] \in Nat
                      /\ Len(Page.kids) = Len(Page.keys) + 1
    <3>1. Page.kids \in Seq(Nat) /\ Len(Page.keys) \in Nat /\ (~IsLeaf => Len(Page.kids) = Len(Page.keys) + 1)
      BY <2>1, PageIs DEF Page, IsLeaf
    <3>2. keys + 1 \in 1..Len(myi.pages[Top.block].keys) + 1
      BY <3>1 DEF Page
    <3>3. /\ ChildBytes(Page, keys + 1) \in Seq(Nat)
          /\ Len(ChildBytes(Page, keys + 1)) = IF IsLeaf THEN 0 ELSE myi.keyRefLen
          /\ myi.keyRefLen \in Nat
          /\ ~IsLeaf => keys + 1 \in DOMAIN Page.kids /\ Page.kids[keys + 1] \in Nat
      BY <2>1, <3>2, ChildIs DEF Page, IsLeaf
    <3> QED
      BY <3>1, <3>3
  <2>4. q \in Nat /\ q = Len(Prefix(index, Page, keys))
    <3>1. CASE IsLeaf
      BY <2>3, <3>1
    <3>2. CASE ~IsLeaf
      <4>1. q = p + myi.keyRefLen
        BY <3>2
      <4>2. Len(ChildBytes(Page, keys + 1)) = myi.keyRefLen /\ myi.keyRefLen \in Nat
        BY <2>3, <3>2
      <4> QED
        BY <4>1, <4>2
    <3> QED
      BY <3>1, <3>2
  <2>5. ~IsLeaf => kid = Page.kids[keys + 1]
    <3> SUFFICES ASSUME ~IsLeaf PROVE kid = Page.kids[keys + 1]
      OBVIOUS
    <3> DEFINE c == Page.kids[keys + 1]
    <3>1. ChildBytes(Page, keys + 1) = Bytes(c, myi.keyRefLen)
      BY DEF ChildBytes, IsLeaf
    <3>2. Buf(p, myi.keyRefLen) = Bytes(c, myi.keyRefLen)
      BY <2>1, <2>3, <3>1, BufIs
    <3>3. Held(c, myi.keyRefLen)
      BY <2>1, <2>2, <2>3 DEF IsFile, Page, IsLeaf, Range
    <3> QED
      BY <2>2, <3>2, <3>3, ChildRead
  <2>6. /\ more \in Seq(Nat) /\ (IsLeaf => more = <<>>)
        /\ ~IsLeaf => more = SubSeq(Page.kids, 1, keys + 1) /\ more # <<>>
    <3>1. CASE IsLeaf
      <4>1. <<>> \o <<>> = <<>> /\ <<>> \in Seq(Nat)
        OBVIOUS
      <4>2. more = <<>> \o <<>>
        BY <3>1
      <4> HIDE DEF more
      <4> QED
        BY <3>1, <4>1, <4>2
    <3>2. CASE ~IsLeaf
      <4> DEFINE all == Page.kids
      <4>1. all \in Seq(Nat) /\ keys \in Nat /\ keys + 1 <= Len(all)
        BY <2>3, <3>2
      <4>2. more = SubSeq(all, 1, keys) \o <<all[keys + 1]>>
        BY <2>5, <3>2
      <4> HIDE DEF all, more
      <4>3. /\ SubSeq(all, 1, keys) \o <<all[keys + 1]>> = SubSeq(all, 1, keys + 1)
            /\ SubSeq(all, 1, keys + 1) \in Seq(Nat) /\ Len(SubSeq(all, 1, keys + 1)) = keys + 1
        BY <4>1
      <4>4. more # <<>>
        BY <4>1, <4>2, <4>3
      <4> QED
        BY <3>2, <4>2, <4>3, <4>4 DEF all
    <3> QED
      BY <3>1, <3>2
  <2>7. /\ g \in Frames(DOMAIN myi.pages) /\ g.block = Top.block /\ g.offset = q
        /\ g.keys = keys /\ g.kids = more /\ g.i = 0
    <3> HIDE DEF q, more
    <3>1. keys \in Nat
      BY <2>3
    <3> QED
      BY <1>0, <2>4, <2>6, <3>1, FedFrame
  <2>8. pages' = [pages EXCEPT ![Len(pages)] = g]
    BY <1>0, <2>1, <2>2, TopIs DEF Fed, Top, Frames
  <2> HIDE DEF g, more, q, kids, kid
  <2>9. FrameOK(index, g)
    <3>1. PageIsFor(index, g.block) /\ g.keys <= Len(myi.pages[g.block].keys)
      BY <2>1, <2>3, <2>7 DEF FrameOK, Page
    <3>2. ReadSoFar(index, g, myi.pages[g.block])
      BY <2>4, <2>6, <2>7 DEF ReadSoFar, Page, IsLeaf
    <3> QED
      BY <2>7, <3>1, <3>2 DEF FrameOK
  <2> QED
    BY <1>0, <2>2, <2>7, <2>8, <2>9, TopStep
<1> QED
  BY <1>1, <1>2

LEMMA FirstChildStep == MyiInv /\ FirstChild => MyiInv'
<1> SUFFICES ASSUME MyiInv, FirstChild PROVE MyiInv'
  OBVIOUS
<1>1. /\ Reading /\ ~IsLeaf /\ Top.kids = <<>> /\ Eaten(0, 0)
      /\ pages # <<>>
  BY DEF FirstChild, Reading
<1>2. OnPage /\ IsFile(myi) /\ Top.block \in DOMAIN myi.pages
  BY <1>1, TopIs DEF Frames
<1>3. /\ Len(Page.keys) \in Nat /\ Page.kids \in Seq(Nat) /\ 0 \in 0..Len(Page.keys)
      /\ 1 \in 1..Len(Page.keys) + 1
  BY <1>2, PageIs DEF Page
<1>4. /\ Holds(Content(index, Page), 0, ChildBytes(Page, 1))
      /\ Len(Prefix(index, Page, 0)) = myi.keyRefLen
  BY <1>1, <1>2, PrefixFirst DEF OnPage, Page, IsLeaf
<1>5. Len(ChildBytes(Page, 1)) = myi.keyRefLen /\ myi.keyRefLen \in Nat
  BY <1>1, <1>2, <1>3, ChildIs DEF Page, IsLeaf
<1>6. SubSeq(Page.kids, 1, 0) = <<>>
  BY <1>3
<1>7. 0 \in Nat /\ 0 + 1 = 1 /\ Len(Prefix(index, Page, 0)) = 0 + Len(ChildBytes(Page, 1))
  BY <1>4, <1>5
<1> QED
  BY <1>1, <1>3, <1>4, <1>6, <1>7, EatenStep

\* Where the innermost activation is, once it has read the first child.
LEMMA TopReads ==
  ASSUME MyiInv, Reading, ~IsLeaf => Top.kids # <<>>
  PROVE  /\ Top.offset = Len(Prefix(index, Page, Top.keys)) /\ Top.offset \in Nat
         /\ Top.keys \in 0..Len(Page.keys) /\ Len(Page.keys) \in Nat
         /\ Top.kids = IF IsLeaf THEN <<>> ELSE SubSeq(Page.kids, 1, Top.keys + 1)
<1>1. pages # <<>>
  BY DEF Reading
<1>2. IsFile(myi) /\ FrameOK(index, Top) /\ Top \in Frames(DOMAIN myi.pages)
  BY <1>1, TopIs
<1>3. Top.block \in DOMAIN myi.pages /\ Top.offset \in Nat /\ Top.keys \in Nat
  BY <1>2 DEF Frames
<1>4. Len(Page.keys) \in Nat
  BY <1>2, <1>3, PageIs DEF Page
<1>5. Top.keys <= Len(Page.keys) /\ ReadSoFar(index, Top, Page)
  BY <1>2 DEF FrameOK, Page
<1>6. /\ Top.offset = Len(Prefix(index, Page, Top.keys))
      /\ Top.kids = IF IsLeaf THEN <<>> ELSE SubSeq(Page.kids, 1, Top.keys + 1)
  BY <1>5 DEF ReadSoFar, IsLeaf
<1> QED
  BY <1>3, <1>4, <1>5, <1>6

LEMMA NextKeyStep == MyiInv /\ NextKey => MyiInv'
<1> SUFFICES ASSUME MyiInv, NextKey PROVE MyiInv'
  OBVIOUS
<1>1. /\ Reading /\ (~IsLeaf => Top.kids # <<>>) /\ pages # <<>>
      /\ Top.offset < KeyValuesLen /\ Eaten(printKeyValue(Top.offset), Top.keys + 1)
  BY DEF NextKey, Reading
<1>2. OnPage /\ IsFile(myi) /\ index \in 1..Len(myi.keydef) /\ PageIsFor(index, Top.block)
  BY <1>1, TopIs DEF OnPage
<1>3. /\ Top.offset = Len(Prefix(index, Page, Top.keys)) /\ Top.offset \in Nat
      /\ Top.keys \in 0..Len(Page.keys) /\ Len(Page.keys) \in Nat
      /\ Top.kids = IF IsLeaf THEN <<>> ELSE SubSeq(Page.kids, 1, Top.keys + 1)
  BY <1>1, TopReads
<1>4. Top.keys # Len(Page.keys)
  <2> SUFFICES ASSUME Top.keys = Len(Page.keys) PROVE FALSE
    OBVIOUS
  <2>1. Top.offset = KeyValuesLen
    BY <1>3 DEF KeyValuesLen, Content
  <2> QED
    BY <1>1, <1>3, <2>1
<1> DEFINE n == Top.keys + 1
           m == Top.offset
           key == Page.keys[n]
           x == KeyBytes(index, key)
           y == ChildBytes(Page, n + 1)
<1>5. n \in 1..Len(Page.keys) /\ n - 1 = Top.keys /\ n \in 0..Len(Page.keys)
  BY <1>3, <1>4
<1>6. /\ m = Len(Prefix(index, Page, n - 1)) /\ Holds(Content(index, Page), m, x)
      /\ Holds(Content(index, Page), m + Len(x), y)
      /\ Len(Prefix(index, Page, n)) = m + Len(x) + Len(y)
  <2> DEFINE b == Top.block
             k == Len(Prefix(index, Page, n - 1))
  <2>1. \A i \in 1..Len(myi.pages[b].keys) :
          LET mm == Len(Prefix(index, myi.pages[b], i - 1))
              xx == KeyBytes(index, myi.pages[b].keys[i])
              yy == ChildBytes(myi.pages[b], i + 1)
              cc == Content(index, myi.pages[b])
          IN  /\ Holds(cc, mm, xx) /\ Holds(cc, mm + Len(xx), yy)
              /\ Len(Prefix(index, myi.pages[b], i)) = mm + Len(xx) + Len(yy)
    BY <1>2, PrefixNext
  <2>2. Page = myi.pages[b]
    BY DEF Page
  <2>3. k = m
    BY <1>3, <1>5
  <2> HIDE DEF b, n
  <2>4. /\ Holds(Content(index, Page), k, x) /\ Holds(Content(index, Page), k + Len(x), y)
        /\ Len(Prefix(index, Page, n)) = k + Len(x) + Len(y)
    BY <1>5, <2>1, <2>2
  <2> QED
    BY <2>3, <2>4
<1>7. key \in Seq(Value0) /\ Len(key) = Len(Segs(index)) /\ x \in Seq(Nat)
  BY <1>2, <1>5, EntriesAre DEF Page
<1>8. \A i \in DOMAIN Segs(index) : InColumn(key[i], Segs(index)[i])
  <2>1. n \in DOMAIN Page.keys
    <3>1. Page.keys \in Seq(Seq(Value0))
      BY <1>2, PageIs DEF PageIsFor, Page
    <3> QED
      BY <1>5, <3>1
  <2>2. PageFor(myi.keydef[index], Page)
    BY <1>2 DEF PageIsFor, Page
  <2> QED
    BY <2>1, <2>2 DEF PageFor, Segs
<1>9. printKeyValue(m) = m + Len(x)
  BY <1>2, <1>3, <1>6, <1>7, <1>8, KeyRead
<1>10. m + Len(x) \in Nat
  BY <1>3, <1>7
<1>11. /\ ~IsLeaf => Top.kids = SubSeq(Page.kids, 1, n)
       /\ IsLeaf => Top.kids = <<>>
  BY <1>3
<1>12. Eaten(m + Len(x), n)
  BY <1>1, <1>9
<1> HIDE DEF n, m, key, x, y
<1> QED
  BY <1>1, <1>5, <1>6, <1>10, <1>11, <1>12, EatenStep DEF y

LEMMA PageReadStep == MyiInv /\ PageRead => MyiInv'
<1> SUFFICES ASSUME MyiInv, PageRead PROVE MyiInv'
  OBVIOUS
<1>1. /\ Reading /\ (~IsLeaf => Top.kids # <<>>) /\ pages # <<>> /\ mpc = "walk"
      /\ ~(Top.offset < KeyValuesLen)
      /\ pages' = [pages EXCEPT ![Len(pages)].i = 1]
      /\ myi' = myi /\ mpc' = mpc /\ index' = index /\ records' = records
  <2>1. Reading /\ Top.offset >= KeyValuesLen /\ (~IsLeaf => Top.kids # <<>>)
    BY DEF PageRead
  <2>2. Top.offset \in Nat
    BY <2>1, TopReads
  <2>3. KeyValuesLen \in Nat
    <3>1. OnPage /\ IsFile(myi)
      BY <2>1, TopIs DEF Reading
    <3>2. Content(index, Page) \in Seq(Nat)
      BY <3>1, PrefixFirst DEF OnPage, Page
    <3> QED
      BY <3>2 DEF KeyValuesLen
  <2>4. ~(Top.offset < KeyValuesLen)
    BY <2>1, <2>2, <2>3
  <2> QED
    BY <2>1, <2>4 DEF PageRead, Reading
<1>2. /\ OnPage /\ IsFile(myi) /\ index \in 1..Len(myi.keydef) /\ PageIsFor(index, Top.block)
      /\ Top \in Frames(DOMAIN myi.pages) /\ FrameOK(index, Top)
      /\ Len(pages) \in Nat /\ Len(pages) > 0
      /\ \A n \in 1..Len(pages) : pages[n] \in Frames(DOMAIN myi.pages)
  BY <1>1, TopIs DEF OnPage
<1>3. /\ Top.offset = Len(Prefix(index, Page, Top.keys)) /\ Top.offset \in Nat
      /\ Top.keys \in 0..Len(Page.keys) /\ Len(Page.keys) \in Nat
      /\ Top.kids = IF IsLeaf THEN <<>> ELSE SubSeq(Page.kids, 1, Top.keys + 1)
  BY <1>1, TopReads
\* A key is at least as long as the reference to its record.
<1>4. Top.keys = Len(Page.keys)
  <2> SUFFICES ASSUME Top.keys # Len(Page.keys) PROVE FALSE
    OBVIOUS
  <2> DEFINE n == Top.keys + 1
             x == KeyBytes(index, Page.keys[n])
             c == Content(index, Page)
  <2>1. n \in 1..Len(Page.keys) /\ n - 1 = Top.keys
    BY <1>3
  <2>a. Holds(c, Len(Prefix(index, Page, n - 1)), x)
    BY <1>2, <2>1, PrefixNext DEF OnPage, Page
  <2>2. Holds(c, Top.offset, x)
    BY <1>3, <2>1, <2>a
  <2>3. Page.keys[n] \in Seq(Value0) /\ Len(Page.keys[n]) = Len(Segs(index))
    BY <1>2, <2>1, EntriesAre DEF Page
  <2>4. /\ Len(x) = Len(Join(Parts(index, Page.keys[n]))) + myi.recordRefLen
        /\ Join(Parts(index, Page.keys[n])) \in Seq(Nat) /\ myi.recordRefLen \in Nat \ {0}
        /\ x \in Seq(Nat)
    BY <1>2, <2>3, KeyIs
  <2>5. Len(x) \in Nat /\ Len(x) > 0
    <3> DEFINE j == Len(Join(Parts(index, Page.keys[n])))
    <3>1. j \in Nat
      BY <2>4
    <3> HIDE DEF x, j
    <3>2. Len(x) = j + myi.recordRefLen
      BY <2>4 DEF j
    <3> QED
      BY <2>4, <3>1, <3>2
  <2>b. c \in Seq(Nat)
    BY <1>2, PrefixFirst DEF OnPage, Page
  <2>6. Top.offset + Len(x) <= Len(c) /\ Len(c) \in Nat
    <3> HIDE DEF x, c
    <3> QED
      BY <2>2, <2>b DEF Holds
  <2>7. ~(Top.offset < Len(c))
    BY <1>1 DEF KeyValuesLen
  <2> HIDE DEF x, c
  <2> QED
    BY <1>3, <2>5, <2>6, <2>7
<1> DEFINE g == [Top EXCEPT !.i = 1]
<1>5. /\ g \in Frames(DOMAIN myi.pages) /\ g.i = 1 /\ g.block = Top.block
      /\ g.offset = Top.offset /\ g.keys = Top.keys /\ g.kids = Top.kids
  BY <1>2 DEF Frames
<1>6. pages' = [pages EXCEPT ![Len(pages)] = g]
  BY <1>1, <1>2 DEF Top, Frames
<1> HIDE DEF g
<1>7. FrameOK(index, g)
  <2>1. ReadSoFar(index, g, Page)
    <3>1. ~(Page.kids # <<>> /\ g.kids = <<>>)
      BY <1>1, <1>5 DEF IsLeaf
    <3> QED
      BY <1>3, <1>5, <3>1 DEF ReadSoFar, IsLeaf
  <2> QED
    BY <1>2, <1>3, <1>4, <1>5, <2>1 DEF FrameOK, Page
<1>8. g.i # 0
  BY <1>5
<1> QED
  BY <1>1, <1>5, <1>6, <1>7, <1>8, TopStep

\* printBtreeNode is called on a page of the index, by activations that wait.
LEMMA EnterStep ==
  ASSUME MyiInv, mpc = "walk", index <= Len(myi.keydef), NEW b, NEW callers,
         callers \in Seq(Frames(DOMAIN myi.pages)),
         \A n \in 1..Len(callers) : FrameOK(index, callers[n]) /\ callers[n].i > 0,
         b \in DOMAIN myi.pages => PageIsFor(index, b),
         Enter(b, callers)
  PROVE  MyiInv'
<1>1. CASE exit
  BY <1>1, SamePages DEF exit
<1>2. CASE ~exit
  <2> DEFINE F == Frames(DOMAIN myi.pages)
             g == Frame(b)
             L == Len(callers)
  <2>1. /\ b \in DOMAIN myi.pages /\ pages' = Append(callers, g) /\ pos' = <<b, 2>>
        /\ myi' = myi /\ mpc' = mpc /\ index' = index /\ records' = records
    BY <1>2 DEF Enter
  <2>2. g \in F /\ g.block = b /\ g.offset = 0 /\ g.keys = 0 /\ g.kids = <<>> /\ g.i = 0
    BY <2>1 DEF Frame, Frames
  <2>3. IsFile(myi) /\ index \in 1..Len(myi.keydef) /\ index \in Nat /\ index > 0
    <3>1. IsFile(myi) /\ index \in Nat /\ index > 0
      BY DEF MyiInv, MyiTypes
    <3>2. Len(myi.keydef) \in Nat
      BY <3>1 DEF IsFile
    <3> QED
      BY <3>1, <3>2
  <2>4. FrameOK(index, g)
    <3> DEFINE p == myi.pages[b]
    <3>1. Len(p.keys) \in Nat
      BY <2>1, <2>3, PageIs
    <3>2. ReadSoFar(index, g, p)
      <4>1. CASE p.kids # <<>>
        BY <2>2, <4>1 DEF ReadSoFar
      <4>2. CASE p.kids = <<>>
        <5>1. Len(Prefix(index, p, 0)) = 0
          BY <2>1, <2>3, <4>2, PrefixFirst
        <5> HIDE DEF g
        <5> QED
          BY <2>2, <4>2, <5>1 DEF ReadSoFar
      <4> QED
        BY <4>1, <4>2
    <3> HIDE DEF g
    <3> QED
      BY <2>1, <2>2, <3>1, <3>2 DEF FrameOK
  <2> HIDE DEF F, g, L
  <2>5. callers \in Seq(F) /\ L \in Nat /\ L = Len(callers)
    <3>1. callers \in Seq(F)
      BY DEF F
    <3> QED
      BY <3>1 DEF L
  <2>6. /\ pages' \in Seq(F) /\ Len(pages') = L + 1 /\ pages'[L + 1] = g
        /\ \A n \in 1..L : pages'[n] = callers[n]
    BY <2>1, <2>2, <2>5
  <2>7. MyiTypes'
    <3>1. IsFile(myi)' /\ (DOMAIN myi.pages)' = DOMAIN myi.pages
      BY <2>1, MyiStays DEF MyiInv, MyiTypes
    <3>2. (pages \in Seq(Frames(DOMAIN myi.pages)))'
      BY <2>6, <3>1 DEF F
    <3> QED
      BY <2>1, <3>1, <3>2 DEF MyiInv, MyiTypes
  <2>8. HeaderRead'
    BY <2>1, HeaderStays
  <2>9. MyiFrames'
    <3>1. ASSUME NEW n \in 1..L + 1 PROVE FrameOK(index, pages'[n])
      <4>1. n = L + 1 \/ n \in 1..L
        BY <2>5
      <4> QED
        BY <2>4, <2>5, <2>6, <4>1
    <3>2. \A n \in 1..Len(pages') : FrameOK(index, pages[n])'
      BY <2>1, <2>6, <3>1, MyiStays
    <3>3. \A n \in 1..Len(pages') - 1 : pages'[n].i > 0
      <4>1. Len(pages') - 1 = L
        BY <2>5, <2>6
      <4> QED
        BY <2>5, <2>6, <4>1
    <3>4. Top' = g
      BY <2>6 DEF Top
    <3>5. index' <= Len(myi'.keydef)
      BY <2>1
    <3>6. pos' = <<g.block, 2 + g.offset>>
      BY <2>1, <2>2
    <3> QED
      BY <3>2, <3>3, <3>4, <3>5, <3>6 DEF MyiFrames
  <2> QED
    BY <2>7, <2>8, <2>9 DEF MyiInv
<1> QED
  BY <1>1, <1>2

LEMMA NextIndexStep == MyiInv /\ NextIndex => MyiInv'
<1> SUFFICES ASSUME MyiInv, NextIndex PROVE MyiInv'
  OBVIOUS
<1>1. mpc = "walk" /\ pages = <<>> /\ IsFile(myi) /\ index \in Nat /\ index > 0
  BY DEF NextIndex, MyiInv, MyiTypes
<1>2. Len(myi.keydef) \in Nat
  BY <1>1 DEF IsFile
<1>3. CASE index > Len(myi.keydef)
  <2>1. /\ mpc' = "done" /\ myi' = myi /\ pages' = <<>> /\ index' = index /\ records' = records
    BY <1>1, <1>3 DEF NextIndex
  <2> QED
    BY <1>1, <2>1, HeaderStays, NoPages
<1>4. CASE ~(index > Len(myi.keydef)) /\ myi.keydef[index].root = HA_OFFSET_ERROR
  <2>1. myi' = myi /\ pages' = <<>> /\ index' = index + 1 /\ records' = records
    BY <1>1, <1>4 DEF NextIndex
  <2> QED
    BY <1>1, <2>1, HeaderStays, NoPages
<1>5. CASE ~(index > Len(myi.keydef)) /\ myi.keydef[index].root # HA_OFFSET_ERROR
  <2>1. Enter(myi.keydef[index].root, <<>>) /\ index <= Len(myi.keydef)
    BY <1>1, <1>2, <1>5 DEF NextIndex
  <2>2. index \in 1..Len(myi.keydef)
    BY <1>1, <1>2, <2>1
  <2>3. myi.keydef[index] \in Range(myi.keydef)
    BY <1>1, <2>2, KeydefIs
  <2>4. myi.keydef[index].root \in DOMAIN myi.pages => PageIsFor(index, myi.keydef[index].root)
    BY <1>1, <2>3 DEF IsFile, PageIsFor
  <2>5. <<>> \in Seq(Frames(DOMAIN myi.pages)) /\ Len(<<>>) = 0
    OBVIOUS
  <2>6. \A n \in 1..Len(<<>>) : FrameOK(index, <<>>[n]) /\ <<>>[n].i > 0
    BY <2>5
  <2> QED
    BY <1>1, <2>1, <2>4, <2>5, <2>6, EnterStep
<1> QED
  BY <1>3, <1>4, <1>5

LEMMA DescendStep == MyiInv /\ Descend => MyiInv'
<1> SUFFICES ASSUME MyiInv, Descend PROVE MyiInv'
  OBVIOUS
<1> DEFINE F == Frames(DOMAIN myi.pages)
           L == Len(pages)
           g == [Top EXCEPT !.i = Top.i + 1]
           callers == [pages EXCEPT ![L].i = Top.i + 1]
           c == Top.kids[Top.i]
<1>1. mpc = "walk" /\ pages # <<>> /\ Top.i \in DOMAIN Top.kids /\ Enter(c, callers)
  BY DEF Descend
<1>2. /\ IsFile(myi) /\ index \in 1..Len(myi.keydef) /\ PageIsFor(index, Top.block)
      /\ Top \in F /\ FrameOK(index, Top) /\ L \in Nat /\ L > 0
      /\ \A n \in 1..L : pages[n] \in F
  BY <1>1, TopIs DEF OnPage
<1>3. Top.i \in Nat /\ Top.i > 0 /\ Top.kids \in Seq(Nat) /\ Top.block \in DOMAIN myi.pages
  BY <1>1, <1>2 DEF Frames
<1>4. Top.kids = Page.kids /\ Page.kids # <<>>
  <2>1. Len(Page.keys) \in Nat /\ Page.kids \in Seq(Nat)
        /\ (Page.kids # <<>> => Len(Page.kids) = Len(Page.keys) + 1)
    BY <1>2, <1>3, PageIs DEF Page
  <2>2. Top.keys = Len(Page.keys) /\ ReadSoFar(index, Top, Page)
    BY <1>2, <1>3 DEF FrameOK, Page
  <2>3. Top.kids # <<>>
    BY <1>1
  <2>4. Page.kids # <<>> /\ Top.kids = SubSeq(Page.kids, 1, Len(Page.keys) + 1)
    BY <2>2, <2>3 DEF ReadSoFar
  <2>5. SubSeq(Page.kids, 1, Len(Page.kids)) = Page.kids
    BY <2>1
  <2> QED
    BY <2>1, <2>4, <2>5
<1>5. c \in DOMAIN myi.pages => PageIsFor(index, c)
  <2> SUFFICES ASSUME c \in DOMAIN myi.pages PROVE PageIsFor(index, c)
    OBVIOUS
  <2>1. c \in Range(myi.pages[Top.block].kids)
    BY <1>1, <1>4 DEF Page, Range
  <2>2. myi.keydef[index] \in Range(myi.keydef)
    BY <1>2, KeydefIs
  <2>3. \A k \in Range(myi.keydef) : \A b, d \in DOMAIN myi.pages :
           PageFor(k, myi.pages[b]) /\ d \in Range(myi.pages[b].kids)
              => PageFor(k, myi.pages[d])
    BY <1>2 DEF IsFile
  <2>4. PageFor(myi.keydef[index], myi.pages[Top.block])
    BY <1>2 DEF PageIsFor
  <2> HIDE DEF c
  <2>5. PageFor(myi.keydef[index], myi.pages[c])
    BY <1>3, <2>1, <2>2, <2>3, <2>4
  <2> QED
    BY <2>5 DEF PageIsFor
<1>6. /\ g \in F /\ g.i = Top.i + 1 /\ g.block = Top.block
      /\ g.offset = Top.offset /\ g.keys = Top.keys /\ g.kids = Top.kids
  BY <1>2, <1>3 DEF Frames
<1>7. callers = [pages EXCEPT ![L] = g]
  BY <1>1, <1>2 DEF Top, Frames
<1>8. pages \in Seq(F)
  BY DEF MyiInv, MyiTypes
<1> HIDE DEF g, F, callers, c
<1>9. /\ callers \in Seq(F) /\ Len(callers) = L /\ callers[L] = g
      /\ \A n \in 1..L : n # L => callers[n] = pages[n]
  BY <1>2, <1>6, <1>7, <1>8
<1>10. FrameOK(index, g)
  <2>1. ReadSoFar(index, Top, Page) /\ Top.keys = Len(Page.keys)
    BY <1>2, <1>3 DEF FrameOK, Page
  <2>2. ReadSoFar(index, g, Page)
    <3>1. ~(Page.kids # <<>> /\ Top.kids = <<>>)
      BY <1>4
    <3> QED
      BY <1>6, <2>1, <3>1 DEF ReadSoFar
  <2> QED
    BY <1>2, <1>6, <2>1, <2>2 DEF FrameOK, Page
<1>11. ASSUME NEW n \in 1..Len(callers) PROVE FrameOK(index, callers[n]) /\ callers[n].i > 0
  <2>1. n \in 1..L /\ (n = L \/ n \in 1..L - 1)
    BY <1>2, <1>9
  <2>2. CASE n = L
    <3>1. g.i > 0
      BY <1>3, <1>6
    <3> QED
      BY <1>9, <1>10, <2>2, <3>1
  <2>3. CASE n \in 1..L - 1
    BY <1>2, <1>9, <2>3 DEF MyiInv, MyiFrames
  <2> QED
    BY <2>1, <2>2, <2>3
<1>12. index <= Len(myi.keydef)
  BY <1>1 DEF MyiInv, MyiFrames
<1> QED
  BY <1>1, <1>5, <1>9, <1>11, <1>12, EnterStep DEF F

LEMMA ReturnStep == MyiInv /\ ReturnFromPage => MyiInv'
<1> SUFFICES ASSUME MyiInv, ReturnFromPage PROVE MyiInv'
  OBVIOUS
<1> DEFINE F == Frames(DOMAIN myi.pages)
           L == Len(pages)
<1>1. /\ mpc = "walk" /\ pages # <<>> /\ pages' = SubSeq(pages, 1, L - 1)
      /\ index' = IF L = 1 THEN index + 1 ELSE index
      /\ myi' = myi /\ mpc' = mpc /\ pos' = pos /\ records' = records
  BY DEF ReturnFromPage
<1>2. L \in Nat /\ L > 0 /\ pages \in Seq(F) /\ index \in Nat /\ index > 0
  BY <1>1, TopIs DEF MyiInv, MyiTypes
<1>3. CASE L = 1
  <2>1. pages' = <<>>
    BY <1>1, <1>2, <1>3
  <2>2. index' \in Nat /\ index' > 0
    BY <1>1, <1>2, <1>3
  <2> QED
    BY <1>1, <2>1, <2>2, HeaderStays, NoPages
<1>4. CASE L # 1
  <2> HIDE DEF F
  <2>1. /\ pages' \in Seq(F) /\ Len(pages') = L - 1 /\ L - 1 \in Nat /\ L - 1 > 0
        /\ \A n \in 1..L - 1 : pages'[n] = pages[n]
    <3>1. L - 1 \in Nat /\ L - 1 > 0 /\ 1 \in 1..L + 1 /\ L - 1 \in 1 - 1..L
      <4>1. L \in Nat /\ L > 0 /\ L # 1
        BY <1>2, <1>4
      <4> HIDE DEF L
      <4> QED
        BY <4>1
    <3>2. /\ pages' \in Seq(F) /\ Len(pages') = (L - 1) - 1 + 1
          /\ \A n \in 1..(L - 1) - 1 + 1 : pages'[n] = pages[1 + n - 1]
      BY <1>1, <1>2, <3>1, SubSeqIs
    <3>3. (L - 1) - 1 + 1 = L - 1 /\ \A n \in 1..L - 1 : 1 + n - 1 = n
      BY <1>2
    <3> QED
      BY <3>1, <3>2, <3>3
  <2>2. index' = index
    BY <1>1, <1>4
  <2>3. MyiTypes'
    <3>1. IsFile(myi)' /\ (DOMAIN myi.pages)' = DOMAIN myi.pages
      BY <1>1, MyiStays DEF MyiInv, MyiTypes
    <3>2. (pages \in Seq(Frames(DOMAIN myi.pages)))'
      BY <2>1, <3>1 DEF F
    <3> QED
      BY <1>1, <1>2, <2>2, <3>1, <3>2 DEF MyiTypes
  <2>4. HeaderRead'
    BY <1>1, HeaderStays
  <2>5. MyiFrames'
    <3>1. \A n \in 1..L - 1 : FrameOK(index, pages[n]) /\ pages[n].i > 0
      BY <1>2 DEF MyiInv, MyiFrames
    <3>2. \A n \in 1..Len(pages') : FrameOK(index, pages[n])'
      BY <1>1, <2>1, <2>2, <3>1, MyiStays
    <3>3. \A n \in 1..Len(pages') - 1 : pages'[n].i > 0
      BY <2>1, <3>1
    <3>4. Top'.i > 0
      <4>1. L - 1 \in 1..L - 1
        BY <2>1
      <4> QED
        BY <2>1, <3>1, <4>1 DEF Top
    <3>5. index' <= Len(myi'.keydef)
      BY <1>1, <2>2 DEF MyiInv, MyiFrames
    <3> QED
      BY <3>2, <3>3, <3>4, <3>5 DEF MyiFrames
  <2> QED
    BY <2>3, <2>4, <2>5 DEF MyiInv
<1> QED
  BY <1>3, <1>4

LEMMA MyiStep == MyiInv /\ [MyiNext]_myiVars => MyiInv'
<1> SUFFICES ASSUME MyiInv, [MyiNext]_myiVars PROVE MyiInv'
  OBVIOUS
<1>1. CASE MyiNext
  BY <1>1, ReadStateStep, ReadKeydefStep, NextIndexStep, FirstChildStep, NextKeyStep,
     PageReadStep, DescendStep, ReturnStep DEF MyiNext
<1>2. CASE UNCHANGED myiVars
  BY <1>2, SamePages DEF myiVars
<1> QED
  BY <1>1, <1>2

LEMMA MyiGood == MyiInv => MyiInSync
<1> SUFFICES ASSUME MyiInv PROVE MyiInSync
  OBVIOUS
<1>1. IsFile(myi) /\ pages \in Seq(Frames(DOMAIN myi.pages))
  BY DEF MyiInv, MyiTypes
<1>2. ASSUME NEW n \in DOMAIN pages
      PROVE  LET f == pages[n]
                 p == myi.pages[f.block]
             IN  /\ f.offset # 0 \/ f.keys > 0 =>
                      /\ f.keys <= Len(p.keys)
                      /\ f.offset = Len(Prefix(index, p, f.keys))
                 /\ f.i > 0 => f.keys = Len(p.keys) /\ f.kids = p.kids
                 /\ f.i = 0 => pos = <<f.block, 2 + f.offset>>
  <2> DEFINE f == pages[n]
             p == myi.pages[f.block]
  <2>0. pages # <<>> /\ n \in 1..Len(pages) /\ Len(pages) \in Nat
    BY <1>1
  <2>1. f \in Frames(DOMAIN myi.pages) /\ FrameOK(index, f)
    BY <2>0, TopIs DEF MyiInv, MyiFrames
  <2>2. f.block \in DOMAIN myi.pages /\ f.keys \in Nat /\ f.i \in Nat
    BY <2>1 DEF Frames
  <2>3. /\ Len(p.keys) \in Nat /\ p.kids \in Seq(Nat)
        /\ p.kids # <<>> => Len(p.kids) = Len(p.keys) + 1
    BY <1>1, <2>2, PageIs
  <2>4. f.keys <= Len(p.keys) /\ ReadSoFar(index, f, p) /\ (f.i > 0 => f.keys = Len(p.keys))
    BY <2>1 DEF FrameOK
  <2>5. f.i = 0 => pos = <<f.block, 2 + f.offset>>
    <3> SUFFICES ASSUME f.i = 0 PROVE pos = <<f.block, 2 + f.offset>>
      OBVIOUS
    <3>1. n = Len(pages)
      <4> SUFFICES ASSUME n # Len(pages) PROVE FALSE
        OBVIOUS
      <4>1. n \in 1..Len(pages) - 1
        BY <2>0
      <4>2. f.i > 0
        BY <4>1 DEF MyiInv, MyiFrames
      <4> QED
        BY <4>2
    <3>2. f = Top
      BY <3>1 DEF Top
    <3> QED
      BY <2>0, <3>2 DEF MyiInv, MyiFrames
  <2> HIDE DEF f, p
  <2>6. SubSeq(p.kids, 1, Len(p.kids)) = p.kids
    BY <2>3
  <2>7. f.offset # 0 \/ f.keys > 0 => f.offset = Len(Prefix(index, p, f.keys))
    BY <2>4 DEF ReadSoFar
  <2>8. f.i > 0 => f.kids = p.kids
    <3> SUFFICES ASSUME f.i > 0 PROVE f.kids = p.kids
      OBVIOUS
    <3>1. f.keys = Len(p.keys) /\ f.i # 0
      BY <2>2, <2>4 DEF f
    <3>2. f.kids = IF p.kids = <<>> THEN <<>> ELSE SubSeq(p.kids, 1, f.keys + 1)
      BY <2>4, <3>1 DEF ReadSoFar
    <3> QED
      BY <2>3, <2>6, <3>1, <3>2
  <2> QED
    BY <2>4, <2>5, <2>7, <2>8 DEF f, p
<1>3. KeysRead
  BY <1>2 DEF KeysRead
<1> QED
  BY <1>3 DEF MyiInSync, MyiInv

\* read-MYI, which sees only the bytes of a page, takes from them every key and
\* every child where the writer put it, whatever the columns, their types and
\* NULLs, the lengths of the texts and the depth of the tree.
THEOREM KeysInSync == MyiSpec => []MyiInSync
<1>1. MyiSpec => []MyiInv
  BY MyiFiles0, MyiStep, PTL DEF MyiSpec
<1> QED
  BY <1>1, MyiGood, PTL

-----------------------------------------------------------------------------
(* read-MYI.  The walk through the trees.                                  *)

Kids(b) == myi.pages[b].kids
Root(k) == myi.keydef[k].root

\* Page b was entered for index k, in the history s.
Seen(s, k, b) == \E i \in 1..Len(s) : s[i] = <<k, b>>

SeenTypes ==
  /\ IsForest(myi)
  /\ seen \in Seq((1..Len(myi.keydef)) \X DOMAIN myi.pages)
  /\ mpc \in {"state", "keydef"} => seen = <<>>

\* Pages were entered for the indexes up to this one, and for this one only
\* while printBtreeNode is active.
SeenIndexes ==
  \A i \in 1..Len(seen) :
    /\ seen[i][1] <= index /\ (pages = <<>> => seen[i][1] # index)
    /\ Root(seen[i][1]) # HA_OFFSET_ERROR

SeenOnce == \A i, j \in 1..Len(seen) : seen[i] = seen[j] => i = j

Parented(s, i) ==
  \/ s[i][2] = Root(s[i][1])
  \/ \E j \in 1..i - 1 : /\ s[j][1] = s[i][1]
                         /\ s[i][2] \in Range(Kids(s[j][2]))
ParentsFirst == \A i \in 1..Len(seen) : Parented(seen, i)

\* The activations are on pages that were entered, each on its own, the outermost
\* on the root.
StackSeen ==
  /\ pages # <<>> => pages[1].block = Root(index)
  /\ \A n \in 1..Len(pages) : Seen(seen, index, pages[n].block)
  /\ \A m, n \in 1..Len(pages) : pages[m].block = pages[n].block => m = n

\* Of the children of an activation's page those before its i were entered.
StackKids ==
  \A n \in 1..Len(pages) : \A j \in DOMAIN Kids(pages[n].block) :
     Seen(seen, index, Kids(pages[n].block)[j]) <=> j < pages[n].i

\* A page that was left has no child that was not entered.
OffStack ==
  \A b \in DOMAIN myi.pages : Seen(seen, index, b) =>
     \/ \E n \in 1..Len(pages) : pages[n].block = b
     \/ \A c \in Range(Kids(b)) : Seen(seen, index, c)

\* What was entered for the indexes before this one.
Finished ==
  mpc \in {"walk", "done"} =>
    \A k \in 1..Len(myi.keydef) : k < index /\ Root(k) # HA_OFFSET_ERROR =>
       /\ Seen(seen, k, Root(k))
       /\ \A b \in DOMAIN myi.pages : Seen(seen, k, b) =>
             \A c \in Range(Kids(b)) : Seen(seen, k, c)

AtEnd == mpc = "done" => index > Len(myi.keydef)

SeenInv == /\ SeenTypes /\ SeenIndexes /\ SeenOnce /\ ParentsFirst
           /\ StackSeen /\ StackKids /\ OffStack /\ Finished /\ AtEnd

LEMMA SeenIs ==
  ASSUME SeenTypes
  PROVE  /\ Len(seen) \in Nat
         /\ \A i \in 1..Len(seen) :
               /\ seen[i][1] \in 1..Len(myi.keydef) /\ seen[i][2] \in DOMAIN myi.pages
               /\ seen[i] = <<seen[i][1], seen[i][2]>>
         /\ \A k, b : Seen(seen, k, b) => k \in 1..Len(myi.keydef) /\ b \in DOMAIN myi.pages
<1> DEFINE P == (1..Len(myi.keydef)) \X DOMAIN myi.pages
<1>1. \A e \in P : /\ e[1] \in 1..Len(myi.keydef) /\ e[2] \in DOMAIN myi.pages
                   /\ e = <<e[1], e[2]>>
  OBVIOUS
<1>2. \A k, b : <<k, b>> \in P => k \in 1..Len(myi.keydef) /\ b \in DOMAIN myi.pages
  OBVIOUS
<1>3. seen \in Seq(P)
  BY DEF SeenTypes
<1> HIDE DEF P
<1>4. Len(seen) \in Nat /\ \A i \in 1..Len(seen) : seen[i] \in P
  BY <1>3, ElementOf
<1>5. ASSUME NEW k, NEW b, Seen(seen, k, b) PROVE k \in 1..Len(myi.keydef) /\ b \in DOMAIN myi.pages
  BY <1>2, <1>4, <1>5 DEF Seen
<1> QED
  BY <1>1, <1>4, <1>5

LEMMA SeenAt ==
  ASSUME SeenTypes, NEW i \in 1..Len(seen)
  PROVE  Seen(seen, seen[i][1], seen[i][2])
<1>1. seen[i] = <<seen[i][1], seen[i][2]>>
  BY SeenIs
<1> QED
  BY <1>1 DEF Seen

\* A page that was entered is the root, or a page it is a child of was.
LEMMA ParentSeen ==
  ASSUME SeenTypes, ParentsFirst, NEW k, NEW b, Seen(seen, k, b), b # Root(k)
  PROVE  \E a \in DOMAIN myi.pages : Seen(seen, k, a) /\ b \in Range(Kids(a))
<1>1. PICK i \in 1..Len(seen) : seen[i] = <<k, b>>
  BY DEF Seen
<1>2. seen[i][1] = k /\ seen[i][2] = b /\ i \in Nat
  BY <1>1
<1>3. PICK j \in 1..i - 1 : seen[j][1] = k /\ b \in Range(Kids(seen[j][2]))
  BY <1>2 DEF ParentsFirst, Parented
<1>4. j \in 1..Len(seen)
  BY <1>2, SeenIs
<1>5. Seen(seen, k, seen[j][2]) /\ seen[j][2] \in DOMAIN myi.pages
  BY <1>3, <1>4, SeenAt, SeenIs
<1> QED
  BY <1>3, <1>5

\* The pages make trees.
LEMMA OneParent ==
  ASSUME IsForest(myi), NEW a \in DOMAIN myi.pages, NEW b \in DOMAIN myi.pages,
         NEW i \in DOMAIN Kids(a), NEW j \in DOMAIN Kids(b), Kids(a)[i] = Kids(b)[j]
  PROVE  a = b /\ i = j
BY DEF IsForest, Kids

LEMMA NoParent ==
  ASSUME MyiInv, IsForest(myi), NEW k \in 1..Len(myi.keydef), NEW a \in DOMAIN myi.pages
  PROVE  Root(k) \notin Range(Kids(a))
<1>1. myi.keydef[k] \in Range(myi.keydef)
  BY KeydefIs DEF MyiInv, MyiTypes
<1> QED
  BY <1>1 DEF IsForest, Kids, Root

LEMMA KidsAre ==
  ASSUME MyiInv, NEW a \in DOMAIN myi.pages
  PROVE  /\ Kids(a) \in Seq(Nat) /\ DOMAIN Kids(a) = 1..Len(Kids(a)) /\ Len(Kids(a)) \in Nat
         /\ \A j \in DOMAIN Kids(a) : j \in Nat /\ j >= 1
         /\ \A c : c \in Range(Kids(a)) <=> \E j \in DOMAIN Kids(a) : Kids(a)[j] = c
<1>1. Kids(a) \in Seq(Nat)
  BY PageIs DEF MyiInv, MyiTypes, Kids
<1> QED
  BY <1>1 DEF Range

\* A page that was not entered has no children that were, and not itself.
LEMMA KidsUnseen ==
  ASSUME MyiInv, SeenTypes, ParentsFirst, NEW k \in 1..Len(myi.keydef),
         NEW b \in DOMAIN myi.pages, ~Seen(seen, k, b)
  PROVE  \A c \in Range(Kids(b)) : ~Seen(seen, k, c)
<1> SUFFICES ASSUME NEW c \in Range(Kids(b)), Seen(seen, k, c) PROVE FALSE
  OBVIOUS
<1>1. IsForest(myi)
  BY DEF SeenTypes
<1>2. c # Root(k)
  BY <1>1, NoParent
<1>3. PICK a \in DOMAIN myi.pages : Seen(seen, k, a) /\ c \in Range(Kids(a))
  BY <1>2, ParentSeen
<1>4. a = b
  BY <1>1, <1>3, KidsAre, OneParent
<1> QED
  BY <1>3, <1>4

-----------------------------------------------------------------------------
\* Before the first page.
LEMMA NothingSeen ==
  ASSUME IsForest(myi), seen = <<>>, pages = <<>>, mpc # "done", mpc = "walk" => index = 1
  PROVE  SeenInv
<1>1. Len(seen) = 0 /\ seen \in Seq((1..Len(myi.keydef)) \X DOMAIN myi.pages) /\ Len(pages) = 0
  OBVIOUS
<1>2. SeenTypes
  BY <1>1 DEF SeenTypes
<1>3. SeenIndexes /\ SeenOnce /\ ParentsFirst /\ \A k, b : ~Seen(seen, k, b)
  BY <1>1 DEF SeenIndexes, SeenOnce, ParentsFirst, Seen
<1>4. StackSeen /\ StackKids /\ OffStack
  BY <1>1, <1>3 DEF StackSeen, StackKids, OffStack
<1>5. Finished /\ AtEnd
  BY DEF Finished, AtEnd
<1> QED
  BY <1>2, <1>3, <1>4, <1>5 DEF SeenInv

LEMMA NothingSeenNext ==
  ASSUME IsForest(myi)', seen' = <<>>, pages' = <<>>, mpc' # "done", mpc' = "walk" => index' = 1
  PROVE  SeenInv'
<1>1. Len(seen') = 0 /\ seen' \in Seq((1..Len(myi'.keydef)) \X DOMAIN myi'.pages) /\ Len(pages') = 0
  OBVIOUS
<1>2. SeenTypes'
  BY <1>1 DEF SeenTypes
<1>3. SeenIndexes' /\ SeenOnce' /\ ParentsFirst' /\ \A k, b : ~Seen(seen', k, b)
  BY <1>1 DEF SeenIndexes, SeenOnce, ParentsFirst, Seen
<1>4. StackSeen' /\ StackKids' /\ OffStack'
  BY <1>1, <1>3 DEF StackSeen, StackKids, OffStack
<1>5. Finished' /\ AtEnd'
  BY DEF Finished, AtEnd
<1> QED
  BY <1>2, <1>3, <1>4, <1>5 DEF SeenInv

\* A step that enters no page and leaves none.
LEMMA WalkGoesOn ==
  ASSUME MyiInv, MyiInv', SeenInv, myi' = myi, seen' = seen, index' = index,
         \/ mpc' \in {mpc, "exit"} \/ (mpc = "state" /\ mpc' = "keydef")
         \/ mpc = "walk" /\ mpc' = "done" /\ index > Len(myi.keydef),
         Len(pages') = Len(pages),
         \A n \in 1..Len(pages) :
            /\ pages'[n].block = pages[n].block
            /\ pages'[n].i = pages[n].i \/ (pages[n].i = 0 /\ pages'[n].i = 1)
  PROVE  SeenInv'
<1> DEFINE F == Frames(DOMAIN myi.pages)
<1>1. pages \in Seq(F) /\ pages' \in Seq(F)
  BY DEF MyiInv, MyiTypes, Frames
<1>2. \A n \in 1..Len(pages) : pages[n].block \in DOMAIN myi.pages
  <2>1. \A f \in F : f.block \in DOMAIN myi.pages
    BY DEF Frames
  <2> HIDE DEF F
  <2>2. \A n \in 1..Len(pages) : pages[n] \in F
    BY <1>1, ElementOf
  <2> QED
    BY <2>1, <2>2
<1> HIDE DEF F
<1>3. (pages' = <<>>) <=> (pages = <<>>)
  BY <1>1
<1>4. \A k, b : Seen(seen', k, b) <=> Seen(seen, k, b)
  BY DEF Seen
<1>5. (\A b : Kids(b)' = Kids(b)) /\ (\A k : Root(k)' = Root(k))
  BY DEF Kids, Root
<1>6. SeenTypes'
  BY DEF SeenInv, SeenTypes, IsForest
<1>7. SeenIndexes' /\ SeenOnce'
  BY <1>3, <1>5 DEF SeenInv, SeenIndexes, SeenOnce
<1>8. ParentsFirst'
  BY <1>5 DEF SeenInv, ParentsFirst, Parented
<1>9. StackSeen'
  <2>1. pages # <<>> => 1 \in 1..Len(pages)
    BY <1>1
  <2> QED
    BY <1>3, <1>4, <1>5, <2>1 DEF SeenInv, StackSeen
<1>10. StackKids'
  <2> SUFFICES ASSUME NEW n \in 1..Len(pages), NEW j \in DOMAIN Kids(pages[n].block)
               PROVE  Seen(seen, index, Kids(pages[n].block)[j]) <=> j < pages'[n].i
    BY <1>4, <1>5 DEF StackKids
  <2>1. j \in Nat /\ j >= 1
    BY <1>2, KidsAre
  <2>2. j < pages'[n].i <=> j < pages[n].i
    BY <2>1
  <2> QED
    BY <2>2 DEF SeenInv, StackKids
<1>11. OffStack'
  BY <1>4, <1>5 DEF SeenInv, OffStack
<1>12. Finished' /\ AtEnd'
  BY <1>4, <1>5 DEF SeenInv, Finished, AtEnd
<1> QED
  BY <1>6, <1>7, <1>8, <1>9, <1>10, <1>11, <1>12 DEF SeenInv

\* printBtreeNode is called on b, the root or the child whose turn it is.
LEMMA EnterWalk ==
  ASSUME MyiInv, SeenInv, mpc = "walk", index \in 1..Len(myi.keydef), NEW b, NEW callers,
         callers \in Seq(Frames(DOMAIN myi.pages)), Len(callers) = Len(pages),
         \A n \in 1..Len(pages) : callers[n].block = pages[n].block,
         Root(index) # HA_OFFSET_ERROR, ~Seen(seen, index, b),
         \/ b = Root(index)
         \/ pages # <<>> /\ \E a \in DOMAIN myi.pages : Seen(seen, index, a) /\ b \in Range(Kids(a)),
         \A n \in 1..Len(pages) : \A j \in DOMAIN Kids(pages[n].block) :
            Seen(seen, index, Kids(pages[n].block)[j]) \/ Kids(pages[n].block)[j] = b
               <=> j < callers[n].i,
         Enter(b, callers), MyiInv'
  PROVE  SeenInv'
<1>1. CASE exit
  BY <1>1, WalkGoesOn DEF exit
<1>2. CASE ~exit
  <2> DEFINE F == Frames(DOMAIN myi.pages)
             g == Frame(b)
             L == Len(pages)
             N == Len(seen)
             P == (1..Len(myi.keydef)) \X DOMAIN myi.pages
             new == <<index, b>>
  <2>1. /\ b \in DOMAIN myi.pages /\ pages' = Append(callers, g) /\ seen' = Append(seen, new)
        /\ myi' = myi /\ mpc' = mpc /\ index' = index
    BY <1>2 DEF Enter
  <2>2. g.block = b /\ g.i = 0 /\ g \in F
    BY <2>1 DEF Frame, Frames
  <2>3. SeenTypes /\ seen \in Seq(P) /\ new \in P /\ IsForest(myi) /\ ParentsFirst
    BY <2>1 DEF SeenInv, SeenTypes
  <2>4. \A k, d : new = <<k, d>> <=> k = index /\ d = b
    OBVIOUS
  <2>5. new[1] = index /\ new[2] = b
    OBVIOUS
  <2>6. pages \in Seq(F)
    BY DEF MyiInv, MyiTypes
  <2> HIDE DEF F, P, g, new
  <2>7. N \in Nat /\ Len(seen') = N + 1 /\ seen'[N + 1] = new /\ \A i \in 1..N : seen'[i] = seen[i]
    BY <2>1, <2>3
  <2>8. L \in Nat /\ Len(pages') = L + 1 /\ pages'[L + 1] = g
        /\ \A n \in 1..L : pages'[n] = callers[n]
    <3>1. callers \in Seq(F)
      BY DEF F
    <3> QED
      BY <2>1, <2>2, <3>1
  <2> HIDE DEF L, N
  <2>9. ASSUME NEW k, NEW d PROVE Seen(seen', k, d) <=> Seen(seen, k, d) \/ (k = index /\ d = b)
    <3>1. Seen(seen', k, d) <=> \E i \in 1..N + 1 : seen'[i] = <<k, d>>
      BY <2>7 DEF Seen
    <3>2. Seen(seen, k, d) <=> \E i \in 1..N : seen[i] = <<k, d>>
      BY DEF Seen, N
    <3> DEFINE e == <<k, d>>
    <3>3. (new = e) <=> (k = index /\ d = b)
      BY <2>4
    <3> HIDE DEF e
    <3>4. (\E i \in 1..N + 1 : seen'[i] = e) <=> (\E i \in 1..N : seen[i] = e) \/ new = e
      BY <2>7
    <3> QED
      BY <3>1, <3>2, <3>3, <3>4 DEF e
  <2>10. (\A a : Kids(a)' = Kids(a)) /\ (\A k : Root(k)' = Root(k))
    BY <2>1 DEF Kids, Root
  <2>11. b \notin Range(Kids(b)) /\ \A c \in Range(Kids(b)) : ~Seen(seen, index, c)
    <3>1. CASE b = Root(index)
      BY <2>1, <2>3, <3>1, NoParent, KidsUnseen
    <3>2. CASE b # Root(index)
      <4>1. PICK a \in DOMAIN myi.pages : Seen(seen, index, a) /\ b \in Range(Kids(a))
        BY <3>2
      <4>2. ASSUME b \in Range(Kids(b)) PROVE FALSE
        <5>1. a = b
          BY <2>1, <2>3, <4>1, <4>2, KidsAre, OneParent
        <5> QED
          BY <4>1, <5>1
      <4> QED
        BY <2>1, <2>3, <4>2, KidsUnseen
    <3> QED
      BY <3>1, <3>2
  <2>12. SeenTypes'
    <3>1. seen' \in Seq(P)
      BY <2>1, <2>3
    <3>2. (seen \in Seq((1..Len(myi.keydef)) \X DOMAIN myi.pages))'
      BY <2>1, <3>1 DEF P
    <3>3. IsForest(myi)'
      BY <2>1, <2>3 DEF IsForest
    <3> QED
      BY <2>1, <3>2, <3>3 DEF SeenTypes
  <2>13. pages' # <<>>
    <3>1. Len(pages') # 0
      BY <2>8
    <3> QED
      BY <3>1
  <2>14. ASSUME NEW i \in 1..N + 1 PROVE i = N + 1 \/ (i \in 1..N /\ i # N + 1)
    BY <2>7
  <2>15. SeenIndexes'
    <3>1. ASSUME NEW i \in 1..N + 1
          PROVE  seen'[i][1] <= index /\ Root(seen'[i][1]) # HA_OFFSET_ERROR
      <4>1. CASE i = N + 1
        BY <2>5, <2>7, <4>1
      <4>2. CASE i \in 1..N
        BY <2>7, <4>2 DEF SeenInv, SeenIndexes, N
      <4> QED
        BY <2>14, <4>1, <4>2
    <3> QED
      BY <2>1, <2>7, <2>10, <2>13, <3>1 DEF SeenIndexes
  <2>16. SeenOnce'
    <3>1. \A i \in 1..N : seen[i] # new
      BY DEF Seen, N, new
    <3>2. ASSUME NEW i \in 1..N + 1, NEW j \in 1..N + 1, seen'[i] = seen'[j] PROVE i = j
      <4>1. \A m, n \in 1..N : seen[m] = seen[n] => m = n
        BY DEF SeenInv, SeenOnce, N
      <4> QED
        BY <2>7, <2>14, <3>1, <3>2, <4>1
    <3> QED
      BY <2>7, <3>2 DEF SeenOnce
  <2>17. ParentsFirst'
    <3>1. ASSUME NEW i \in 1..N PROVE Parented(seen', i)
      <4>1. Parented(seen, i)
        BY <2>3 DEF ParentsFirst, N
      <4>2. seen'[i] = seen[i] /\ \A j \in 1..i - 1 : seen'[j] = seen[j]
        BY <2>7
      <4> QED
        BY <2>10, <4>1, <4>2 DEF Parented
    <3>2. Parented(seen', N + 1)
      <4>1. CASE b = Root(index)
        BY <2>5, <2>7, <2>10, <4>1 DEF Parented
      <4>2. CASE b # Root(index)
        <5>1. PICK a \in DOMAIN myi.pages : Seen(seen, index, a) /\ b \in Range(Kids(a))
          BY <4>2
        <5>2. PICK j \in 1..N : seen[j] = <<index, a>>
          BY <5>1 DEF Seen, N
        <5>3. seen'[j][1] = index /\ seen'[j][2] = a /\ j \in 1..(N + 1) - 1
          BY <2>7, <5>2
        <5> QED
          BY <2>5, <2>7, <2>10, <5>1, <5>3 DEF Parented
      <4> QED
        BY <4>1, <4>2
    <3>3. \A i \in 1..N + 1 : Parented(seen', i)
      BY <2>14, <3>1, <3>2
    <3>4. \A i \in 1..N + 1 : Parented(seen, i)'
      BY <2>10, <3>3 DEF Parented
    <3> QED
      BY <2>7, <3>4 DEF ParentsFirst
  <2>18. ASSUME NEW n \in 1..L + 1
         PROVE  \/ /\ n = L + 1 /\ pages'[n] = g
                \/ /\ n \in 1..L /\ n # L + 1 /\ pages'[n] = callers[n]
                   /\ pages'[n].block = pages[n].block
    <3>1. n = L + 1 \/ (n \in 1..L /\ n # L + 1)
      BY <2>8
    <3> QED
      BY <2>8, <3>1 DEF L
  <2>19. \A n \in 1..L : Seen(seen, index, pages[n].block) /\ pages[n].block # b
    BY DEF SeenInv, StackSeen, L
  <2>20. StackSeen'
    <3>1. pages'[1].block = Root(index)
      <4>1. CASE pages = <<>>
        <5>1. L = 0
          BY <4>1 DEF L
        <5> QED
          BY <2>2, <2>8, <4>1, <5>1
      <4>2. CASE pages # <<>>
        <5>1. 1 \in 1..L
          BY <2>6, <4>2 DEF L
        <5>2. 1 \in 1..L + 1 /\ 1 # L + 1
          BY <2>8, <5>1
        <5>3. pages[1].block = Root(index)
          BY <4>2 DEF SeenInv, StackSeen
        <5> QED
          BY <2>18, <5>2, <5>3
      <4> QED
        BY <4>1, <4>2
    <3>2. \A n \in 1..L + 1 : Seen(seen', index, pages'[n].block)
      BY <2>2, <2>9, <2>18, <2>19
    <3>3. ASSUME NEW m \in 1..L + 1, NEW n \in 1..L + 1, pages'[m].block = pages'[n].block
          PROVE  m = n
      <4>1. \A x, y \in 1..L : pages[x].block = pages[y].block => x = y
        BY DEF SeenInv, StackSeen, L
      <4> QED
        BY <2>2, <2>18, <2>19, <3>3, <4>1
    <3> QED
      BY <2>1, <2>8, <2>10, <3>1, <3>2, <3>3 DEF StackSeen
  <2>21. StackKids'
    <3>1. ASSUME NEW n \in 1..L + 1, NEW j \in DOMAIN Kids(pages'[n].block)
          PROVE  Seen(seen', index, Kids(pages'[n].block)[j]) <=> j < pages'[n].i
      <4>1. CASE n = L + 1
        <5>1. pages'[n] = g /\ pages'[n].block = b /\ pages'[n].i = 0
          BY <2>2, <2>18, <4>1
        <5>2. j \in Nat /\ j >= 1 /\ Kids(b)[j] \in Range(Kids(b))
          BY <2>1, <3>1, <5>1, KidsAre
        <5>3. ~Seen(seen', index, Kids(b)[j])
          BY <2>9, <2>11, <5>2
        <5> QED
          BY <5>1, <5>2, <5>3
      <4>2. CASE n # L + 1
        <5>1. n \in 1..L /\ pages'[n] = callers[n] /\ pages'[n].block = pages[n].block
          BY <2>18, <4>2
        <5> DEFINE c == Kids(pages[n].block)[j]
        <5>2. (Seen(seen, index, c) \/ c = b) <=> j < callers[n].i
          BY <5>1 DEF L
        <5> HIDE DEF c
        <5>3. Seen(seen', index, c) <=> Seen(seen, index, c) \/ c = b
          BY <2>9
        <5> QED
          BY <5>1, <5>2, <5>3 DEF c
      <4> QED
        BY <4>1, <4>2
    <3> QED
      BY <2>1, <2>8, <2>10, <3>1 DEF StackKids
  <2>22. OffStack'
    <3>1. ASSUME NEW a \in DOMAIN myi.pages, Seen(seen', index, a)
          PROVE  \/ \E n \in 1..L + 1 : pages'[n].block = a
                 \/ \A c \in Range(Kids(a)) : Seen(seen', index, c)
      <4>1. CASE a = b
        <5>1. L + 1 \in 1..L + 1
          BY <2>8
        <5> QED
          BY <2>2, <2>8, <4>1, <5>1
      <4>2. CASE a # b
        <5>1. Seen(seen, index, a)
          BY <2>9, <3>1, <4>2
        <5>2. CASE \A c \in Range(Kids(a)) : Seen(seen, index, c)
          BY <2>9, <5>2
        <5>3. CASE ~(\A c \in Range(Kids(a)) : Seen(seen, index, c))
          <6>1. PICK n \in 1..L : pages[n].block = a
            BY <5>1, <5>3 DEF SeenInv, OffStack, L
          <6>2. n \in 1..L + 1 /\ n # L + 1
            BY <2>8
          <6> QED
            BY <2>18, <6>1, <6>2
        <5> QED
          BY <5>2, <5>3
      <4> QED
        BY <4>1, <4>2
    <3> QED
      BY <2>1, <2>8, <2>10, <3>1 DEF OffStack
  <2>23. Finished'
    <3>1. ASSUME NEW k \in 1..Len(myi.keydef), k < index, Root(k) # HA_OFFSET_ERROR
          PROVE  /\ Seen(seen', k, Root(k))
                 /\ \A a \in DOMAIN myi.pages : Seen(seen', k, a) => \A c \in Range(Kids(a)) : Seen(seen', k, c)
      <4>1. k # index
        BY <3>1
      <4>2. \A d : Seen(seen', k, d) <=> Seen(seen, k, d)
        BY <2>9, <4>1
      <4>3. /\ Seen(seen, k, Root(k))
            /\ \A a \in DOMAIN myi.pages : Seen(seen, k, a) => \A c \in Range(Kids(a)) : Seen(seen, k, c)
        BY <3>1 DEF SeenInv, Finished
      <4> QED
        BY <4>2, <4>3
    <3> QED
      BY <2>1, <2>10, <3>1 DEF Finished
  <2>24. AtEnd'
    BY <2>1 DEF AtEnd
  <2> QED
    BY <2>12, <2>15, <2>16, <2>17, <2>20, <2>21, <2>22, <2>23, <2>24 DEF SeenInv
<1> QED
  BY <1>1, <1>2

\* The loop over the indexes goes on, when the pages of one are printed.
LEMMA LeaveIndex ==
  ASSUME MyiInv, SeenInv, mpc = "walk", index <= Len(myi.keydef),
         Root(index) # HA_OFFSET_ERROR =>
            /\ Seen(seen, index, Root(index))
            /\ \A b \in DOMAIN myi.pages : Seen(seen, index, b) =>
                  \A c \in Range(Kids(b)) : Seen(seen, index, c),
         myi' = myi, mpc' = mpc, seen' = seen, pages' = <<>>, index' = index + 1
  PROVE  SeenInv'
<1>1. SeenTypes /\ Len(pages') = 0 /\ index \in Nat
  BY DEF SeenInv, MyiInv, MyiTypes
<1>2. (\A b : Kids(b)' = Kids(b)) /\ (\A k : Root(k)' = Root(k))
  BY DEF Kids, Root
<1>3. \A i \in 1..Len(seen) : seen[i][1] \in Nat
  <2>1. Len(myi.keydef) \in Nat
    BY DEF MyiInv, MyiTypes, IsFile
  <2> QED
    BY <1>1, <2>1, SeenIs
<1>4. SeenTypes'
  BY <1>1 DEF SeenTypes, IsForest
<1>5. SeenIndexes'
  <2>1. \A i \in 1..Len(seen) : seen[i][1] <= index /\ Root(seen[i][1]) # HA_OFFSET_ERROR
    BY DEF SeenInv, SeenIndexes
  <2>2. \A i \in 1..Len(seen) : seen[i][1] <= index + 1 /\ seen[i][1] # index + 1
    BY <1>1, <1>3, <2>1
  <2> QED
    BY <1>2, <2>1, <2>2 DEF SeenIndexes
<1>6. SeenOnce' /\ ParentsFirst'
  BY <1>2 DEF SeenInv, SeenOnce, ParentsFirst, Parented
<1>7. \A b : ~Seen(seen, index + 1, b)
  <2> SUFFICES ASSUME NEW b, Seen(seen, index + 1, b) PROVE FALSE
    OBVIOUS
  <2>1. PICK i \in 1..Len(seen) : seen[i] = <<index + 1, b>>
    BY DEF Seen
  <2>2. seen[i][1] = index + 1 /\ seen[i][1] <= index
    BY <2>1 DEF SeenInv, SeenIndexes
  <2> QED
    BY <1>1, <2>2
<1>8. StackSeen' /\ StackKids'
  BY <1>1 DEF StackSeen, StackKids
<1>9. OffStack'
  BY <1>7 DEF OffStack
<1>10. Finished'
  <2>1. ASSUME NEW k \in 1..Len(myi.keydef), k < index + 1, Root(k) # HA_OFFSET_ERROR
        PROVE  /\ Seen(seen, k, Root(k))
               /\ \A b \in DOMAIN myi.pages : Seen(seen, k, b) =>
                     \A c \in Range(Kids(b)) : Seen(seen, k, c)
    <3>1. k < index \/ k = index
      BY <1>1, <2>1
    <3> QED
      BY <2>1, <3>1 DEF SeenInv, Finished
  <2> QED
    BY <1>2, <2>1 DEF Finished
<1>11. AtEnd'
  BY DEF AtEnd
<1> QED
  BY <1>4, <1>5, <1>6, <1>8, <1>9, <1>10, <1>11 DEF SeenInv

-----------------------------------------------------------------------------
LEMMA NextIndexWalk == MyiInv /\ MyiInv' /\ SeenInv /\ NextIndex => SeenInv'
<1> SUFFICES ASSUME MyiInv, MyiInv', SeenInv, NextIndex PROVE SeenInv'
  OBVIOUS
<1>1. mpc = "walk" /\ pages = <<>> /\ IsFile(myi) /\ index \in Nat /\ index > 0
  BY DEF NextIndex, MyiInv, MyiTypes
<1>2. Len(myi.keydef) \in Nat
  BY <1>1 DEF IsFile
<1>3. Len(pages) = 0
  BY <1>1
<1>4. CASE index > Len(myi.keydef)
  <2>1. /\ mpc' = "done" /\ myi' = myi /\ pages' = pages /\ index' = index /\ seen' = seen
    BY <1>1, <1>4 DEF NextIndex
  <2> QED
    BY <1>1, <1>4, <2>1, WalkGoesOn
<1>5. CASE ~(index > Len(myi.keydef)) /\ Root(index) = HA_OFFSET_ERROR
  <2>1. myi' = myi /\ pages' = <<>> /\ index' = index + 1 /\ seen' = seen /\ mpc' = mpc
    BY <1>1, <1>5 DEF NextIndex, Root
  <2>2. index <= Len(myi.keydef)
    BY <1>1, <1>2, <1>5
  <2> QED
    BY <1>1, <1>5, <2>1, <2>2, LeaveIndex
<1>6. CASE ~(index > Len(myi.keydef)) /\ Root(index) # HA_OFFSET_ERROR
  <2>1. Enter(Root(index), <<>>) /\ index \in 1..Len(myi.keydef)
    BY <1>1, <1>2, <1>6 DEF NextIndex, Root
  <2>2. ~Seen(seen, index, Root(index))
    <3> SUFFICES ASSUME NEW i \in 1..Len(seen), seen[i] = <<index, Root(index)>> PROVE FALSE
      BY DEF Seen
    <3>1. seen[i][1] = index
      OBVIOUS
    <3> QED
      BY <1>1, <3>1 DEF SeenInv, SeenIndexes
  <2>3. <<>> \in Seq(Frames(DOMAIN myi.pages)) /\ Len(<<>>) = Len(pages)
    BY <1>3
  <2>4. /\ \A n \in 1..Len(pages) : <<>>[n].block = pages[n].block
        /\ \A n \in 1..Len(pages) : \A j \in DOMAIN Kids(pages[n].block) :
              Seen(seen, index, Kids(pages[n].block)[j]) \/ Kids(pages[n].block)[j] = Root(index)
                <=> j < <<>>[n].i
    BY <1>3
  <2> QED
    BY <1>1, <1>6, <2>1, <2>2, <2>3, <2>4, EnterWalk
<1> QED
  BY <1>4, <1>5, <1>6

\* An activation that goes through the children has all of the page's.
LEMMA AllKids ==
  ASSUME MyiInv, pages # <<>>, Top.i > 0
  PROVE  Top.kids = Kids(Top.block)
<1>1. Len(pages) \in DOMAIN pages
  BY TopIs DEF MyiInv, MyiTypes
<1> QED
  BY <1>1, MyiGood DEF MyiInSync, KeysRead, Top, Kids

LEMMA DescendWalk == MyiInv /\ MyiInv' /\ SeenInv /\ Descend => SeenInv'
<1> SUFFICES ASSUME MyiInv, MyiInv', SeenInv, Descend PROVE SeenInv'
  OBVIOUS
<1> DEFINE F == Frames(DOMAIN myi.pages)
           L == Len(pages)
           g == [Top EXCEPT !.i = Top.i + 1]
           callers == [pages EXCEPT ![L].i = Top.i + 1]
           a == Top.block
           c == Top.kids[Top.i]
<1>1. mpc = "walk" /\ pages # <<>> /\ Top.i \in DOMAIN Top.kids /\ Enter(c, callers)
  BY DEF Descend
<1>2. /\ index \in 1..Len(myi.keydef) /\ L \in Nat /\ L > 0
      /\ Top \in F /\ \A n \in 1..L : pages[n] \in F
  BY <1>1, TopIs
<1>3. Top.i \in Nat /\ Top.i > 0 /\ Top.kids \in Seq(Nat) /\ a \in DOMAIN myi.pages
  BY <1>1, <1>2 DEF Frames
<1>4. Top.i \in DOMAIN Kids(a) /\ c = Kids(a)[Top.i] /\ c \in Range(Kids(a))
  <2>1. Top.kids = Kids(a)
    BY <1>1, <1>3, AllKids
  <2> QED
    BY <1>1, <2>1 DEF Range
<1>5. g \in F /\ g.i = Top.i + 1 /\ g.block = Top.block
  <2>1. Top.i + 1 \in Nat
    BY <1>3
  <2> QED
    BY <1>2, <2>1 DEF Frames
<1>6. callers = [pages EXCEPT ![L] = g]
  BY <1>1, <1>2 DEF Top, Frames
<1>7. pages \in Seq(F) /\ pages[L] = Top
  BY DEF MyiInv, MyiTypes, Top
<1>8. \A n \in 1..L : pages[n].block \in DOMAIN myi.pages
  BY <1>2 DEF Frames
<1> HIDE DEF g, F, callers, c, a
<1>9. /\ callers \in Seq(F) /\ Len(callers) = L /\ callers[L] = g
      /\ \A n \in 1..L : n # L => callers[n] = pages[n]
  BY <1>2, <1>5, <1>6, <1>7
<1>10. \A n \in 1..L : callers[n].block = pages[n].block
  BY <1>5, <1>7, <1>9 DEF a
<1>11. L \in 1..L /\ IsForest(myi)
  BY <1>2 DEF SeenInv, SeenTypes
<1>12. Seen(seen, index, a) /\ Root(index) # HA_OFFSET_ERROR
  <2>1. Seen(seen, index, a)
    BY <1>7, <1>11 DEF SeenInv, StackSeen, a
  <2>2. PICK i \in 1..Len(seen) : seen[i] = <<index, a>>
    BY <2>1 DEF Seen
  <2>3. seen[i][1] = index
    BY <2>2
  <2> QED
    BY <2>1, <2>3 DEF SeenInv, SeenIndexes
<1>13. ASSUME NEW n \in 1..L, NEW j \in DOMAIN Kids(pages[n].block)
       PROVE  Seen(seen, index, Kids(pages[n].block)[j]) <=> j < pages[n].i
  BY DEF SeenInv, StackKids
<1>14. ~Seen(seen, index, c)
  <2>1. pages[L].block = a /\ pages[L].i = Top.i
    BY <1>7 DEF a
  <2>2. Seen(seen, index, Kids(a)[Top.i]) <=> Top.i < Top.i
    BY <1>4, <1>11, <1>13, <2>1
  <2> QED
    BY <1>3, <1>4, <2>2
<1>15. ASSUME NEW n \in 1..L, NEW j \in DOMAIN Kids(pages[n].block)
       PROVE  Seen(seen, index, Kids(pages[n].block)[j]) \/ Kids(pages[n].block)[j] = c
                 <=> j < callers[n].i
  <2> DEFINE b == pages[n].block
             d == Kids(b)[j]
  <2>1. b \in DOMAIN myi.pages /\ j \in DOMAIN Kids(b) /\ (Seen(seen, index, d) <=> j < pages[n].i)
    BY <1>8, <1>13
  <2>2. j \in Nat
    BY <2>1, KidsAre
  <2>3. d = c => a = b /\ j = Top.i
    BY <1>3, <1>4, <1>11, <2>1, OneParent
  <2>4. a = b => n = L
    BY <1>7, <1>11 DEF SeenInv, StackSeen, a
  <2>5. CASE n = L
    <3>1. pages[n] = Top /\ callers[n].i = Top.i + 1 /\ b = a
      BY <1>5, <1>7, <1>9, <2>5 DEF a
    <3>2. j = Top.i => d = c
      BY <1>4, <3>1
    <3> HIDE DEF b, d
    <3>3. j < Top.i + 1 <=> j < Top.i \/ j = Top.i
      BY <1>3, <2>2
    <3> QED
      BY <2>1, <2>3, <3>1, <3>2, <3>3 DEF d, b
  <2>6. CASE n # L
    BY <1>9, <2>1, <2>3, <2>4, <2>6
  <2> QED
    BY <2>5, <2>6
<1> QED
  BY <1>1, <1>2, <1>3, <1>4, <1>9, <1>10, <1>12, <1>14, <1>15, EnterWalk DEF F

LEMMA ReturnWalk == MyiInv /\ MyiInv' /\ SeenInv /\ ReturnFromPage => SeenInv'
<1> SUFFICES ASSUME MyiInv, MyiInv', SeenInv, ReturnFromPage PROVE SeenInv'
  OBVIOUS
<1> DEFINE F == Frames(DOMAIN myi.pages)
           L == Len(pages)
           a == Top.block
<1>1. /\ mpc = "walk" /\ pages # <<>> /\ pages' = SubSeq(pages, 1, L - 1)
      /\ Top.i > Len(Top.kids)
      /\ index' = IF L = 1 THEN index + 1 ELSE index
      /\ myi' = myi /\ mpc' = mpc /\ seen' = seen
  BY DEF ReturnFromPage
<1>2. /\ L \in Nat /\ L > 0 /\ pages \in Seq(F) /\ Top \in F /\ pages[L] = Top
      /\ index \in Nat /\ index <= Len(myi.keydef) /\ \A n \in 1..L : pages[n] \in F
  BY <1>1, TopIs DEF MyiInv, MyiTypes, MyiFrames, Top
<1>3. Top.i \in Nat /\ Top.kids \in Seq(Nat) /\ a \in DOMAIN myi.pages
  BY <1>2 DEF Frames
<1>4. Top.i > 0
  <2>1. Len(Top.kids) \in Nat
    BY <1>3
  <2> QED
    BY <1>1, <1>3, <2>1
<1>5. \A c \in Range(Kids(a)) : Seen(seen, index, c)
  <2> SUFFICES ASSUME NEW c \in Range(Kids(a)) PROVE Seen(seen, index, c)
    OBVIOUS
  <2>1. PICK j \in DOMAIN Kids(a) : Kids(a)[j] = c
    BY <1>3, KidsAre
  <2>2. Top.kids = Kids(a)
    BY <1>1, <1>4, AllKids
  <2>3. j \in 1..Len(Top.kids) /\ Len(Top.kids) \in Nat
    BY <1>3, <2>1, <2>2
  <2>4. j < Top.i
    BY <1>1, <1>3, <2>3
  <2>5. L \in 1..L
    BY <1>2
  <2> QED
    BY <1>2, <2>1, <2>4, <2>5 DEF SeenInv, StackKids
<1> HIDE DEF F, a
<1>6. CASE L = 1
  <2>1. pages' = <<>> /\ pages[1] = Top
    BY <1>1, <1>2, <1>6
  <2>2. Seen(seen, index, Root(index))
    <3>1. 1 \in 1..L /\ pages[1].block = Root(index)
      BY <1>1, <1>6 DEF SeenInv, StackSeen
    <3> QED
      BY <3>1 DEF SeenInv, StackSeen
  <2>3. ASSUME NEW b \in DOMAIN myi.pages, Seen(seen, index, b)
        PROVE  \A c \in Range(Kids(b)) : Seen(seen, index, c)
    <3>1. CASE \E n \in 1..L : pages[n].block = b
      <4>1. b = a
        BY <1>2, <1>6, <2>1, <3>1 DEF a
      <4> QED
        BY <1>5, <4>1
    <3>2. CASE ~(\E n \in 1..L : pages[n].block = b)
      BY <2>3, <3>2 DEF SeenInv, OffStack
    <3> QED
      BY <3>1, <3>2
  <2> QED
    BY <1>1, <1>2, <1>6, <2>1, <2>2, <2>3, LeaveIndex
<1>7. CASE L # 1
  <2>1. /\ pages' \in Seq(F) /\ Len(pages') = L - 1 /\ L - 1 \in Nat /\ L - 1 > 0
        /\ \A n \in 1..L - 1 : n \in 1..L /\ n # L /\ pages'[n] = pages[n]
    <3>1. L - 1 \in Nat /\ L - 1 > 0 /\ \A n \in 1..L - 1 : n \in 1..L /\ n # L
      <4> HIDE DEF L
      <4> QED
        BY <1>2, <1>7
    <3>2. /\ pages' \in Seq(F) /\ Len(pages') = L - 1
          /\ \A n \in 1..L - 1 : pages'[n] = pages[n]
      BY <1>1, <1>2, <3>1
    <3> QED
      BY <3>1, <3>2
  <2>2. pages' # <<>> /\ index' = index
    <3>1. Len(pages') # 0
      BY <2>1
    <3> QED
      BY <1>1, <1>7, <3>1
  <2>3. (\A b : Kids(b)' = Kids(b)) /\ (\A k : Root(k)' = Root(k))
    BY <1>1 DEF Kids, Root
  <2>4. SeenTypes'
    BY <1>1 DEF SeenInv, SeenTypes, IsForest
  <2>5. SeenIndexes'
    BY <1>1, <2>2, <2>3 DEF SeenInv, SeenIndexes
  <2>6. SeenOnce' /\ ParentsFirst'
    BY <1>1, <2>3 DEF SeenInv, SeenOnce, ParentsFirst, Parented
  <2>7. StackSeen'
    <3>1. pages'[1].block = Root(index)
      <4>1. 1 \in 1..L - 1
        BY <2>1
      <4> QED
        BY <1>1, <2>1, <4>1 DEF SeenInv, StackSeen
    <3>2. \A n \in 1..L - 1 : Seen(seen, index, pages'[n].block)
      BY <2>1 DEF SeenInv, StackSeen
    <3>3. \A m, n \in 1..L - 1 : pages'[m].block = pages'[n].block => m = n
      BY <2>1 DEF SeenInv, StackSeen
    <3> QED
      BY <1>1, <2>1, <2>2, <2>3, <3>1, <3>2, <3>3 DEF StackSeen
  <2>8. StackKids'
    <3>0. seen' = seen
      BY <1>1
    <3>1. \A n \in 1..L - 1 : \A j \in DOMAIN Kids(pages'[n].block) :
             Seen(seen, index, Kids(pages'[n].block)[j]) <=> j < pages'[n].i
      BY <2>1 DEF SeenInv, StackKids
    <3>2. \A n \in 1..Len(pages') : \A j \in DOMAIN Kids(pages'[n].block) :
             Seen(seen', index', Kids(pages'[n].block)[j]) <=> j < pages'[n].i
      BY <2>1, <2>2, <3>0, <3>1
    <3> QED
      BY <2>3, <3>2 DEF StackKids
  <2>9. OffStack'
    <3>1. ASSUME NEW b \in DOMAIN myi.pages, Seen(seen, index, b),
                 ~(\A c \in Range(Kids(b)) : Seen(seen, index, c))
          PROVE  \E n \in 1..L - 1 : pages'[n].block = b
      <4>1. PICK n \in 1..L : pages[n].block = b
        BY <3>1 DEF SeenInv, OffStack
      <4>2. n # L
        BY <1>2, <1>5, <3>1, <4>1 DEF a
      <4>3. n \in 1..L - 1
        <5> HIDE DEF L
        <5> QED
          BY <1>2, <4>2
      <4> QED
        BY <2>1, <4>1, <4>3
    <3> QED
      BY <1>1, <2>1, <2>2, <2>3, <3>1 DEF OffStack
  <2>10. Finished' /\ AtEnd'
    BY <1>1, <2>2, <2>3 DEF SeenInv, Finished, AtEnd
  <2> QED
    BY <2>4, <2>5, <2>6, <2>7, <2>8, <2>9, <2>10 DEF SeenInv
<1> QED
  BY <1>6, <1>7

LEMMA MainWalk == MyiInv /\ MyiInv' /\ SeenInv /\ (ReadState \/ ReadKeydef) => SeenInv'
<1> SUFFICES ASSUME MyiInv, MyiInv', SeenInv, ReadState \/ ReadKeydef PROVE SeenInv'
  OBVIOUS
<1>1. CASE exit
  BY <1>1, WalkGoesOn DEF exit
<1>2. CASE ~exit /\ ReadState
  <2>1. /\ mpc = "state" /\ mpc' = "keydef" /\ myi' = myi /\ pages' = pages
        /\ index' = index /\ seen' = seen
    BY <1>2 DEF ReadState
  <2> QED
    BY <2>1, WalkGoesOn
<1>3. CASE ~exit /\ ReadKeydef
  <2>1. /\ mpc = "keydef" /\ myi' = myi /\ pages' = pages /\ seen' = seen
        /\ \/ mpc' = "walk" /\ index' = 1
           \/ mpc' = "keydef"
    BY <1>3 DEF ReadKeydef
  <2>2. pages' = <<>> /\ seen' = <<>> /\ IsForest(myi)'
    BY <2>1 DEF MyiInv, MyiTypes, SeenInv, SeenTypes, IsForest
  <2> QED
    BY <2>1, <2>2, NothingSeenNext
<1> QED
  BY <1>1, <1>2, <1>3

\* The innermost activation reads its page.
LEMMA EatenWalk ==
  ASSUME MyiInv, MyiInv', SeenInv, Reading, NEW p, NEW keys, Eaten(p, keys)
  PROVE  SeenInv'
<1>1. CASE exit
  BY <1>1, WalkGoesOn DEF exit
<1>2. CASE ~exit
  <2>1. PICK q, kids :
           /\ pages' = [pages EXCEPT ![Len(pages)].offset = q, ![Len(pages)].keys = keys,
                                     ![Len(pages)].kids = kids]
           /\ myi' = myi /\ mpc' = mpc /\ index' = index /\ seen' = seen
    BY <1>2 DEF Eaten
  <2>2. pages # <<>>
    BY DEF Reading
  <2> DEFINE F == Frames(DOMAIN myi.pages)
             g == [Top EXCEPT !.offset = q, !.keys = keys, !.kids = kids]
  <2>3. /\ Len(pages) \in Nat /\ Len(pages) > 0 /\ Top \in F /\ pages \in Seq(F)
        /\ pages[Len(pages)] = Top
    BY <2>2, TopIs DEF MyiInv, MyiTypes, Top
  <2>4. g.block = Top.block /\ g.i = Top.i
    BY <2>3 DEF Frames
  <2>5. pages' = [pages EXCEPT ![Len(pages)] = g]
    BY <2>1, <2>3 DEF Frames
  <2> HIDE DEF F, g
  <2>6. /\ Len(pages') = Len(pages)
        /\ \A n \in 1..Len(pages) : /\ pages'[n].block = pages[n].block
                                    /\ pages'[n].i = pages[n].i
    BY <2>3, <2>4, <2>5
  <2> QED
    BY <2>1, <2>6, WalkGoesOn
<1> QED
  BY <1>1, <1>2

LEMMA PageReadWalk == MyiInv /\ MyiInv' /\ SeenInv /\ PageRead => SeenInv'
<1> SUFFICES ASSUME MyiInv, MyiInv', SeenInv, PageRead PROVE SeenInv'
  OBVIOUS
<1> DEFINE F == Frames(DOMAIN myi.pages)
           g == [Top EXCEPT !.i = 1]
<1>1. /\ pages # <<>> /\ Top.i = 0 /\ pages' = [pages EXCEPT ![Len(pages)].i = 1]
      /\ myi' = myi /\ mpc' = mpc /\ index' = index /\ seen' = seen
  BY DEF PageRead, Reading
<1>2. /\ Len(pages) \in Nat /\ Len(pages) > 0 /\ Top \in F /\ pages \in Seq(F)
      /\ pages[Len(pages)] = Top
  BY <1>1, TopIs DEF MyiInv, MyiTypes, Top
<1>3. g.block = Top.block /\ g.i = 1
  BY <1>2 DEF Frames
<1>4. pages' = [pages EXCEPT ![Len(pages)] = g]
  BY <1>1, <1>2 DEF Frames
<1> HIDE DEF F, g
<1>5. /\ Len(pages') = Len(pages)
      /\ \A n \in 1..Len(pages) :
            /\ pages'[n].block = pages[n].block
            /\ pages'[n].i = pages[n].i \/ (pages[n].i = 0 /\ pages'[n].i = 1)
  BY <1>1, <1>2, <1>3, <1>4
<1> QED
  BY <1>1, <1>5, WalkGoesOn

LEMMA WalkStep == MyiInv /\ MyiInv' /\ SeenInv /\ [MyiNext]_myiVars => SeenInv'
<1> SUFFICES ASSUME MyiInv, MyiInv', SeenInv, [MyiNext]_myiVars PROVE SeenInv'
  OBVIOUS
<1>1. CASE ReadState \/ ReadKeydef
  BY <1>1, MainWalk
<1>2. CASE NextIndex
  BY <1>2, NextIndexWalk
<1>3. CASE FirstChild \/ NextKey
  <2>1. Reading /\ \E p, keys : Eaten(p, keys)
    BY <1>3 DEF FirstChild, NextKey
  <2> QED
    BY <2>1, EatenWalk
<1>4. CASE PageRead
  BY <1>4, PageReadWalk
<1>5. CASE Descend
  BY <1>5, DescendWalk
<1>6. CASE ReturnFromPage
  BY <1>6, ReturnWalk
<1>7. CASE UNCHANGED myiVars
  BY <1>7, WalkGoesOn DEF myiVars
<1> QED
  BY <1>1, <1>2, <1>3, <1>4, <1>5, <1>6, <1>7 DEF MyiNext

LEMMA WalkFiles == MyiInit => SeenInv
<1> SUFFICES ASSUME MyiInit PROVE SeenInv
  OBVIOUS
<1>1. IsForest(myi) /\ seen = <<>> /\ pages = <<>> /\ mpc = "state"
  BY ForestAssumption DEF MyiInit, MyiStart
<1> QED
  BY <1>1, NothingSeen

-----------------------------------------------------------------------------
\* In the end the pages of an index that were entered are those of its tree.
LEMMA TreeSeen ==
  ASSUME MyiInv, SeenInv, mpc = "done", NEW k \in 1..Len(myi.keydef), Root(k) # HA_OFFSET_ERROR,
         NEW b
  PROVE  Seen(seen, k, b) <=> b \in PagesOf(Root(k))
<1>1. SeenTypes /\ ParentsFirst /\ k < index
  <2>1. index > Len(myi.keydef) /\ index \in Nat /\ Len(myi.keydef) \in Nat
    BY DEF SeenInv, AtEnd, MyiInv, MyiTypes, IsFile
  <2> QED
    BY <2>1 DEF SeenInv
<1> DEFINE T == {c \in DOMAIN myi.pages : Seen(seen, k, c)}
<1>2. ASSUME b \in PagesOf(Root(k)) PROVE Seen(seen, k, b)
  <2>1. Root(k) \in T
    BY <1>1, SeenIs DEF SeenInv, Finished
  <2>2. WithKids(T)
    BY <1>1, SeenIs DEF SeenInv, Finished, WithKids, Kids
  <2>3. b \in T
    <3> HIDE DEF T
    <3>1. T \in SUBSET DOMAIN myi.pages
      BY DEF T
    <3> QED
      BY <1>2, <2>1, <2>2, <3>1 DEF PagesOf
  <2> QED
    BY <2>3
<1>3. ASSUME Seen(seen, k, b) PROVE b \in PagesOf(Root(k))
  <2>1. b \in DOMAIN myi.pages
    BY <1>1, <1>3, SeenIs
  <2> SUFFICES ASSUME NEW S \in SUBSET DOMAIN myi.pages, Root(k) \in S, WithKids(S)
               PROVE  b \in S
    BY <2>1 DEF PagesOf
  <2> DEFINE W == {i \in 1..Len(seen) : seen[i][1] = k /\ seen[i][2] \notin S}
  <2>2. W = {}
    <3> SUFFICES ASSUME W # {} PROVE FALSE
      OBVIOUS
    <3>1. W \in SUBSET Nat
      BY <1>1, SeenIs
    <3>2. PICK i \in W : \A m \in W : i <= m
      <4> HIDE DEF W
      <4> QED
        BY <3>1, LeastNumber
    <3>3. i \in 1..Len(seen) /\ i \in Nat /\ seen[i][1] = k /\ seen[i][2] \notin S
      BY <3>1, <3>2
    <3>4. PICK j \in 1..i - 1 : seen[j][1] = k /\ seen[i][2] \in Range(Kids(seen[j][2]))
      BY <1>1, <3>3 DEF ParentsFirst, Parented
    <3>5. j \in 1..Len(seen) /\ ~(i <= j)
      BY <1>1, <3>3, SeenIs
    <3>6. seen[j][2] \in S
      BY <3>2, <3>4, <3>5
    <3> QED
      BY <3>3, <3>4, <3>6 DEF WithKids, Kids
  <2>3. PICK i \in 1..Len(seen) : seen[i] = <<k, b>>
    BY <1>3 DEF Seen
  <2>4. seen[i][1] = k /\ seen[i][2] = b
    BY <2>3
  <2> QED
    BY <2>2, <2>4
<1> QED
  BY <1>2, <1>3

LEMMA WalkGood == MyiInv /\ SeenInv => EveryPageOnce
<1> SUFFICES ASSUME MyiInv, SeenInv, mpc = "done" PROVE EveryPageOnce
  BY DEF EveryPageOnce
<1>1. SeenTypes /\ SeenOnce /\ ParentsFirst
  BY DEF SeenInv
<1>2. /\ Len(seen) \in Nat /\ DOMAIN seen = 1..Len(seen)
      /\ DOMAIN myi.keydef = 1..Len(myi.keydef)
  <2>1. myi.keydef \in Seq(Index)
    BY DEF MyiInv, MyiTypes, IsFile
  <2> QED
    BY <1>1, <2>1 DEF SeenTypes
<1> DEFINE Trees == {j \in DOMAIN myi.keydef : myi.keydef[j].root # HA_OFFSET_ERROR}
           Pages(k) == {<<k, b>> : b \in PagesOf(myi.keydef[k].root)}
<1>3. ASSUME NEW e PROVE e \in Range(seen) <=> e \in UNION {Pages(k) : k \in Trees}
  <2>1. ASSUME e \in Range(seen) PROVE \E k \in Trees : e \in Pages(k)
    <3>1. PICK i \in 1..Len(seen) : e = seen[i]
      BY <1>2, <2>1 DEF Range
    <3> DEFINE k == seen[i][1]
               b == seen[i][2]
    <3>2. e = <<k, b>> /\ k \in 1..Len(myi.keydef) /\ Seen(seen, k, b)
      BY <1>1, <3>1, SeenIs, SeenAt
    <3>3. Root(k) # HA_OFFSET_ERROR
      BY <3>1 DEF SeenInv, SeenIndexes
    <3> HIDE DEF k, b
    <3>4. k \in Trees /\ b \in PagesOf(Root(k))
      BY <1>2, <3>2, <3>3, TreeSeen DEF Root
    <3> QED
      BY <3>2, <3>4 DEF Root
  <2>2. ASSUME NEW k \in Trees, e \in Pages(k) PROVE e \in Range(seen)
    <3>1. PICK b \in PagesOf(Root(k)) : e = <<k, b>>
      BY <2>2 DEF Root
    <3>2. k \in 1..Len(myi.keydef) /\ Root(k) # HA_OFFSET_ERROR
      BY <1>2 DEF Root
    <3>3. Seen(seen, k, b)
      BY <3>1, <3>2, TreeSeen
    <3> QED
      BY <1>2, <3>1, <3>3 DEF Seen, Range
  <2> QED
    BY <2>1, <2>2
<1>4. Range(seen) = UNION {Pages(k) : k \in Trees}
  <2> HIDE DEF Pages, Trees
  <2> QED
    BY <1>3
<1>5. Len(seen) = Cardinality(Range(seen))
  <2> DEFINE I == 1..Len(seen)
             R == Range(seen)
  <2>1. seen \in [I -> R] /\ \A i, j \in I : seen[i] = seen[j] => i = j
    BY <1>1, <1>2 DEF SeenTypes, Range, SeenOnce
  <2>2. \A e \in R : \E i \in I : seen[i] = e
    BY <1>2 DEF Range
  <2> HIDE DEF R
  <2>3. seen \in Bijection(I, R)
    BY <2>1, <2>2 DEF Bijection, Injection, Surjection, IsInjective
  <2>4. ExistsBijection(I, R)
    BY <2>3 DEF ExistsBijection
  <2>5. IsFiniteSet(I) /\ Cardinality(I) = Len(seen)
    <3> DEFINE n == Len(seen)
    <3>0. 1 \in Int /\ n \in Int
      BY <1>2
    <3> HIDE DEF n
    <3>1. IsFiniteSet(1..n) /\ Cardinality(1..n) = IF 1 > n THEN 0 ELSE n - 1 + 1
      BY <3>0, FS_Interval
    <3> QED
      BY <1>2, <3>1 DEF n
  <2> HIDE DEF I
  <2>6. Cardinality(R) = Len(seen)
    BY <2>4, <2>5, FS_Bijection
  <2> QED
    BY <2>6 DEF R
<1>6. ASSUME NEW i \in DOMAIN seen
      PROVE  \/ seen[i][2] = myi.keydef[seen[i][1]].root
             \/ \E j \in 1..i - 1 : /\ seen[j][1] = seen[i][1]
                                    /\ seen[i][2] \in Range(myi.pages[seen[j][2]].kids)
  BY <1>1, <1>2 DEF ParentsFirst, Parented, Root, Kids
<1> QED
  BY <1>4, <1>5, <1>6 DEF EveryPageOnce

\* A run of read-MYI that does not give up prints every page of every index,
\* each once and none before the page that refers to it, whatever the number of
\* indexes and the shape and depth of their trees.
THEOREM PagesOnce == MyiSpec => []EveryPageOnce
<1>1. MyiSpec => []MyiInv
  BY MyiFiles0, MyiStep, PTL DEF MyiSpec
<1>2. MyiSpec => []SeenInv
  <2>1. MyiInit => SeenInv
    BY WalkFiles
  <2>2. MyiInv /\ MyiInv' /\ SeenInv /\ [MyiNext]_myiVars => SeenInv'
    BY WalkStep
  <2> QED
    BY <1>1, <2>1, <2>2, PTL DEF MyiSpec
<1> QED
  BY <1>1, <1>2, WalkGood, PTL
===============================================================================
