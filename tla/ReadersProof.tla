----------------------------- MODULE ReadersProof -----------------------------
(***************************************************************************)
(* Proofs about the other readers of files, for any number of parts and    *)
(* any lengths, about the reader of the kernel's dumps, for any lists and  *)
(* whatever the kernel does between the dumps, and about the lists that    *)
(* range2freearea.php makes of memory ranges.                              *)
(*                                                                         *)
(* A reader's pointer is shown to be where the writer put the next part.   *)
(* Where that is, Layout says by recursion on the number of parts; the     *)
(* lemmas about recursion and induction are those of MyiProof.             *)
(***************************************************************************)
EXTENDS ReadCpio, ReadElf, ReadFrm, NodeData, FreeArea, MyiProof

-----------------------------------------------------------------------------
(* Layout.                                                                 *)

LEMMA EndsValue ==
  ASSUME NEW w \in Seq(Nat)
  PROVE  /\ Ends(w) \in [0..Len(w) -> Nat]
         /\ Ends(w)[0] = 0
         /\ \A n \in 1..Len(w) : Ends(w)[n] = Ends(w)[n - 1] + w[n]
<1> DEFINE len == Len(w)
           More(s, k) == s + w[k]
           step == [k \in 1..len |-> [s \in Nat |-> More(s, k)]]
<1>0. len \in Nat /\ \A n \in 1..len : w[n] \in Nat
  OBVIOUS
<1>a. \A s \in Nat : \A k \in 1..len : More(s, k) \in Nat
  BY <1>0
<1> HIDE DEF len, More
<1>1. Steps(step, Nat, len)
  BY <1>a DEF Steps
<1>2. PICK f : Follows(f, step, 0, Nat, len)
  <2> HIDE DEF step
  <2> QED
    BY <1>0, <1>1, Recursion
<1>3. f \in [0..len -> Nat] /\ f[0] = 0
  BY <1>2 DEF Follows
<1>4. ASSUME NEW k \in 1..len PROVE f[k] = More(f[k - 1], k)
  <2>1. f[k] = step[k][f[k - 1]]
    <3> HIDE DEF step
    <3> QED
      BY <1>2 DEF Follows
  <2>2. k - 1 \in 0..len
    BY <1>0
  <2>3. f[k - 1] \in Nat
    BY <1>3, <2>2
  <2>4. step[k] = [s \in Nat |-> More(s, k)]
    OBVIOUS
  <2>5. step[k][f[k - 1]] = More(f[k - 1], k)
    BY <2>3, <2>4
  <2> QED
    BY <2>1, <2>5
<1> HIDE DEF step
<1>5. f = [n \in 0..len |-> IF n = 0 THEN 0 ELSE More(f[n - 1], n)]
  <2>1. f = [n \in 0..len |-> f[n]]
    BY <1>3
  <2>2. ASSUME NEW n \in 0..len PROVE f[n] = IF n = 0 THEN 0 ELSE More(f[n - 1], n)
    BY <1>0, <1>3, <1>4
  <2> QED
    BY <2>1, <2>2
<1> DEFINE e == Ends(w)
<1>6. e = [n \in 0..len |-> IF n = 0 THEN 0 ELSE More(e[n - 1], n)]
  BY <1>5 DEF Ends, More, len
<1> HIDE DEF e
<1>7. e[0] = 0 /\ \A n \in 1..len : e[n] = More(e[n - 1], n)
  BY <1>0, <1>6
<1>8. e \in [0..len -> Nat]
  <2>1. e = [k \in 0..len |-> e[k]]
    BY <1>6
  <2>2. \A k \in 1..len : e[k - 1] \in Nat => e[k] \in Nat
    BY <1>a, <1>7
  <2>3. e[0] \in Nat
    BY <1>7
  <2> QED
    BY <1>0, <2>1, <2>2, <2>3, RecursionType
<1> QED
  BY <1>7, <1>8 DEF e, More, len

\* What is put behind something is not before it.
LEMMA EndsGrow ==
  ASSUME NEW w \in Seq(Nat), NEW m \in 0..Len(w), NEW n \in 0..Len(w), m <= n
  PROVE  Ends(w)[m] <= Ends(w)[n]
<1> DEFINE e == Ends(w)
<1>1. e \in [0..Len(w) -> Nat] /\ \A k \in 1..Len(w) : e[k] = e[k - 1] + w[k]
  BY EndsValue
<1> HIDE DEF e
<1> DEFINE S == {k \in Nat : m + k <= Len(w) => e[m] <= e[m + k]}
<1>2. 0 \in S
  BY <1>1
<1>3. ASSUME NEW k \in S PROVE k + 1 \in S
  <2> SUFFICES ASSUME m + (k + 1) <= Len(w) PROVE e[m] <= e[m + (k + 1)]
    BY <1>3
  <2>1. m + (k + 1) \in 1..Len(w) /\ (m + (k + 1)) - 1 = m + k /\ m + k \in 0..Len(w)
    OBVIOUS
  <2>2. e[m + (k + 1)] = e[m + k] + w[m + (k + 1)] /\ w[m + (k + 1)] \in Nat
    BY <1>1, <2>1
  <2>a. m + k <= Len(w)
    BY <2>1
  <2>b. e[m] <= e[m + k]
    BY <1>3, <2>a
  <2>3. e[m] <= e[m + k] /\ e[m] \in Nat /\ e[m + k] \in Nat
    BY <1>1, <2>1, <2>b
  <2> QED
    BY <2>2, <2>3
<1>4. S = Nat
  <2> HIDE DEF S
  <2>1. S \subseteq Nat
    BY DEF S
  <2> QED
    BY <1>2, <1>3, <2>1, Induction
<1>5. n - m \in Nat /\ m + (n - m) = n /\ n <= Len(w)
  OBVIOUS
<1>6. e[m] <= e[m + (n - m)]
  BY <1>4, <1>5
<1>7. e[m] <= e[n]
  BY <1>5, <1>6
<1> QED
  BY <1>7 DEF e

-----------------------------------------------------------------------------
(* print_cpio.  All that the writer puts down is a multiple of four long,   *)
(* so rounding up a position is rounding up what is behind it.              *)

LEMMA Rounding ==
  ASSUME NEW n \in Nat
  PROVE  RoundUp(n) \in Nat /\ RoundUp(n) % 4 = 0 /\ n <= RoundUp(n)
BY DEF RoundUp

LEMMA RoundingUp ==
  ASSUME NEW at \in Nat, at % 4 = 0, NEW n \in Nat
  PROVE  Padded(at + n) = at + RoundUp(n)
BY DEF Padded, RoundUp

LEMMA RoundedSum ==
  ASSUME NEW m \in Nat, NEW n \in Nat, m % 4 = 0, n % 4 = 0
  PROVE  m + n \in Nat /\ (m + n) % 4 = 0
OBVIOUS

LEMMA ZeroRounded == RoundUp(0) = 0
BY DEF RoundUp

LEMMA FileFields ==
  ASSUME NEW e \in Files
  PROVE  e.namesize \in Nat /\ e.filesize \in Nat /\ e # TRAILER
<1>1. e.namesize \in Nat
  BY DEF Files
<1>2. e.filesize \in Nat
  BY DEF Files
<1>3. e.mode \in STRING \ {"trailer"}
  BY DEF Files
<1>4. e.mode # "trailer"
  BY <1>3
<1> QED
  BY <1>1, <1>2, <1>4 DEF TRAILER

Sizes(a) == [k \in DOMAIN a |-> EntrySize(a[k])]

LEMMA EntrySizes ==
  ASSUME NEW e, e.namesize \in Nat, e.filesize \in Nat
  PROVE  EntrySize(e) \in Nat /\ EntrySize(e) > 0 /\ EntrySize(e) % 4 = 0
<1> DEFINE a == RoundUp(HEADER + e.namesize)
           b == RoundUp(e.filesize)
<1>1. HEADER + e.namesize \in Nat /\ HEADER + e.namesize > 0
  BY DEF HEADER
<1>2. a \in Nat /\ a % 4 = 0 /\ HEADER + e.namesize <= a /\ b \in Nat /\ b % 4 = 0
  BY <1>1, Rounding
<1>3. EntrySize(e) = 0 + a + b
  BY DEF EntrySize, ContentAt
<1> HIDE DEF a, b
<1> QED
  BY <1>1, <1>2, <1>3

\* Where the entries are: each behind the one before it, all at multiples of four.
LEMMA EntryPlaces ==
  ASSUME archive \in Seq(Files)
  PROVE  /\ EntryAt(1) = 0
         /\ \A n \in 1..Len(archive) + 1 : EntryAt(n) \in Nat /\ EntryAt(n) % 4 = 0
         /\ \A n \in 1..Len(archive) : EntryAt(n + 1) = EntryAt(n) + EntrySize(archive[n])
         /\ \A m, n \in 1..Len(archive) + 1 : EntryAt(m) = EntryAt(n) => m = n
<1> DEFINE w == Sizes(archive)
           e == Ends(w)
<1>1. /\ w \in Seq(Nat) /\ Len(w) = Len(archive)
      /\ \A k \in 1..Len(w) : w[k] = EntrySize(archive[k]) /\ w[k] > 0 /\ w[k] % 4 = 0
  <2>1. \A k \in 1..Len(archive) : archive[k].namesize \in Nat /\ archive[k].filesize \in Nat
    <3>1. \A k \in 1..Len(archive) : archive[k] \in Files
      OBVIOUS
    <3> QED
      BY <3>1, FileFields
  <2>2. \A k \in 1..Len(archive) : /\ EntrySize(archive[k]) \in Nat
                                   /\ EntrySize(archive[k]) > 0
                                   /\ EntrySize(archive[k]) % 4 = 0
    BY <2>1, EntrySizes
  <2> QED
    BY <2>2 DEF Sizes
<1>len. w \in Seq(Nat) /\ Len(w) = Len(archive) /\ Len(w) \in Nat
  BY <1>1
<1>2. \A n : EntryAt(n) = e[n - 1]
  BY DEF EntryAt, Sizes
<1>3. /\ e \in [0..Len(w) -> Nat] /\ e[0] = 0
      /\ \A k \in 1..Len(w) : e[k] = e[k - 1] + w[k]
  BY <1>1, EndsValue
<1>4. \A m, n \in 0..Len(w) : m <= n => e[m] <= e[n]
  BY <1>1, EndsGrow
<1> HIDE DEF w, e
<1>5. \A k \in 0..Len(w) : e[k] % 4 = 0
  <2> DEFINE S == {k \in Nat : k <= Len(w) => e[k] % 4 = 0}
  <2>1. 0 \in S
    BY <1>3
  <2>2. ASSUME NEW k \in S PROVE k + 1 \in S
    <3> SUFFICES ASSUME k + 1 <= Len(w) PROVE e[k + 1] % 4 = 0
      BY <2>2
    <3>a. Len(w) \in Nat
      BY <1>1
    <3>1. e[k] % 4 = 0 /\ e[k] \in Nat /\ k + 1 \in 1..Len(w) /\ (k + 1) - 1 = k
      BY <1>3, <2>2, <3>a
    <3>2. e[k + 1] = e[k] + w[k + 1] /\ w[k + 1] % 4 = 0 /\ w[k + 1] \in Nat
      BY <1>1, <1>3, <3>1
    <3> QED
      BY <3>1, <3>2
  <2>3. S = Nat
    <3> HIDE DEF S
    <3>1. S \subseteq Nat
      BY DEF S
    <3> QED
      BY <2>1, <2>2, <3>1, Induction
  <2> QED
    BY <2>3
<1>6. \A n \in 1..Len(archive) : EntryAt(n + 1) = EntryAt(n) + EntrySize(archive[n])
  <2> TAKE n \in 1..Len(archive)
  <2>1. (n + 1) - 1 = n /\ n \in 1..Len(w)
    BY <1>1
  <2> QED
    BY <1>1, <1>2, <1>3, <2>1
<1>7. ASSUME NEW m \in 1..Len(archive) + 1, NEW n \in 1..Len(archive) + 1, m < n
      PROVE  EntryAt(m) < EntryAt(n)
  <2>1. m \in 1..Len(w) /\ m - 1 \in 0..Len(w) /\ n - 1 \in 0..Len(w) /\ m <= n - 1
    BY <1>1, <1>7
  <2>2. e[m] = e[m - 1] + w[m] /\ w[m] > 0 /\ e[m] <= e[n - 1]
    BY <1>1, <1>3, <1>4, <2>1
  <2>3. e[m - 1] \in Nat /\ e[m] \in Nat /\ e[n - 1] \in Nat /\ w[m] \in Nat
    <3>1. m \in 0..Len(w)
      BY <1>len, <2>1
    <3>2. \A k \in 0..Len(w) : e[k] \in Nat
      BY <1>3
    <3>3. \A k \in 1..Len(w) : w[k] \in Nat
      BY <1>len
    <3> HIDE <1>3, <1>len
    <3> QED
      BY <2>1, <3>1, <3>2, <3>3
  <2>4. e[m - 1] < e[n - 1]
    BY <2>2, <2>3
  <2> QED
    BY <1>2, <2>4
<1>8. \A n \in 1..Len(archive) + 1 : EntryAt(n) \in Nat /\ EntryAt(n) % 4 = 0
  <2> TAKE n \in 1..Len(archive) + 1
  <2>1. n - 1 \in 0..Len(w)
    BY <1>len
  <2>2. e[n - 1] \in Nat /\ e[n - 1] % 4 = 0
    BY <1>3, <1>5, <2>1
  <2> QED
    BY <1>2, <2>2
<1>9. \A m, n \in 1..Len(archive) + 1 : EntryAt(m) = EntryAt(n) => m = n
  BY <1>7, <1>8
<1> QED
  BY <1>2, <1>3, <1>6, <1>8, <1>9

\* Where a header is read there is the one of the entry that starts there.
LEMMA HeaderIsRead ==
  ASSUME archive \in Seq(Files), NEW n \in 1..Len(archive) + 1
  PROVE  HeaderAt(EntryAt(n)) = {Entry(n)}
<1>1. {m \in 1..Len(archive) + 1 : EntryAt(m) = EntryAt(n)} = {n}
  BY EntryPlaces
<1> QED
  BY <1>1 DEF HeaderAt

CpioTypes ==
    /\ archive \in Seq(Files)
    /\ cpc \in {"header", "name", "file", "end"}
    /\ listed \in Seq([file : Files, at : Nat])
    /\ Len(listed) <= Len(archive)

\* The entry that is read is the one behind those that are listed.
CpioPlace ==
    LET n == Len(listed) + 1
    IN  /\ cpc = "header" => cpos = EntryAt(n)
        /\ cpc = "name" => h = Entry(n) /\ cpos = EntryAt(n) + HEADER
        /\ cpc = "file" => /\ n <= Len(archive) /\ h = archive[n]
                           /\ cpos = ContentAt(EntryAt(n), h)
        /\ cpc = "end" => Len(listed) = Len(archive)

CpioListed ==
    \A n \in DOMAIN listed : /\ listed[n].file = archive[n]
                             /\ listed[n].at = ContentAt(EntryAt(n), archive[n])

CpioInv == CpioTypes /\ CpioPlace /\ CpioListed

LEMMA CpioStarts == CpioInit => CpioInv
<1> SUFFICES ASSUME CpioInit PROVE CpioInv
  OBVIOUS
<1>1. archive \in Seq(Files) /\ listed = <<>> /\ cpc = "header" /\ cpos = 0
  BY CpioAssumption DEF CpioInit, CpioStart
<1>2. EntryAt(1) = 0
  BY <1>1, EntryPlaces
<1>3. Len(listed) = 0 /\ Len(listed) + 1 = 1 /\ DOMAIN listed = {}
  BY <1>1
<1> QED
  BY <1>1, <1>2, <1>3 DEF CpioInv, CpioTypes, CpioPlace, CpioListed

LEMMA ReadHeaderStep == CpioInv /\ ReadHeader => CpioInv'
<1> SUFFICES ASSUME CpioInv, ReadHeader PROVE CpioInv'
  OBVIOUS
<1> USE DEF CpioInv
<1>1. /\ cpc = "header" /\ cpc' = "name" /\ archive' = archive /\ listed' = listed
      /\ h' \in HeaderAt(cpos) /\ cpos' = cpos + HEADER
  BY DEF ReadHeader
<1> DEFINE n == Len(listed) + 1
<1>2. n \in 1..Len(archive) + 1
  BY DEF CpioTypes
<1>3. cpos = EntryAt(n)
  BY <1>1 DEF CpioPlace
<1>4. h' = Entry(n)
  BY <1>1, <1>2, <1>3, HeaderIsRead DEF CpioTypes
<1>5. CpioPlace'
  BY <1>1, <1>3, <1>4 DEF CpioPlace, Entry, EntryAt
<1> QED
  BY <1>1, <1>5 DEF CpioTypes, CpioListed, ContentAt, EntryAt

LEMMA ReadNameStep == CpioInv /\ ReadName => CpioInv'
<1> SUFFICES ASSUME CpioInv, ReadName PROVE CpioInv'
  OBVIOUS
<1> USE DEF CpioInv
<1>1. cpc = "name" /\ archive' = archive /\ listed' = listed /\ h' = h
  BY DEF ReadName
<1> DEFINE n == Len(listed) + 1
<1>2. n \in 1..Len(archive) + 1 /\ Len(listed) \in Nat /\ Len(archive) \in Nat
  BY DEF CpioTypes
<1>3. h = Entry(n) /\ cpos = EntryAt(n) + HEADER
  BY <1>1 DEF CpioPlace
<1>4. n <= Len(archive) => archive[n] \in Files /\ h = archive[n] /\ h # TRAILER
  <2> SUFFICES ASSUME n <= Len(archive)
               PROVE  archive[n] \in Files /\ h = archive[n] /\ h # TRAILER
    OBVIOUS
  <2>1. archive[n] \in Files /\ h = archive[n]
    BY <1>2, <1>3 DEF CpioTypes, Entry
  <2> QED
    BY <2>1, FileFields
<1>5. CASE h = TRAILER
  <2>1. cpc' = "end" /\ Len(listed) = Len(archive)
    BY <1>2, <1>4, <1>5 DEF ReadName, CpioTypes
  <2>2. CpioPlace'
    BY <1>1, <2>1 DEF CpioPlace
  <2> QED
    BY <1>1, <2>1, <2>2 DEF CpioTypes, CpioListed, ContentAt, EntryAt
<1>6. CASE h # TRAILER
  <2>1. cpc' = "file" /\ cpos' = Padded(cpos + h.namesize)
    BY <1>6 DEF ReadName
  <2>2. n <= Len(archive)
    BY <1>2, <1>3, <1>6 DEF Entry
  <2>3. h.namesize \in Nat /\ HEADER + h.namesize \in Nat
    BY <1>4, <2>2, FileFields DEF HEADER
  <2>4. EntryAt(n) \in Nat /\ EntryAt(n) % 4 = 0
    BY <1>2, EntryPlaces DEF CpioTypes
  <2>5. Padded(EntryAt(n) + (HEADER + h.namesize)) = ContentAt(EntryAt(n), h)
    BY <2>3, <2>4, RoundingUp DEF ContentAt
  <2>6. cpos + h.namesize = EntryAt(n) + (HEADER + h.namesize)
    BY <1>3, <2>3, <2>4 DEF HEADER
  <2>7. CpioPlace'
    BY <1>1, <1>4, <2>1, <2>2, <2>5, <2>6 DEF CpioPlace, ContentAt, EntryAt
  <2> QED
    BY <1>1, <2>1, <2>7 DEF CpioTypes, CpioListed, ContentAt, EntryAt
<1> QED
  BY <1>5, <1>6

LEMMA ReadFileStep == CpioInv /\ ReadFile => CpioInv'
<1> SUFFICES ASSUME CpioInv, ReadFile PROVE CpioInv'
  OBVIOUS
<1> USE DEF CpioInv
<1>1. /\ cpc = "file" /\ cpc' = "header" /\ archive' = archive /\ h' = h
      /\ cpos' = IF h.filesize > 0 THEN Padded(cpos + h.filesize) ELSE cpos
      /\ listed' = Append(listed, [file |-> h, at |-> cpos])
  BY DEF ReadFile
<1> DEFINE n == Len(listed) + 1
<1>2. n \in 1..Len(archive) /\ h = archive[n] /\ cpos = ContentAt(EntryAt(n), h)
  BY <1>1 DEF CpioPlace, CpioTypes
<1>3. h \in Files /\ h.filesize \in Nat /\ h.namesize \in Nat
  BY <1>2, FileFields DEF CpioTypes
<1>4. EntryAt(n) \in Nat /\ EntryAt(n) % 4 = 0 /\ EntryAt(n + 1) = EntryAt(n) + EntrySize(h)
  BY <1>2, EntryPlaces DEF CpioTypes
<1> DEFINE a == RoundUp(HEADER + h.namesize)
<1>5. a \in Nat /\ a % 4 = 0 /\ RoundUp(h.filesize) \in Nat
  BY <1>3, Rounding DEF HEADER
<1>6. cpos = EntryAt(n) + a /\ EntrySize(h) = 0 + a + RoundUp(h.filesize)
  BY <1>2 DEF ContentAt, EntrySize
<1> HIDE DEF a
<1> DEFINE e == EntryAt(n)
<1> HIDE DEF e
<1>0. e \in Nat /\ e % 4 = 0 /\ cpos = e + a
  BY <1>4, <1>6 DEF e
<1>7. cpos \in Nat /\ cpos % 4 = 0
  BY <1>5, <1>0, RoundedSum
<1>8. cpos' = cpos + RoundUp(h.filesize)
  <2>1. CASE h.filesize > 0
    BY <1>1, <1>3, <1>7, <2>1, RoundingUp
  <2>2. CASE ~(h.filesize > 0)
    <3>1. h.filesize = 0
      BY <1>3, <2>2
    <3>2. cpos' = cpos /\ RoundUp(h.filesize) = 0
      BY <1>1, <2>2, <3>1, ZeroRounded
    <3> QED
      BY <1>7, <3>2
  <2> QED
    BY <2>1, <2>2
<1>9. cpos' = EntryAt(n + 1)
  BY <1>4, <1>5, <1>6, <1>8
<1>10. /\ listed' \in Seq([file : Files, at : Nat]) /\ Len(listed') = n
       /\ listed'[n] = [file |-> h, at |-> cpos]
       /\ \A m \in DOMAIN listed : listed'[m] = listed[m]
       /\ DOMAIN listed = 1..Len(listed) /\ DOMAIN listed' = 1..n
  BY <1>1, <1>3, <1>7 DEF CpioTypes
<1>11. Len(listed) \in Nat
  BY DEF CpioTypes
<1>12. CpioTypes'
  BY <1>1, <1>2, <1>10 DEF CpioTypes
<1>13. CpioPlace'
  BY <1>1, <1>9, <1>10 DEF CpioPlace, EntryAt
<1>14. CpioListed'
  <2> SUFFICES ASSUME NEW m \in DOMAIN listed'
               PROVE  /\ listed'[m].file = archive[m]
                      /\ listed'[m].at = ContentAt(EntryAt(m), archive[m])
    BY <1>1 DEF CpioListed, ContentAt, EntryAt
  <2>1. CASE m = n
    BY <1>2, <1>10, <2>1
  <2>2. CASE m # n
    <3>1. m \in DOMAIN listed
      BY <1>10, <1>11, <2>2
    <3> QED
      BY <1>10, <3>1 DEF CpioListed
  <2> QED
    BY <2>1, <2>2
<1> QED
  BY <1>12, <1>13, <1>14

LEMMA CpioStep == CpioInv /\ [CpioNext]_cpioVars => CpioInv'
<1> SUFFICES ASSUME CpioInv, [CpioNext]_cpioVars PROVE CpioInv'
  OBVIOUS
<1>1. CASE CpioNext
  BY <1>1, ReadHeaderStep, ReadNameStep, ReadFileStep DEF CpioNext
<1>2. CASE UNCHANGED cpioVars
  BY <1>2 DEF cpioVars, CpioInv, CpioTypes, CpioPlace, CpioListed, ContentAt, EntryAt, Entry
<1> QED
  BY <1>1, <1>2

LEMMA CpioGood == CpioInv => CpioInSync
<1> SUFFICES ASSUME CpioInv PROVE CpioInSync
  OBVIOUS
<1> USE DEF CpioInv
<1> DEFINE n == Len(listed) + 1
<1>1. n \in 1..Len(archive) + 1 /\ DOMAIN listed = 1..Len(listed) /\ Len(archive) \in Nat
      /\ Len(listed) \in Nat /\ Len(listed) <= Len(archive)
  BY DEF CpioTypes
<1>2. cpc = "header" => HeaderAt(cpos) # {}
  BY <1>1, HeaderIsRead DEF CpioTypes, CpioPlace
<1>3. \A m \in DOMAIN listed : m <= Len(archive)
  BY <1>1
<1> QED
  BY <1>2, <1>3 DEF CpioInSync, CpioPlace, CpioListed

\* print_cpio finds every header where one starts, lists the files of the
\* archive in order with the place of their contents, and gets to the trailer:
\* main counts on each entry being padded like the one before it.
THEOREM ArchiveListed == CpioSpec => []CpioInSync
<1>1. CpioInit => CpioInv
  BY CpioStarts
<1>2. CpioInv /\ [CpioNext]_cpioVars => CpioInv'
  BY CpioStep
<1>3. CpioInv => CpioInSync
  BY CpioGood
<1> QED
  BY <1>1, <1>2, <1>3, PTL DEF CpioSpec

-----------------------------------------------------------------------------
(* read-frm.                                                               *)

\* Tables the reader is made for: two bytes hold the end of the file, and 4096
\* the forminfo and the 1000 bytes that make_new_entry sets aside with it.
Narrow == FileEnd < Word /\ MaxLength = IO_SIZE

KeyWidths  == [k \in DOMAIN frm.keys |-> 8 + 9 * frm.keys[k].segs]
NameWidths == [k \in DOMAIN frm.keys |-> frm.keys[k].name + 1]
KeyEnds  == Ends(KeyWidths)
NameEnds == Ends(NameWidths)
Keys    == Len(frm.keys)
Cols == Len(frm.columns)

FrmTypes == frm \in TableType /\ fi \in Nat /\ fi > 0

\* In the loops the pointer is behind what they have been over.
FrmLoops ==
    /\ fpc = "keys" => fi <= Keys + 1 /\ fp = IO_SIZE + 6 + KeyEnds[fi - 1]
    /\ fpc = "key_names" => fi <= Keys + 1 /\ fp = IO_SIZE + KeysSize + 1 + NameEnds[fi - 1]
    /\ fpc = "columns" /\ Narrow => fi <= Cols + 1 /\ fp = ColumnsAt + 17 * (fi - 1)

FrmPlaces ==
    /\ fpc = "record"  => fp = RecordAt
    /\ fpc = "connect" => fp = ConnectAt
    /\ fpc = "db_type" => fp = DbTypeAt
    /\ fpc = "comment" => fp = CommentAt
    /\ fpc = "column_names" /\ fi = 1 /\ Narrow => fp = ColNamesAt

FrmForminfo == Narrow => ForminfoFound

FrmInv == FrmTypes /\ FrmLoops /\ FrmPlaces /\ FrmForminfo

LEMMA IoSizeNat == ASSUME NEW n \in Nat PROVE IoSize(n) \in Nat
BY DEF IoSize, IO_SIZE


LEMMA KeyFields ==
  ASSUME NEW keys \in Seq([segs : Nat, name : Nat]), NEW k \in 1..Len(keys)
  PROVE  keys[k].segs \in Nat /\ keys[k].name \in Nat
<1>1. keys[k] \in [segs : Nat, name : Nat]
  BY ElementOf
<1> QED
  BY <1>1

\* The widths that the loops add up.
LEMMA Widths ==
  ASSUME FrmTypes
  PROVE  /\ Keys \in Nat /\ Cols \in Nat
         /\ KeyWidths \in Seq(Nat) /\ Len(KeyWidths) = Keys
         /\ NameWidths \in Seq(Nat) /\ Len(NameWidths) = Keys
         /\ \A k \in 1..Keys : /\ frm.keys[k].segs \in Nat
                               /\ frm.keys[k].name \in Nat
                               /\ KeyWidths[k] = 8 + 9 * frm.keys[k].segs
                               /\ NameWidths[k] = frm.keys[k].name + 1
<1> DEFINE keys == frm.keys
<1>1. keys \in Seq([segs : Nat, name : Nat]) /\ frm.columns \in Seq(Nat)
  BY DEF FrmTypes, TableType
<1>2. KeyWidths = [k \in DOMAIN keys |-> 8 + 9 * keys[k].segs]
      /\ NameWidths = [k \in DOMAIN keys |-> keys[k].name + 1] /\ Keys = Len(keys)
  BY DEF KeyWidths, NameWidths, Keys
<1>3. Cols \in Nat
  BY <1>1 DEF Cols
<1> HIDE DEF keys
<1>4. DOMAIN keys = 1..Keys /\ Keys \in Nat
  BY <1>1, <1>2
<1>5. \A k \in 1..Keys : keys[k].segs \in Nat /\ keys[k].name \in Nat
  BY <1>1, <1>2, KeyFields
<1>6. KeyWidths \in Seq(Nat) /\ Len(KeyWidths) = Keys
      /\ \A k \in 1..Keys : KeyWidths[k] = 8 + 9 * keys[k].segs
  <2>1. \A k \in 1..Keys : 8 + 9 * keys[k].segs \in Nat
    BY <1>5
  <2> QED
    BY <1>2, <1>4, <2>1
<1>7. NameWidths \in Seq(Nat) /\ Len(NameWidths) = Keys
      /\ \A k \in 1..Keys : NameWidths[k] = keys[k].name + 1
  <2>1. \A k \in 1..Keys : keys[k].name + 1 \in Nat
    BY <1>5
  <2> QED
    BY <1>2, <1>4, <2>1
<1> QED
  BY <1>3, <1>4, <1>5, <1>6, <1>7 DEF keys

\* The step of each of the two loops over the keys, and what they come to.
LEMMA KeyLoops ==
  ASSUME FrmTypes
  PROVE  /\ Keys \in Nat /\ Cols \in Nat
         /\ KeyEnds[0] = 0 /\ NameEnds[0] = 0
         /\ \A k \in 0..Keys : KeyEnds[k] \in Nat /\ NameEnds[k] \in Nat
         /\ \A k \in 1..Keys :
               /\ frm.keys[k].segs \in Nat /\ frm.keys[k].name \in Nat
               /\ KeyEnds[k] = KeyEnds[k - 1] + (8 + 9 * frm.keys[k].segs)
               /\ NameEnds[k] = NameEnds[k - 1] + (frm.keys[k].name + 1)
         /\ KeysSize = 6 + KeyEnds[Keys]
         /\ NamesSize = 1 + NameEnds[Keys]
<1> DEFINE K == Ends(KeyWidths)
           N == Ends(NameWidths)
<1>1. /\ K \in [0..Keys -> Nat] /\ K[0] = 0
      /\ \A k \in 1..Keys : K[k] = K[k - 1] + KeyWidths[k]
  BY Widths, EndsValue
<1>2. /\ N \in [0..Keys -> Nat] /\ N[0] = 0
      /\ \A k \in 1..Keys : N[k] = N[k - 1] + NameWidths[k]
  BY Widths, EndsValue
<1>3. KeysSize = 6 + K[Keys]
  BY Widths DEF KeysSize, End, KeyWidths
<1>4. NamesSize = 1 + N[Keys]
  BY Widths DEF NamesSize, End, NameWidths
<1>5. KeyEnds = K /\ NameEnds = N
  BY DEF KeyEnds, NameEnds
<1> HIDE DEF K, N
<1>6. \A k \in 1..Keys : /\ KeyEnds[k] = KeyEnds[k - 1] + (8 + 9 * frm.keys[k].segs)
                        /\ NameEnds[k] = NameEnds[k - 1] + (frm.keys[k].name + 1)
  BY <1>1, <1>2, <1>5, Widths
<1>7. \A k \in 0..Keys : KeyEnds[k] \in Nat /\ NameEnds[k] \in Nat
  BY <1>1, <1>2, <1>5
<1> QED
  BY <1>1, <1>2, <1>3, <1>4, <1>5, <1>6, <1>7, Widths

LEMMA FrmNumbers ==
  ASSUME FrmTypes
  PROVE  /\ KeysSize \in Nat /\ NamesSize \in Nat /\ KeybuffLen \in Nat
         /\ RecordAt \in Nat /\ ConnectAt \in Nat /\ DbTypeAt \in Nat /\ CommentAt \in Nat
         /\ FilePos \in Nat /\ ColumnsAt \in Nat
<1>1. /\ frm.recordLen \in Nat /\ frm.connect \in Nat /\ frm.engine \in Nat
      /\ frm.longComment \in Nat /\ frm.screens \in Nat
  BY DEF FrmTypes, TableType
<1>2. KeysSize \in Nat /\ NamesSize \in Nat
  <2>1. Keys \in 0..Keys
    BY KeyLoops
  <2> QED
    BY <2>1, KeyLoops
<1>3. KeybuffLen \in Nat /\ RecordAt \in Nat
  BY <1>2 DEF KeybuffLen, RecordAt, IO_SIZE
<1>4. ConnectAt \in Nat
  BY <1>1, <1>3 DEF ConnectAt
<1>5. DbTypeAt \in Nat /\ DbTypeAt >= ConnectAt
  BY <1>1, <1>4 DEF DbTypeAt
<1>6. CommentAt \in Nat /\ CommentAt >= ConnectAt
  BY <1>1, <1>4, <1>5 DEF CommentAt
<1>7. ConnectAt + ExtraSize \in Nat
  BY <1>1, <1>4, <1>6 DEF ExtraSize
<1>8. FilePos \in Nat
  BY <1>7, IoSizeNat DEF FilePos
<1>9. ColumnsAt \in Nat
  BY <1>1, <1>8 DEF ColumnsAt
<1> QED
  BY <1>2, <1>3, <1>4, <1>5, <1>6, <1>8, <1>9

\* Everything the writer did stays.
LEMMA FrmStays ==
  ASSUME frm' = frm
  PROVE  /\ Keys' = Keys /\ Cols' = Cols
         /\ KeyEnds' = KeyEnds /\ NameEnds' = NameEnds
         /\ KeysSize' = KeysSize /\ NamesSize' = NamesSize /\ KeybuffLen' = KeybuffLen
         /\ RecordAt' = RecordAt /\ ConnectAt' = ConnectAt /\ DbTypeAt' = DbTypeAt
         /\ CommentAt' = CommentAt /\ FilePos' = FilePos /\ ColumnsAt' = ColumnsAt
         /\ ColNamesAt' = ColNamesAt /\ Narrow' = Narrow
<1>1. KeyWidths' = KeyWidths /\ NameWidths' = NameWidths /\ Keys' = Keys /\ Cols' = Cols
  BY DEF KeyWidths, NameWidths, Keys, Cols
<1>10. KeyEnds' = KeyEnds /\ NameEnds' = NameEnds
  BY <1>1 DEF KeyEnds, NameEnds
<1>2. KeysSize' = KeysSize /\ NamesSize' = NamesSize
  BY DEF KeysSize, NamesSize
<1>3. RecordAt' = RecordAt /\ KeybuffLen' = KeybuffLen
  BY <1>2 DEF RecordAt, KeybuffLen
<1>4. ConnectAt' = ConnectAt
  BY <1>3 DEF ConnectAt
<1>5. CommentAt' = CommentAt /\ DbTypeAt' = DbTypeAt
  BY <1>4 DEF CommentAt, DbTypeAt
<1>6. ExtraSize' = ExtraSize
  BY <1>4, <1>5 DEF ExtraSize
<1>7. FilePos' = FilePos
  BY <1>4, <1>6 DEF FilePos
<1>8. ColumnsAt' = ColumnsAt /\ ColNamesAt' = ColNamesAt
  BY <1>7 DEF ColumnsAt, ColNamesAt
<1>9. Narrow' = Narrow
  BY <1>7 DEF Narrow, FileEnd, MaxLength
<1> QED
  BY <1>1, <1>2, <1>3, <1>4, <1>5, <1>7, <1>8, <1>9, <1>10

\* What a step has to show.
LEMMA FrmGoesOn ==
  ASSUME FrmInv, frm' = frm, fi' \in Nat, fi' > 0,
         Narrow /\ fpc' \notin {"fileinfo", "exit"} => forminfoOffset' = FilePos,
         fpc' = "keys" => fi' <= Keys + 1 /\ fp' = IO_SIZE + 6 + KeyEnds[fi' - 1],
         fpc' = "key_names" => /\ fi' <= Keys + 1
                               /\ fp' = IO_SIZE + KeysSize + 1 + NameEnds[fi' - 1],
         fpc' = "columns" /\ Narrow => /\ fi' <= Cols + 1
                                       /\ fp' = ColumnsAt + 17 * (fi' - 1),
         fpc' = "record"  => fp' = RecordAt,
         fpc' = "connect" => fp' = ConnectAt,
         fpc' = "db_type" => fp' = DbTypeAt,
         fpc' = "comment" => fp' = CommentAt,
         fpc' = "column_names" /\ fi' = 1 /\ Narrow => fp' = ColNamesAt
  PROVE  FrmInv'
<1>1. FrmTypes' /\ FrmForminfo'
  BY FrmStays DEF FrmInv, FrmTypes, FrmForminfo, ForminfoFound
<1>2. FrmLoops'
  BY FrmStays DEF FrmLoops, IO_SIZE
<1>3. FrmPlaces'
  BY FrmStays DEF FrmPlaces
<1> QED
  BY <1>1, <1>2, <1>3 DEF FrmInv

LEMMA FrmStarts == FrmInit => FrmInv
<1> SUFFICES ASSUME FrmInit PROVE FrmInv
  OBVIOUS
<1>1. frm \in TableType /\ fpc = "fileinfo" /\ fi = 1
  BY FrmAssumption DEF FrmInit, FrmStart
<1> QED
  BY <1>1 DEF FrmInv, FrmTypes, FrmLoops, FrmPlaces, FrmForminfo, ForminfoFound

\* Only the places of the section the reader goes to have to be shown.
LEMMA FrmExits ==
  ASSUME FrmInv, exitFrm, frm' = frm
  PROVE  FrmInv'
<1>1. fpc' = "exit" /\ fi' = fi
  BY DEF exitFrm
<1> QED
  BY <1>1 DEF FrmInv, FrmTypes, FrmLoops, FrmPlaces, FrmForminfo, ForminfoFound

LEMMA ReadFileinfoStep == FrmInv /\ ReadFileinfo => FrmInv'
<1> SUFFICES ASSUME FrmInv, ReadFileinfo PROVE FrmInv'
  OBVIOUS
<1>1. frm' = frm /\ forminfoOffset' = ((FileEnd % Word) - IO_SIZE) % Word
  BY DEF ReadFileinfo
<1>2. CASE exitFrm
  BY <1>1, <1>2, FrmExits
<1>3. CASE Goto("keys", IO_SIZE + 6)
  <2>1. fpc' = "keys" /\ fp' = IO_SIZE + 6 /\ fi' = 1 /\ fi' - 1 = 0
    BY <1>3 DEF Goto
  <2>2. FrmTypes
    BY DEF FrmInv
  <2>3. Narrow => forminfoOffset' = FilePos
    <3> SUFFICES ASSUME Narrow PROVE forminfoOffset' = FilePos
      OBVIOUS
    <3>1. FilePos \in Nat /\ FileEnd = FilePos + IO_SIZE /\ FileEnd < Word
      BY <2>2, FrmNumbers DEF Narrow, FileEnd
    <3>2. FileEnd % Word = FileEnd /\ (FileEnd - IO_SIZE) % Word = FilePos
      BY <3>1 DEF Word, IO_SIZE
    <3> QED
      BY <1>1, <3>2
  <2>4. fi' <= Keys + 1 /\ fp' = IO_SIZE + 6 + KeyEnds[fi' - 1]
    BY <2>1, <2>2, KeyLoops DEF IO_SIZE
  <2> QED
    BY <1>1, <2>1, <2>3, <2>4, FrmGoesOn
<1> QED
  BY <1>2, <1>3 DEF ReadFileinfo

LEMMA ReadKeyStep == FrmInv /\ ReadKey => FrmInv'
<1> SUFFICES ASSUME FrmInv, ReadKey PROVE FrmInv'
  OBVIOUS
<1>1. frm' = frm /\ forminfoOffset' = forminfoOffset /\ fpc = "keys"
  BY DEF ReadKey
<1>2. /\ FrmTypes /\ fi \in Nat /\ fi > 0 /\ Keys \in Nat /\ fi <= Keys + 1
      /\ fp = IO_SIZE + 6 + KeyEnds[fi - 1] /\ Keys = Len(frm.keys)
  BY <1>1, KeyLoops DEF FrmInv, FrmLoops, FrmTypes, Keys
<1>3. Narrow => forminfoOffset' = FilePos
  BY <1>1 DEF FrmInv, FrmForminfo, ForminfoFound
<1>4. CASE fi > Keys
  <2>1. fpc' = "key_names" /\ fp' = fp + 1 /\ fi' = 1
    BY <1>2, <1>4 DEF ReadKey, Goto
  <2>2. fi - 1 = Keys /\ fi' - 1 = 0 /\ KeyEnds[Keys] \in Nat /\ fi' <= Keys + 1
    BY <1>2, <1>4, <2>1, KeyLoops
  <2>3. fp = IO_SIZE + 6 + KeyEnds[Keys] /\ KeysSize = 6 + KeyEnds[Keys]
    BY <1>2, <2>2, KeyLoops
  <2>4. fp' = IO_SIZE + KeysSize + 1 + NameEnds[fi' - 1]
    <3> DEFINE a == KeyEnds[Keys]
    <3>1. NameEnds[fi' - 1] = 0
      BY <1>2, <2>2, KeyLoops
    <3>2. a \in Nat /\ fp = IO_SIZE + 6 + a /\ KeysSize = 6 + a /\ fp' = fp + 1
      BY <2>1, <2>2, <2>3
    <3> HIDE DEF a
    <3> QED
      BY <3>1, <3>2 DEF IO_SIZE
  <2> QED
    BY <1>1, <1>3, <2>1, <2>2, <2>4, FrmGoesOn
<1>5. CASE ~(fi > Keys) /\ exitFrm
  BY <1>1, <1>5, FrmExits
<1>6. CASE /\ ~(fi > Keys)
           /\ fp' = fp + 8 + 9 * frm.keys[fi].segs /\ fi' = fi + 1 /\ fpc' = fpc
  <2>0. fi \in Nat /\ fi > 0 /\ Keys \in Nat /\ ~(fi > Keys) /\ fi' = fi + 1
    BY <1>2, <1>6
  <2>1. fi \in 1..Keys /\ fi' - 1 = fi /\ fi' \in Nat /\ fi' > 0 /\ fi' <= Keys + 1
        /\ fi - 1 \in 0..Keys
    BY <2>0
  <2>2. /\ frm.keys[fi].segs \in Nat
        /\ KeyEnds[fi] = KeyEnds[fi - 1] + (8 + 9 * frm.keys[fi].segs)
        /\ KeyEnds[fi - 1] \in Nat
    BY <1>2, <2>1, KeyLoops
  <2>3. fp' = IO_SIZE + 6 + KeyEnds[fi' - 1]
    <3> DEFINE a == KeyEnds[fi - 1]
               b == 9 * frm.keys[fi].segs
    <3>1. b \in Nat
      BY <2>2
    <3>2. KeyEnds[fi' - 1] = a + (8 + b)
      BY <2>1, <2>2
    <3>3. a \in Nat /\ fp = IO_SIZE + 6 + a
      BY <1>2, <2>2
    <3>4. fp' = fp + 8 + b
      BY <1>6
    <3> HIDE DEF a, b
    <3> QED
      BY <3>1, <3>2, <3>3, <3>4 DEF IO_SIZE
  <2> QED
    BY <1>1, <1>3, <1>6, <2>1, <2>3, FrmGoesOn
<1> QED
  BY <1>2, <1>4, <1>5, <1>6 DEF ReadKey

LEMMA ReadKeyNameStep == FrmInv /\ ReadKeyName => FrmInv'
<1> SUFFICES ASSUME FrmInv, ReadKeyName PROVE FrmInv'
  OBVIOUS
<1>1. frm' = frm /\ forminfoOffset' = forminfoOffset /\ fpc = "key_names"
  BY DEF ReadKeyName
<1>2. /\ FrmTypes /\ fi \in Nat /\ fi > 0 /\ Keys \in Nat /\ fi <= Keys + 1
      /\ fp = IO_SIZE + KeysSize + 1 + NameEnds[fi - 1] /\ Keys = Len(frm.keys)
  BY <1>1, KeyLoops DEF FrmInv, FrmLoops, FrmTypes, Keys
<1>3. Narrow => forminfoOffset' = FilePos
  BY <1>1 DEF FrmInv, FrmForminfo, ForminfoFound
<1>4. CASE fi > Keys
  <2>1. fpc' = "forminfo" /\ fi' = 1
    BY <1>2, <1>4 DEF ReadKeyName, Goto
  <2> QED
    BY <1>1, <1>3, <2>1, FrmGoesOn
<1>5. CASE ~(fi > Keys)
  <2>0. fp' = fp + frm.keys[fi].name + 1 /\ fi' = fi + 1 /\ fpc' = fpc
    BY <1>2, <1>5 DEF ReadKeyName
  <2>1. fi \in 1..Keys /\ fi' - 1 = fi /\ fi' \in Nat /\ fi' > 0 /\ fi' <= Keys + 1
        /\ fi - 1 \in 0..Keys
    BY <1>2, <1>5, <2>0
  <2>2. /\ frm.keys[fi].name \in Nat
        /\ NameEnds[fi] = NameEnds[fi - 1] + (frm.keys[fi].name + 1)
        /\ NameEnds[fi - 1] \in Nat /\ KeysSize \in Nat
    BY <1>2, <2>1, KeyLoops, FrmNumbers
  <2>3. fp' = IO_SIZE + KeysSize + 1 + NameEnds[fi' - 1]
    <3> DEFINE a == NameEnds[fi - 1]
               b == frm.keys[fi].name
    <3>1. a \in Nat /\ b \in Nat /\ fp = IO_SIZE + KeysSize + 1 + a /\ fp' = fp + b + 1
          /\ NameEnds[fi' - 1] = a + (b + 1) /\ KeysSize \in Nat
      BY <1>2, <2>0, <2>1, <2>2
    <3> HIDE DEF a, b
    <3> QED
      BY <3>1 DEF IO_SIZE
  <2> QED
    BY <1>1, <1>3, <2>0, <2>1, <2>3, FrmGoesOn
<1> QED
  BY <1>4, <1>5

\* The sections from the forminfo to the columns.
LEMMA SectionStep ==
  FrmInv /\ (ReadForminfo \/ ReadRecord \/ ReadConnect \/ ReadDbType \/ ReadComment) => FrmInv'
<1> SUFFICES ASSUME FrmInv,
                    ReadForminfo \/ ReadRecord \/ ReadConnect \/ ReadDbType \/ ReadComment
             PROVE  FrmInv'
  OBVIOUS
<1>1. /\ frm' = frm /\ forminfoOffset' = forminfoOffset
      /\ fpc \in {"forminfo", "record", "connect", "db_type", "comment"}
  BY DEF ReadForminfo, ReadRecord, ReadConnect, ReadDbType, ReadComment
<1>2. FrmTypes /\ Cols \in Nat /\ 1 <= Cols + 1 /\ 17 * (1 - 1) = 0
      /\ Cols = Len(frm.columns) /\ ColumnsAt \in Nat
  BY KeyLoops, FrmNumbers DEF FrmInv, Cols
<1>3. Narrow => forminfoOffset' = FilePos
  BY <1>1 DEF FrmInv, FrmForminfo, ForminfoFound
<1>4. CASE ReadForminfo
  <2>1. CASE exitFrm
    BY <1>1, <2>1, FrmExits
  <2>2. CASE Goto("record", IO_SIZE + KeybuffLen)
    <3>1. fpc' = "record" /\ fi' = 1 /\ fp' = RecordAt
      BY <2>2 DEF Goto, RecordAt
    <3> QED
      BY <1>1, <1>3, <3>1, FrmGoesOn
  <2> QED
    BY <1>4, <2>1, <2>2 DEF ReadForminfo
<1>5. CASE ReadRecord
  <2>1. fpc' = "connect" /\ fi' = 1 /\ fp' = ConnectAt
    BY <1>5 DEF ReadRecord, Goto, ConnectAt, FrmInv, FrmPlaces
  <2> QED
    BY <1>1, <1>3, <2>1, FrmGoesOn
<1>6. CASE ReadConnect
  <2>1. fpc' = "db_type" /\ fi' = 1 /\ fp' = DbTypeAt
    BY <1>6 DEF ReadConnect, Goto, DbTypeAt, FrmInv, FrmPlaces
  <2> QED
    BY <1>1, <1>3, <2>1, FrmGoesOn
<1>7. CASE ReadDbType
  <2>1. fpc' = "comment" /\ fi' = 1 /\ fp' = CommentAt
    BY <1>7 DEF ReadDbType, Goto, CommentAt, FrmInv, FrmPlaces
  <2> QED
    BY <1>1, <1>3, <2>1, FrmGoesOn
<1>8. CASE ReadComment
  <2>1. fpc' = "columns" /\ fi' = 1 /\ fp' = forminfoOffset + 288 + frm.screens
    BY <1>8 DEF ReadComment, Goto
  <2>2. Narrow => fp' = ColumnsAt
    BY <1>1, <1>3, <2>1 DEF ColumnsAt
  <2>3. Narrow => fi' <= Cols + 1 /\ fp' = ColumnsAt + 17 * (fi' - 1)
    BY <1>2, <2>1, <2>2
  <2> QED
    BY <1>1, <1>3, <2>1, <2>3, FrmGoesOn
<1> QED
  BY <1>4, <1>5, <1>6, <1>7, <1>8

LEMMA ReadColumnStep == FrmInv /\ ReadColumn => FrmInv'
<1> SUFFICES ASSUME FrmInv, ReadColumn PROVE FrmInv'
  OBVIOUS
<1>1. frm' = frm /\ forminfoOffset' = forminfoOffset /\ fpc = "columns"
  BY DEF ReadColumn
<1>2. FrmTypes /\ Cols \in Nat /\ fi \in Nat /\ fi > 0 /\ ColumnsAt \in Nat
      /\ Cols = Len(frm.columns)
  BY KeyLoops, FrmNumbers DEF FrmInv, FrmTypes, Cols
<1>3. Narrow => forminfoOffset' = FilePos
  BY <1>1 DEF FrmInv, FrmForminfo, ForminfoFound
<1>4. Narrow => fi <= Cols + 1 /\ fp = ColumnsAt + 17 * (fi - 1)
  BY <1>1 DEF FrmInv, FrmLoops
<1>5. CASE fi > Cols
  <2>1. fpc' = "column_names" /\ fp' = fp + 1 /\ fi' = 1
    BY <1>2, <1>5 DEF ReadColumn, Goto
  <2>2. ColNamesAt = ColumnsAt + 17 * Cols + 1
    BY <1>2 DEF ColNamesAt
  <2>3. Narrow => fp' = ColNamesAt
    BY <1>2, <1>4, <1>5, <2>1, <2>2
  <2> QED
    BY <1>1, <1>3, <2>1, <2>3, FrmGoesOn
<1>6. CASE ~(fi > Cols)
  <2>1. fpc' = "columns" /\ fp' = fp + 17 /\ fi' = fi + 1
    BY <1>1, <1>2, <1>6 DEF ReadColumn
  <2>2. Narrow => fi' <= Cols + 1 /\ fp' = ColumnsAt + 17 * (fi' - 1)
    BY <1>2, <1>4, <1>6, <2>1
  <2>3. fi' \in Nat /\ fi' > 0
    BY <1>2, <2>1
  <2> QED
    BY <1>1, <1>3, <2>1, <2>2, <2>3, FrmGoesOn
<1> QED
  BY <1>5, <1>6

LEMMA ReadColumnNameStep == FrmInv /\ ReadColumnName => FrmInv'
<1> SUFFICES ASSUME FrmInv, ReadColumnName PROVE FrmInv'
  OBVIOUS
<1>1. frm' = frm /\ forminfoOffset' = forminfoOffset /\ fpc = "column_names"
  BY DEF ReadColumnName
<1>2. fi \in Nat /\ fi > 0
  BY DEF FrmInv, FrmTypes
<1>3. Narrow => forminfoOffset' = FilePos
  BY <1>1 DEF FrmInv, FrmForminfo, ForminfoFound
<1>4. CASE fpc' = "done" /\ fi' = fi
  BY <1>1, <1>2, <1>3, <1>4, FrmGoesOn
<1>5. CASE fpc' = fpc /\ fi' = fi + 1
  <2>1. fi' \in Nat /\ fi' > 0 /\ fi' # 1
    BY <1>2, <1>5
  <2> QED
    BY <1>1, <1>3, <1>5, <2>1, FrmGoesOn
<1> QED
  BY <1>4, <1>5 DEF ReadColumnName

LEMMA FrmStep == FrmInv /\ [FrmNext]_frmVars => FrmInv'
<1> SUFFICES ASSUME FrmInv, [FrmNext]_frmVars PROVE FrmInv'
  OBVIOUS
<1>1. CASE FrmNext
  BY <1>1, ReadFileinfoStep, ReadKeyStep, ReadKeyNameStep, SectionStep,
     ReadColumnStep, ReadColumnNameStep DEF FrmNext
<1>2. CASE UNCHANGED frmVars
  <2>1. frm' = frm /\ fpc' = fpc /\ fp' = fp /\ fi' = fi /\ forminfoOffset' = forminfoOffset
    BY <1>2 DEF frmVars
  <2> QED
    BY <2>1, FrmStays DEF FrmInv, FrmTypes, FrmLoops, FrmPlaces, FrmForminfo, ForminfoFound
<1> QED
  BY <1>1, <1>2

LEMMA FrmGood == FrmInv => (Narrow => FrmInSync /\ ForminfoFound)
<1> SUFFICES ASSUME FrmInv, Narrow PROVE FrmInSync /\ ForminfoFound
  OBVIOUS
<1>1. FrmTypes /\ Keys \in Nat /\ fi \in Nat /\ fi > 0 /\ Keys = Len(frm.keys)
  BY KeyLoops DEF FrmInv, FrmTypes, Keys
<1>2. fpc = "keys" /\ fi > Keys => fp = IO_SIZE + KeysSize
  <2> SUFFICES ASSUME fpc = "keys", fi > Keys PROVE fp = IO_SIZE + KeysSize
    OBVIOUS
  <2>1. fi <= Keys + 1 /\ fp = IO_SIZE + 6 + KeyEnds[fi - 1]
    BY DEF FrmInv, FrmLoops
  <2>2. fi - 1 = Keys /\ Keys \in 0..Keys
    BY <1>1, <2>1
  <2>3. fp = IO_SIZE + 6 + KeyEnds[Keys] /\ KeysSize = 6 + KeyEnds[Keys] /\ KeyEnds[Keys] \in Nat
    BY <1>1, <2>1, <2>2, KeyLoops
  <2> QED
    BY <2>3 DEF IO_SIZE
<1>3. fpc = "key_names" /\ fi > Keys => fp = IO_SIZE + KeysSize + NamesSize
  <2> SUFFICES ASSUME fpc = "key_names", fi > Keys
               PROVE  fp = IO_SIZE + KeysSize + NamesSize
    OBVIOUS
  <2>1. fi <= Keys + 1 /\ fp = IO_SIZE + KeysSize + 1 + NameEnds[fi - 1]
    BY DEF FrmInv, FrmLoops
  <2>2. fi - 1 = Keys /\ Keys \in 0..Keys
    BY <1>1, <2>1
  <2>3. /\ fp = IO_SIZE + KeysSize + 1 + NameEnds[Keys] /\ NamesSize = 1 + NameEnds[Keys]
        /\ NameEnds[Keys] \in Nat
    BY <1>1, <2>1, <2>2, KeyLoops
  <2>4. KeysSize \in Nat
    BY <1>1, FrmNumbers
  <2> QED
    BY <2>3, <2>4 DEF IO_SIZE
<1>4. fpc = "columns" /\ fi = 1 => fp = ColumnsAt
  <2> SUFFICES ASSUME fpc = "columns", fi = 1 PROVE fp = ColumnsAt
    OBVIOUS
  <2>1. fp = ColumnsAt + 17 * (fi - 1)
    BY DEF FrmInv, FrmLoops
  <2>2. ColumnsAt \in Nat
    BY <1>1, FrmNumbers
  <2> QED
    BY <2>1, <2>2
<1>5. FrmPlaces
  BY DEF FrmInv
<1>6. FrmInSync
  BY <1>1, <1>2, <1>3, <1>4, <1>5 DEF FrmInSync, FrmPlaces
<1> QED
  BY <1>6 DEF FrmInv, FrmForminfo

\* read-frm's pointer is where the writer put the section it reads next, and it
\* finds the forminfo, for any table that is narrow: the only assumption that
\* main's "fileinfo[10] minus 0x1000" needs.
THEOREM SectionsFound == FrmSpec => [](Narrow => FrmInSync /\ ForminfoFound)
<1>1. FrmInit => FrmInv
  BY FrmStarts
<1>2. FrmInv /\ [FrmNext]_frmVars => FrmInv'
  BY FrmStep
<1>3. FrmInv => (Narrow => FrmInSync /\ ForminfoFound)
  BY FrmGood
<1> QED
  BY <1>1, <1>2, <1>3, PTL DEF FrmSpec

-----------------------------------------------------------------------------
(* print_elf64.                                                            *)

NoteWidths(ph) == [k \in DOMAIN ph.notes |-> NoteSize(ph.notes[k])]

LEMMA NoteFields ==
  ASSUME NEW list \in Seq([name : Nat, desc : Nat]), NEW k \in 1..Len(list)
  PROVE  list[k].name \in Nat /\ list[k].desc \in Nat
<1>1. list[k] \in [name : Nat, desc : Nat]
  BY ElementOf
<1> QED
  BY <1>1

LEMMA PaddedSizes ==
  ASSUME NEW n \in Nat
  PROVE  Padded4(n) \in Nat /\ (n % 4 = 0 => Padded4(n) = n)
BY DEF Padded4

LEMMA NoteSizes ==
  ASSUME NEW note, note.name \in Nat, note.desc \in Nat
  PROVE  /\ NoteSize(note) \in Nat /\ NoteSize(note) > 0
         /\ note.name % 4 = 0 /\ note.desc % 4 = 0 =>
               NoteSize(note) = 12 + note.name + note.desc
<1>1. Padded4(note.name) \in Nat /\ Padded4(note.desc) \in Nat
  BY PaddedSizes
<1>2. NoteSize(note) = 12 + Padded4(note.name) + Padded4(note.desc)
  BY DEF NoteSize
<1>3. note.name % 4 = 0 => Padded4(note.name) = note.name
  BY PaddedSizes
<1>4. note.desc % 4 = 0 => Padded4(note.desc) = note.desc
  BY PaddedSizes
<1> QED
  BY <1>1, <1>2, <1>3, <1>4

\* Where the notes of a segment are.
LEMMA NotePlaces ==
  ASSUME NEW ph \in SegmentType
  PROVE  /\ Len(ph.notes) \in Nat /\ DOMAIN ph.notes = 1..Len(ph.notes)
         /\ \A n \in 1..Len(ph.notes) : ph.notes[n].name \in Nat /\ ph.notes[n].desc \in Nat
         /\ NoteStart(ph, 1) = 0
         /\ FileSize(ph) = NoteStart(ph, Len(ph.notes) + 1)
         /\ \A n \in 1..Len(ph.notes) + 1 : NoteStart(ph, n) \in Nat
         /\ \A n \in 1..Len(ph.notes) + 1 : NoteStart(ph, n) <= FileSize(ph)
         /\ \A n \in 1..Len(ph.notes) :
               /\ NoteStart(ph, n + 1) = NoteStart(ph, n) + NoteSize(ph.notes[n])
               /\ NoteSize(ph.notes[n]) \in Nat
         /\ \A m, n \in 1..Len(ph.notes) + 1 : NoteStart(ph, m) = NoteStart(ph, n) => m = n
<1> DEFINE list == ph.notes
           w == NoteWidths(ph)
           e == Ends(w)
<1>1. list \in Seq([name : Nat, desc : Nat])
  BY DEF SegmentType
<1>2. w = [k \in DOMAIN list |-> NoteSize(list[k])] /\ \A n : NoteStart(ph, n) = e[n - 1]
  BY DEF NoteWidths, NoteStart
<1>3. FileSize(ph) = NoteStart(ph, Len(list) + 1)
  BY DEF FileSize
<1> HIDE DEF list, w
<1>4. Len(list) \in Nat /\ DOMAIN list = 1..Len(list)
  BY <1>1
<1>5. \A n \in 1..Len(list) : list[n].name \in Nat /\ list[n].desc \in Nat
  BY <1>1, NoteFields
<1>6. \A n \in 1..Len(list) : NoteSize(list[n]) \in Nat /\ NoteSize(list[n]) > 0
  BY <1>5, NoteSizes
<1>7. w \in Seq(Nat) /\ Len(w) = Len(list) /\ \A n \in 1..Len(list) : w[n] = NoteSize(list[n])
  BY <1>2, <1>4, <1>6
<1>8. e \in [0..Len(w) -> Nat] /\ e[0] = 0 /\ \A k \in 1..Len(w) : e[k] = e[k - 1] + w[k]
  BY <1>7, EndsValue
<1>9. \A m, n \in 0..Len(w) : m <= n => e[m] <= e[n]
  BY <1>7, EndsGrow
<1> HIDE DEF e
<1>10. \A n \in 1..Len(list) + 1 : NoteStart(ph, n) \in Nat
  <2> TAKE n \in 1..Len(list) + 1
  <2>1. n - 1 \in 0..Len(w)
    BY <1>4, <1>7
  <2> QED
    BY <1>2, <1>8, <2>1
<1>11. \A n \in 1..Len(list) + 1 : NoteStart(ph, n) <= FileSize(ph)
  <2> TAKE n \in 1..Len(list) + 1
  <2>1. n - 1 \in 0..Len(w) /\ (Len(list) + 1) - 1 \in 0..Len(w) /\ n - 1 <= (Len(list) + 1) - 1
    BY <1>4, <1>7
  <2> QED
    BY <1>2, <1>3, <1>9, <2>1
<1>12. \A n \in 1..Len(list) : NoteStart(ph, n + 1) = NoteStart(ph, n) + NoteSize(list[n])
  <2> TAKE n \in 1..Len(list)
  <2>1. (n + 1) - 1 = n /\ n \in 1..Len(w)
    BY <1>7
  <2> QED
    BY <1>2, <1>7, <1>8, <2>1
<1>13. ASSUME NEW m \in 1..Len(list) + 1, NEW n \in 1..Len(list) + 1, m < n
       PROVE  NoteStart(ph, m) < NoteStart(ph, n)
  <2>1. m \in 1..Len(list) /\ m + 1 \in 1..Len(list) + 1 /\ m \in 0..Len(w)
        /\ n - 1 \in 0..Len(w) /\ m <= n - 1 /\ (m + 1) - 1 = m
    BY <1>4, <1>7, <1>13
  <2>2. NoteStart(ph, m + 1) <= NoteStart(ph, n)
    BY <1>2, <1>9, <2>1
  <2>3. NoteStart(ph, m + 1) = NoteStart(ph, m) + NoteSize(list[m]) /\ NoteSize(list[m]) \in Nat
        /\ NoteSize(list[m]) > 0
    BY <1>6, <1>12, <2>1
  <2>4. NoteStart(ph, m) \in Nat /\ NoteStart(ph, n) \in Nat
    BY <1>10
  <2> QED
    BY <2>2, <2>3, <2>4
<1>14. \A m, n \in 1..Len(list) + 1 : NoteStart(ph, m) = NoteStart(ph, n) => m = n
  BY <1>10, <1>13
<1>15. NoteStart(ph, 1) = 0
  BY <1>2, <1>8
<1> QED
  BY <1>3, <1>4, <1>5, <1>6, <1>10, <1>11, <1>12, <1>14, <1>15 DEF list

Pointers == Names \cup {"names", "symtab", "dynsym"}

ElfTypes ==
    /\ elf \in ElfType
    /\ ei \in Nat /\ ej \in Nat /\ notes \in Nat /\ noteCount \in Int
    /\ DOMAIN found = Pointers

SegmentsInv ==
    /\ epc = "segments" => ei <= Len(elf.segments)
    /\ epc \in {"notes", "dynamic"} => ei < Len(elf.segments)

SectionsInv ==
    /\ epc = "sections" => ei <= Len(elf.sections)
    /\ epc = "rela" => ei < Len(elf.sections)

\* pt_note_count is never behind the notes, unless it looks like a large number;
\* a plain segment is read note by note.
NotesInv ==
    epc = "notes" =>
        /\ noteCount >= 0 => notes <= noteCount
        /\ Plain(Segment) =>
              \E n \in 1..Len(Segment.notes) + 1 : notes = NoteStart(Segment, n)

RelaInv == epc = "rela" => ej < Section(ei).count \/ ej = 0

\* Without the table of names no section is known by its name.
NamesInv == found["names"] = Undef => \A t \in Names : found[t] = Undef

KilledInv == epc = "killed" => found["names"] = Undef /\ Section(ei).type = "RELA"

ElfInv == ElfTypes /\ SegmentsInv /\ SectionsInv /\ NotesInv /\ RelaInv /\ NamesInv /\ KilledInv

LEMMA ElfStarts == ElfInit => ElfInv
<1> SUFFICES ASSUME ElfInit PROVE ElfInv
  OBVIOUS
<1>1. /\ elf \in ElfType /\ noteCount \in Int /\ epc = "segments" /\ ei = 0 /\ ej = 0 /\ notes = 0
      /\ found = [t \in Pointers |-> Undef]
  BY ElfAssumption DEF ElfInit, ElfStart, Pointers
<1>2. NamesInv
  BY <1>1 DEF NamesInv, Pointers
<1>3. Len(elf.segments) \in Nat
  BY <1>1 DEF ElfType
<1>4. SegmentsInv
  BY <1>1, <1>3 DEF SegmentsInv
<1> QED
  BY <1>1, <1>2, <1>4 DEF ElfInv, ElfTypes, SectionsInv, NotesInv, RelaInv, KilledInv

LEMMA SegmentOK ==
  ASSUME elf \in ElfType, ei \in Nat, ei < Len(elf.segments)
  PROVE  Segment \in SegmentType
<1> DEFINE list == elf.segments
<1>1. list \in Seq(SegmentType)
  BY DEF ElfType
<1>2. ei + 1 \in 1..Len(list)
  BY <1>1
<1>3. Segment = list[ei + 1]
  BY DEF Segment
<1> HIDE DEF list
<1> QED
  BY <1>1, <1>2, <1>3, ElementOf

\* Which loop the reader is in decides what has to be shown.
LEMMA ElfGoesOn ==
  ASSUME ElfInv, elf' = elf, ei' \in Nat, ej' \in Nat, notes' \in Nat, noteCount' \in Int,
         found' = found, epc' \notin {"notes", "rela", "killed"},
         epc' = "sections" => ei' <= Len(elf.sections),
         epc' = "segments" => ei' <= Len(elf.segments),
         epc' = "dynamic" => ei' < Len(elf.segments)
  PROVE  ElfInv'
BY DEF ElfInv, ElfTypes, SegmentsInv, SectionsInv, NotesInv, RelaInv, NamesInv, KilledInv

LEMMA SegmentCount == ElfInv => Len(elf.segments) \in Nat /\ Len(elf.sections) \in Nat
BY DEF ElfInv, ElfTypes, ElfType

LEMMA NextSegmentStep ==
  ASSUME ElfInv, NextSegment, epc \in {"segments", "notes", "dynamic"}, ei # Len(elf.segments),
         elf' = elf, found' = found, notes' = notes, noteCount' = noteCount
  PROVE  ElfInv'
<1>1. ei \in Nat /\ ej \in Nat /\ notes \in Nat /\ noteCount \in Int /\ Len(elf.segments) \in Nat
  BY SegmentCount DEF ElfInv, ElfTypes
<1>2. ei' = ei + 1 /\ epc' = "segments" /\ ej' = ej
  BY DEF NextSegment
<1>3. ei <= Len(elf.segments)
  BY <1>1 DEF ElfInv, SegmentsInv
<1>4. ei' \in Nat /\ ei' <= Len(elf.segments)
  BY <1>1, <1>2, <1>3
<1> QED
  BY <1>1, <1>2, <1>4, ElfGoesOn

LEMMA ReadSegmentStep == ElfInv /\ ReadSegment => ElfInv'
<1> SUFFICES ASSUME ElfInv, ReadSegment PROVE ElfInv'
  OBVIOUS
<1>1. elf' = elf /\ noteCount' = noteCount /\ found' = found /\ epc = "segments"
  BY DEF ReadSegment
<1>2. ei \in Nat /\ ej \in Nat /\ notes \in Nat /\ noteCount \in Int /\ elf \in ElfType
      /\ Len(elf.segments) \in Nat /\ ei <= Len(elf.segments)
  BY <1>1, SegmentCount DEF ElfInv, ElfTypes, SegmentsInv
<1>3. CASE epc' = "names" /\ UNCHANGED <<ei, ej, notes>>
  BY <1>1, <1>2, <1>3, ElfGoesOn
<1>4. CASE ei # Len(elf.segments) /\ epc' = "dynamic" /\ ej' = 0 /\ UNCHANGED <<ei, notes>>
  <2>1. ei < Len(elf.segments)
    BY <1>2, <1>4
  <2> QED
    BY <1>1, <1>2, <1>4, <2>1, ElfGoesOn
<1>5. CASE ei # Len(elf.segments) /\ NextSegment /\ UNCHANGED notes
  BY <1>1, <1>5, NextSegmentStep
<1>6. CASE ei # Len(elf.segments) /\ epc' = "notes" /\ notes' = 0 /\ UNCHANGED <<ei, ej>>
  <2>1. ei < Len(elf.segments)
    BY <1>2, <1>6
  <2>2. Segment \in SegmentType
    BY <1>2, <2>1, SegmentOK
  <2>3. /\ NoteStart(Segment, 1) = 0 /\ Len(Segment.notes) \in Nat
    BY <2>2, NotePlaces
  <2>4. Segment' = Segment /\ notes' = NoteStart(Segment, 1) /\ 1 \in 1..Len(Segment.notes) + 1
    BY <1>1, <1>6, <2>3 DEF Segment
  <2>5. NotesInv'
    BY <1>1, <1>2, <1>6, <2>4 DEF NotesInv
  <2>6. ElfTypes' /\ SegmentsInv'
    BY <1>1, <1>2, <1>6, <2>1 DEF ElfInv, ElfTypes, SegmentsInv
  <2> QED
    BY <1>1, <1>6, <2>5, <2>6 DEF ElfInv, SectionsInv, RelaInv, NamesInv, KilledInv
<1> QED
  BY <1>3, <1>4, <1>5, <1>6 DEF ReadSegment

\* What the reader takes for a length is a number; where a note starts it is
\* that note's, if it fits in a byte.
LEMMA LengthsAt ==
  ASSUME Segment \in SegmentType, NEW at, NEW name \in LengthAt(at, "name"),
         NEW desc \in LengthAt(at, "desc")
  PROVE  /\ name \in Nat /\ desc \in Nat
         /\ \A n \in 1..Len(Segment.notes) :
               /\ at = NoteStart(Segment, n)
               /\ Segment.notes[n].name < 256 /\ Segment.notes[n].desc < 256
               => name = Segment.notes[n].name /\ desc = Segment.notes[n].desc
<1> DEFINE list == Segment.notes
           here == {n \in DOMAIN list : NoteStart(Segment, n) = at}
<1>1. /\ name \in IF here = {} THEN {0, 4, 255} ELSE {list[n]["name"] % 256 : n \in here}
      /\ desc \in IF here = {} THEN {0, 4, 255} ELSE {list[n]["desc"] % 256 : n \in here}
  BY DEF LengthAt
<1>2. /\ DOMAIN list = 1..Len(list)
      /\ \A n \in 1..Len(list) : list[n].name \in Nat /\ list[n].desc \in Nat
      /\ \A m, n \in 1..Len(list) + 1 : NoteStart(Segment, m) = NoteStart(Segment, n) => m = n
      /\ Len(list) \in Nat
  BY NotePlaces
<1>3. here \subseteq 1..Len(list)
  BY <1>2
<1>4. \A n \in 1..Len(list) : at = NoteStart(Segment, n) => here = {n}
  <2> SUFFICES ASSUME NEW n \in 1..Len(list), at = NoteStart(Segment, n) PROVE here = {n}
    OBVIOUS
  <2>1. n \in here
    BY <1>2
  <2>2. \A m \in here : m \in 1..Len(list) + 1 /\ n \in 1..Len(list) + 1
    BY <1>2, <1>3
  <2>3. \A m \in here : m = n
    BY <1>2, <2>2
  <2> QED
    BY <2>1, <2>3
<1> HIDE DEF here, list
<1>5. CASE here = {}
  BY <1>1, <1>4, <1>5 DEF list
<1>6. CASE here # {}
  <2>1. PICK m \in here : name = list[m].name % 256
    BY <1>1, <1>6
  <2>2. PICK k \in here : desc = list[k].desc % 256
    BY <1>1, <1>6
  <2>3. list[m].name \in Nat /\ list[k].desc \in Nat
    BY <1>2, <1>3
  <2>4. name \in Nat /\ desc \in Nat
    BY <2>1, <2>2, <2>3
  <2>5. ASSUME NEW n \in 1..Len(list), at = NoteStart(Segment, n), list[n].name < 256,
               list[n].desc < 256
        PROVE  name = list[n].name /\ desc = list[n].desc
    <3>1. m = n /\ k = n
      BY <1>4, <2>5
    <3>2. list[n].name \in Nat /\ list[n].desc \in Nat
      BY <1>2
    <3>3. list[n].name % 256 = list[n].name /\ list[n].desc % 256 = list[n].desc
      BY <2>5, <3>2
    <3> QED
      BY <2>1, <2>2, <3>1, <3>3
  <2> QED
    BY <2>4, <2>5 DEF list
<1> QED
  BY <1>5, <1>6

LEMMA ReadNoteStep == ElfInv /\ ReadNote => ElfInv'
<1> SUFFICES ASSUME ElfInv, ReadNote PROVE ElfInv'
  OBVIOUS
<1>1. elf' = elf /\ found' = found /\ epc = "notes"
  BY DEF ReadNote
<1>2. ei \in Nat /\ ej \in Nat /\ notes \in Nat /\ noteCount \in Int /\ elf \in ElfType
      /\ Len(elf.segments) \in Nat /\ ei < Len(elf.segments)
  BY <1>1, SegmentCount DEF ElfInv, ElfTypes, SegmentsInv
<1>3. CASE NextSegment /\ UNCHANGED <<notes, noteCount>>
  BY <1>1, <1>2, <1>3, NextSegmentStep
<1>4. CASE /\ noteCount \in 0 .. FileSize(Segment) - 1
           /\ \E name \in LengthAt(notes, "name"), desc \in LengthAt(notes, "desc") :
                 /\ notes' = notes + 12 + name + desc
                 /\ noteCount' = noteCount + 12 + name + desc
           /\ UNCHANGED <<epc, ei, ej>>
  <2>1. PICK name \in LengthAt(notes, "name"), desc \in LengthAt(notes, "desc") :
                 /\ notes' = notes + 12 + name + desc
                 /\ noteCount' = noteCount + 12 + name + desc
    BY <1>4
  <2>2. Segment \in SegmentType
    BY <1>2, SegmentOK
  <2> DEFINE list == Segment.notes
             count == Len(list)
             size == FileSize(Segment)
  <2>3. /\ name \in Nat /\ desc \in Nat
        /\ \A n \in 1..count : /\ notes = NoteStart(Segment, n)
                              /\ list[n].name < 256 /\ list[n].desc < 256
                              => name = list[n].name /\ desc = list[n].desc
    BY <2>2, LengthsAt
  <2>4. notes <= noteCount /\ noteCount >= 0
    BY <1>1, <1>4 DEF ElfInv, NotesInv
  <2>5. notes' \in Nat /\ noteCount' \in Int /\ notes' <= noteCount'
    BY <1>2, <2>1, <2>3, <2>4
  <2>6. /\ count \in Nat /\ DOMAIN list = 1..count
        /\ \A n \in 1..count : list[n].name \in Nat /\ list[n].desc \in Nat
        /\ size = NoteStart(Segment, count + 1)
        /\ \A n \in 1..count + 1 : NoteStart(Segment, n) \in Nat
        /\ \A n \in 1..count : NoteStart(Segment, n + 1) = NoteStart(Segment, n) + NoteSize(list[n])
    BY <2>2, NotePlaces
  <2>7. ASSUME Plain(Segment)
        PROVE  \E n \in 1..count + 1 : notes' = NoteStart(Segment, n)
    <3>1. PICK n \in 1..count + 1 : notes = NoteStart(Segment, n)
      BY <1>1, <2>7 DEF ElfInv, NotesInv
    <3>2. notes < size
      <4>1. size \in Nat
        BY <2>6
      <4> QED
        BY <1>2, <1>4, <2>4, <4>1
    <3>3. n \in 1..count /\ n + 1 \in 1..count + 1
      <4>1. n # count + 1
        BY <1>2, <2>6, <3>1, <3>2
      <4> QED
        BY <2>6, <4>1
    <3>4. /\ list[n].name % 4 = 0 /\ list[n].name < 256
          /\ list[n].desc % 4 = 0 /\ list[n].desc < 256
      BY <2>6, <2>7, <3>3 DEF Plain
    <3>5. name = list[n].name /\ desc = list[n].desc
      BY <2>3, <3>1, <3>3, <3>4
    <3>6. NoteSize(list[n]) = 12 + name + desc
      BY <2>6, <3>3, <3>4, <3>5, NoteSizes
    <3>7. NoteStart(Segment, n + 1) = notes + (12 + name + desc)
      BY <2>6, <3>1, <3>3, <3>6
    <3>8. notes' = NoteStart(Segment, n + 1)
      BY <1>2, <2>1, <2>3, <3>7
    <3> QED
      BY <3>3, <3>8
  <2>8. Segment' = Segment
    BY <1>1, <1>4 DEF Segment
  <2>9. NotesInv'
    BY <2>5, <2>7, <2>8 DEF NotesInv
  <2>10. ElfTypes' /\ SegmentsInv'
    BY <1>1, <1>2, <1>4, <2>5 DEF ElfInv, ElfTypes, SegmentsInv
  <2> QED
    BY <1>1, <1>4, <2>9, <2>10 DEF ElfInv, SectionsInv, RelaInv, NamesInv, KilledInv
<1> QED
  <2>1. ei # Len(elf.segments)
    BY <1>2
  <2> QED
    BY <1>3, <1>4 DEF ReadNote

LEMMA ReadDynamicStep == ElfInv /\ ReadDynamic => ElfInv'
<1> SUFFICES ASSUME ElfInv, ReadDynamic PROVE ElfInv'
  OBVIOUS
<1>1. elf' = elf /\ found' = found /\ notes' = notes /\ noteCount' = noteCount /\ epc = "dynamic"
  BY DEF ReadDynamic
<1>2. ei \in Nat /\ ej \in Nat /\ notes \in Nat /\ noteCount \in Int
      /\ Len(elf.segments) \in Nat /\ ei < Len(elf.segments)
  BY <1>1, SegmentCount DEF ElfInv, ElfTypes, SegmentsInv
<1>3. CASE NextSegment
  BY <1>1, <1>2, <1>3, NextSegmentStep
<1>4. CASE ej' = ej + 1 /\ UNCHANGED <<epc, ei>>
  <2>1. ej' \in Nat
    BY <1>2, <1>4
  <2> QED
    BY <1>1, <1>2, <1>4, <2>1, ElfGoesOn
<1> QED
  BY <1>3, <1>4 DEF ReadDynamic

LEMMA FindNamesStep == ElfInv /\ FindNames => ElfInv'
<1> SUFFICES ASSUME ElfInv, FindNames PROVE ElfInv'
  OBVIOUS
<1>1. /\ elf' = elf /\ notes' = notes /\ noteCount' = noteCount /\ epc' = "sections"
      /\ ei' = 0 /\ ej' = ej
      /\ found' = found \/ found' = [found EXCEPT !["names"] = elf.shstrndx]
  BY DEF FindNames
<1>2. DOMAIN found' = Pointers /\ \A t \in Names : found'[t] = found[t]
  BY <1>1 DEF ElfInv, ElfTypes, Pointers, Names
<1>3. NamesInv'
  <2> SUFFICES ASSUME found'["names"] = Undef, NEW t \in Names PROVE found'[t] = Undef
    BY DEF NamesInv
  <2>1. CASE found' = found
    BY <2>1 DEF ElfInv, NamesInv
  <2>2. CASE found' = [found EXCEPT !["names"] = elf.shstrndx]
    <3>1. elf.shstrndx \in Nat
      BY DEF ElfInv, ElfTypes, ElfType
    <3>2. found'["names"] = elf.shstrndx
      BY <2>2 DEF ElfInv, ElfTypes, Pointers
    <3> QED
      BY <3>1, <3>2, ElfAssumption
  <2> QED
    BY <1>1, <2>1, <2>2
<1> QED
  BY <1>1, <1>2, <1>3, SegmentCount DEF ElfInv, ElfTypes, SegmentsInv, SectionsInv, NotesInv, RelaInv, KilledInv

\* A section that is kept: not as the table of names, and by its name only if
\* there is one.
LEMMA FoundStep ==
  ASSUME ElfInv, NEW k,
         found' = [t \in DOMAIN found |-> IF t \in FoundAt(k) THEN k ELSE found[t]]
  PROVE  NamesInv' /\ DOMAIN found' = Pointers /\ found'["names"] = found["names"]
<1>1. DOMAIN found = Pointers /\ "names" \in Pointers /\ Names \subseteq Pointers
  BY DEF ElfInv, ElfTypes, Pointers
<1>2. "names" \notin FoundAt(k)
  BY DEF FoundAt, Names
<1>3. found'["names"] = found["names"]
  BY <1>1, <1>2
<1>4. \A t \in Names : t \in FoundAt(k) => found["names"] # Undef
  BY DEF FoundAt, Names
<1>5. NamesInv'
  BY <1>1, <1>3, <1>4 DEF ElfInv, NamesInv
<1> QED
  BY <1>1, <1>3, <1>5

LEMMA ReadSectionStep == ElfInv /\ ReadSection => ElfInv'
<1> SUFFICES ASSUME ElfInv, ReadSection PROVE ElfInv'
  OBVIOUS
<1>1. elf' = elf /\ notes' = notes /\ noteCount' = noteCount /\ epc = "sections"
  BY DEF ReadSection
<1>2. ei \in Nat /\ ej \in Nat /\ notes \in Nat /\ noteCount \in Int /\ ei <= Len(elf.sections)
      /\ Len(elf.sections) \in Nat
  BY <1>1, SegmentCount DEF ElfInv, ElfTypes, SectionsInv
<1>3. CASE ei = Len(elf.sections)
  <2>1. epc' = "symtab" /\ ei' = 0 /\ ej' = ej /\ found' = found
    BY <1>3 DEF ReadSection
  <2> QED
    BY <1>1, <1>2, <2>1, ElfGoesOn
<1>4. CASE ei # Len(elf.sections)
  <2>1. found' = [t \in DOMAIN found |-> IF t \in FoundAt(ei) THEN ei ELSE found[t]]
    BY <1>4 DEF ReadSection
  <2>2. NamesInv' /\ DOMAIN found' = Pointers /\ found'["names"] = found["names"]
    BY <2>1, FoundStep
  <2>3. ei < Len(elf.sections)
    BY <1>2, <1>4
  <2>4. CASE Section(ei).type # "RELA"
    <3>1. ei' = ei + 1 /\ epc' = epc /\ ej' = ej
      BY <1>4, <2>4 DEF ReadSection
    <3>2. ei' \in Nat /\ ei' <= Len(elf.sections)
      BY <1>2, <2>3, <3>1
    <3> QED
      BY <1>1, <1>2, <2>2, <3>1, <3>2
      DEF ElfInv, ElfTypes, SegmentsInv, SectionsInv, NotesInv, RelaInv, KilledInv
  <2>5. CASE Section(ei).type = "RELA" /\ found["names"] = Undef
    <3>1. epc' = "killed" /\ ei' = ei /\ ej' = ej
      BY <1>4, <2>5 DEF ReadSection
    <3>2. Section(ei)' = Section(ei)
      BY <1>1, <3>1 DEF Section
    <3>3. KilledInv'
      BY <2>2, <2>5, <3>2 DEF KilledInv
    <3> QED
      BY <1>1, <1>2, <2>2, <3>1, <3>3
      DEF ElfInv, ElfTypes, SegmentsInv, SectionsInv, NotesInv, RelaInv
  <2>6. CASE Section(ei).type = "RELA" /\ found["names"] # Undef
    <3>1. epc' = "rela" /\ ej' = 0 /\ ei' = ei
      BY <1>4, <2>6 DEF ReadSection
    <3> QED
      BY <1>1, <1>2, <2>2, <2>3, <3>1
      DEF ElfInv, ElfTypes, SegmentsInv, SectionsInv, NotesInv, RelaInv, KilledInv
  <2> QED
    BY <2>4, <2>5, <2>6
<1> QED
  BY <1>3, <1>4

LEMMA SectionCount ==
  ASSUME elf \in ElfType, NEW k \in Nat, k < Len(elf.sections)
  PROVE  Section(k).count \in Nat
<1> DEFINE list == elf.sections
<1>1. list \in Seq(SectionType)
  BY DEF ElfType
<1>2. k + 1 \in 1..Len(list)
  BY <1>1
<1>3. Section(k) = list[k + 1]
  BY DEF Section
<1> HIDE DEF list
<1>4. Section(k) \in SectionType
  BY <1>1, <1>2, <1>3, ElementOf
<1> QED
  BY <1>4 DEF SectionType

LEMMA ReadRelaStep == ElfInv /\ ReadRela => ElfInv'
<1> SUFFICES ASSUME ElfInv, ReadRela PROVE ElfInv'
  OBVIOUS
<1>1. /\ elf' = elf /\ notes' = notes /\ noteCount' = noteCount /\ found' = found /\ epc = "rela"
  BY DEF ReadRela
<1>2. ei \in Nat /\ ej \in Nat /\ notes \in Nat /\ noteCount \in Int /\ elf \in ElfType
      /\ ei < Len(elf.sections) /\ Len(elf.sections) \in Nat
  BY <1>1, SegmentCount DEF ElfInv, ElfTypes, SectionsInv
<1>3. CASE ei' = ei + 1 /\ epc' = "sections" /\ UNCHANGED ej
  <2>1. ei' \in Nat /\ ei' <= Len(elf.sections)
    BY <1>2, <1>3
  <2> QED
    BY <1>1, <1>2, <1>3, <2>1, ElfGoesOn
<1>4. CASE ej < Section(ei).count - 1 /\ ej' = ej + 1 /\ UNCHANGED <<epc, ei>>
  <2>1. Section(ei)' = Section(ei)
    BY <1>1, <1>4 DEF Section
  <2>2. ej' \in Nat
    BY <1>2, <1>4
  <2>3. Section(ei).count \in Nat
    BY <1>2, SectionCount
  <2>4. ej' < Section(ei).count
    BY <1>2, <1>4, <2>3
  <2>5. RelaInv'
    BY <2>1, <2>4, <1>4 DEF RelaInv
  <2> QED
    BY <1>1, <1>2, <1>4, <2>2, <2>5
    DEF ElfInv, ElfTypes, SegmentsInv, SectionsInv, NotesInv, NamesInv, KilledInv
<1> QED
  BY <1>3, <1>4 DEF ReadRela

\* No symbol is printed that needs the table of names without it.
LEMMA ReadTableStep == ElfInv /\ ReadTable => ElfInv'
<1> SUFFICES ASSUME ElfInv, ReadTable PROVE ElfInv'
  OBVIOUS
<1>1. /\ elf' = elf /\ ej' = ej /\ notes' = notes /\ noteCount' = noteCount /\ found' = found
      /\ epc \in {"symtab", "dynsym", ".got", ".got.plt"}
  BY DEF ReadTable, Tables4
<1>2. ei \in Nat /\ ej \in Nat /\ notes \in Nat /\ noteCount \in Int
  BY DEF ElfInv, ElfTypes
<1>3. CASE InTable(epc)
  <2>1. ~(epc \in {"symtab", "dynsym"} /\ found["names"] = Undef)
    <3> SUFFICES ASSUME epc \in {"symtab", "dynsym"}, found["names"] = Undef PROVE FALSE
      OBVIOUS
    <3>1. \E t \in Names : t \in Needed(epc)
      BY DEF Needed, Names
    <3>2. \A s \in Needed(epc) : found[s] # Undef
      BY <1>3 DEF InTable
    <3>3. \A t \in Names : found[t] = Undef
      BY DEF ElfInv, NamesInv
    <3> QED
      BY <3>1, <3>2, <3>3
  <2>2. ei' = ei + 1 /\ epc' = epc
    BY <1>3, <2>1 DEF ReadTable
  <2>3. ei' \in Nat
    BY <1>2, <2>2
  <2> QED
    BY <1>1, <1>2, <2>2, <2>3, ElfGoesOn
<1>4. CASE ~InTable(epc)
  <2>1. ei' = 0 /\ epc' = IF epc = ".got.plt" THEN "done"
                          ELSE Tables4[1 + CHOOSE n \in 1..3 : Tables4[n] = epc]
    BY <1>4 DEF ReadTable, NextTable
  <2>2. epc' \in {"done", "dynsym", ".got", ".got.plt"}
    <3>1. CASE epc = ".got.plt"
      BY <2>1, <3>1
    <3>2. CASE epc # ".got.plt"
      <4> DEFINE k == CHOOSE n \in 1..3 : Tables4[n] = epc
      <4>1. \E n \in 1..3 : Tables4[n] = epc
        BY <1>1, <3>2 DEF Tables4
      <4>2. k \in 1..3
        BY <4>1
      <4>3. epc' = Tables4[1 + k]
        BY <2>1, <3>2
      <4> HIDE DEF k
      <4> QED
        BY <4>2, <4>3 DEF Tables4
    <3> QED
      BY <3>1, <3>2
  <2> QED
    BY <1>1, <1>2, <2>1, <2>2, ElfGoesOn
<1> QED
  BY <1>3, <1>4

LEMMA ElfStep == ElfInv /\ [ElfNext]_elfVars => ElfInv'
<1> SUFFICES ASSUME ElfInv, [ElfNext]_elfVars PROVE ElfInv'
  OBVIOUS
<1>1. CASE ElfNext
  BY <1>1, ReadSegmentStep, ReadNoteStep, ReadDynamicStep, FindNamesStep, ReadSectionStep,
     ReadRelaStep, ReadTableStep DEF ElfNext
<1>2. CASE UNCHANGED elfVars
  BY <1>2 DEF elfVars, ElfInv, ElfTypes, SegmentsInv, SectionsInv, NotesInv, RelaInv, NamesInv, KilledInv,
     Segment, Section
<1> QED
  BY <1>1, <1>2

LEMMA ElfGood == ElfInv => ElfReadsInside
<1> SUFFICES ASSUME ElfInv PROVE ElfReadsInside
  OBVIOUS
<1>1. epc = "notes" /\ Plain(Segment) => notes <= FileSize(Segment)
  <2> SUFFICES ASSUME epc = "notes", Plain(Segment) PROVE notes <= FileSize(Segment)
    OBVIOUS
  <2>1. Segment \in SegmentType
    BY SegmentOK DEF ElfInv, ElfTypes, SegmentsInv
  <2>2. PICK n \in 1..Len(Segment.notes) + 1 : notes = NoteStart(Segment, n)
    BY DEF ElfInv, NotesInv
  <2> QED
    BY <2>1, <2>2, NotePlaces
<1> QED
  BY <1>1 DEF ElfInv, RelaInv, KilledInv, ElfReadsInside

\* The notes print_elf64 prints end with their segment whatever pt_note_count
\* held, if they are plain; relocations end with their section; and the missing
\* table of names kills it only at a section of relocations: for any files.
THEOREM ElfInside == ElfSpec => []ElfReadsInside
<1>1. ElfInit => ElfInv
  BY ElfStarts
<1>2. ElfInv /\ [ElfNext]_elfVars => ElfInv'
  BY ElfStep
<1>3. ElfInv => ElfReadsInside
  BY ElfGood
<1> QED
  BY <1>1, <1>2, <1>3, PTL DEF ElfSpec

-----------------------------------------------------------------------------
(* print_node_data.                                                        *)

FreeLists == Seq([order : Nat, blocks : Seq(Pfns)])
Ranges == {Extent(pfn, o) : pfn \in Pfns, o \in Nat}

\* The lists of the kernel: no block is on them twice.
OnLists ==
    /\ lists \in FreeLists
    /\ \A k, l \in DOMAIN lists :
       \A m \in DOMAIN lists[k].blocks, n \in DOMAIN lists[l].blocks :
          lists[k].blocks[m] = lists[l].blocks[n] => k = l /\ m = n

\* The first k blocks of a list have been printed, and no more.
Printed(n, k) ==
    /\ printed[n] \in Seq(Ranges) /\ Len(printed[n]) = k
    /\ \A m \in 1..k : printed[n][m] = Extent(lists[n].blocks[m], lists[n].order)

NodeTypes ==
    /\ npc \in {"main", "list", "walk", "done", "killed"}
    /\ OnLists
    /\ page_dump \in BOOLEAN
    /\ nlist \in Nat /\ nlist > 0
    /\ DOMAIN printed = DOMAIN lists
    /\ npc = "main" => ~page_dump /\ nlist = 1
    /\ npc = "done" => nlist > Len(lists)

\* The lists before the one at hand are printed, those behind it are not.
PassedInv ==
    \A n \in DOMAIN lists :
        /\ n < nlist /\ page_dump => Printed(n, Len(lists[n].blocks))
        /\ n > nlist \/ ~page_dump \/ (n = nlist /\ npc = "list") => printed[n] = <<>>
        /\ n = nlist /\ npc = "killed" => \E k \in 0..Len(lists[n].blocks) : Printed(n, k)

WalkInv ==
    npc = "walk" =>
        /\ page_dump /\ nlist \in DOMAIN lists
        /\ \E k \in 1..Len(lists[nlist].blocks) :
              Printed(nlist, k) /\ page = LinkAt(lists[nlist].blocks, k)

NodeInv == NodeTypes /\ PassedInv /\ WalkInv

LEMMA NodeStarts == NodeInit => NodeInv
<1> SUFFICES ASSUME NodeInit PROVE NodeInv
  OBVIOUS
<1>1. npc = "main" /\ page_dump = FALSE /\ nlist = 1 /\ printed = [n \in DOMAIN lists |-> <<>>]
  BY DEF NodeInit, NodeStart
<1>2. OnLists
  BY NodeAssumption DEF NodeInit, OnLists, FreeLists
<1>3. \A n \in DOMAIN lists : n \in Nat /\ n > 0
  BY <1>2 DEF OnLists, FreeLists
<1>4. NodeTypes
  <2>1. page_dump \in BOOLEAN /\ ~page_dump
    BY <1>1
  <2>2. DOMAIN printed = DOMAIN lists
    BY <1>1
  <2> QED
    BY <1>1, <1>2, <2>1, <2>2 DEF NodeTypes
<1>5. PassedInv
  BY <1>1, <1>3 DEF PassedInv
<1> QED
  BY <1>1, <1>4, <1>5 DEF NodeInv, WalkInv

\* The blocks of a list, and the places of the lists.
LEMMA ListParts ==
  ASSUME OnLists, NEW n \in DOMAIN lists
  PROVE  /\ lists[n].blocks \in Seq(Pfns) /\ lists[n].order \in Nat
         /\ DOMAIN lists[n].blocks = 1..Len(lists[n].blocks)
         /\ Len(lists[n].blocks) \in Nat /\ n \in 1..Len(lists) /\ Len(lists) \in Nat
<1> DEFINE List == [order : Nat, blocks : Seq(Pfns)]
<1>1. lists[n] \in List /\ n \in 1..Len(lists) /\ Len(lists) \in Nat
  <2>1. lists \in Seq(List)
    BY DEF OnLists, FreeLists
  <2> HIDE DEF List
  <2> QED
    BY <2>1
<1> QED
  BY <1>1

LEMMA NothingPrinted == ASSUME NEW n, printed[n] = <<>> PROVE Printed(n, 0)
<1>1. <<>> \in Seq(Ranges) /\ Len(<<>>) = 0
  OBVIOUS
<1> QED
  BY <1>1 DEF Printed

\* What the dump holds of the m-th page of a list.
LEMMA DumpOfFree ==
  ASSUME OnLists, NEW n \in DOMAIN lists, NEW m \in DOMAIN lists[n].blocks,
         NEW dump \in PageDump(lists[n].blocks[m])
  PROVE  dump.next = LinkAt(lists[n].blocks, m) /\ dump.private = lists[n].order
<1> DEFINE pfn == lists[n].blocks[m]
           free == UNION {{k} \X DOMAIN lists[k].blocks : k \in DOMAIN lists}
           at == {f \in free : lists[f[1]].blocks[f[2]] = pfn}
<1>1. <<n, m>> \in at
  <2>1. <<n, m>> \in {n} \X DOMAIN lists[n].blocks
    OBVIOUS
  <2>2. <<n, m>> \in free
    BY <2>1
  <2> QED
    BY <2>2
<1>2. ASSUME NEW f \in at PROVE f[1] = n /\ f[2] = m
  <2>1. PICK k \in DOMAIN lists : f \in {k} \X DOMAIN lists[k].blocks
    OBVIOUS
  <2>2. f[1] = k /\ f[2] \in DOMAIN lists[k].blocks
    BY <2>1
  <2>3. lists[k].blocks[f[2]] = lists[n].blocks[m]
    BY <2>2
  <2> QED
    BY <2>2, <2>3 DEF OnLists
<1>3. PageDump(pfn) = {[next |-> LinkAt(lists[f[1]].blocks, f[2]),
                        private |-> lists[f[1]].order] : f \in at}
  BY <1>1 DEF PageDump
<1> HIDE DEF pfn, at
<1>4. PICK f \in at : dump = [next |-> LinkAt(lists[f[1]].blocks, f[2]),
                              private |-> lists[f[1]].order]
  BY <1>3 DEF pfn
<1> QED
  BY <1>2, <1>4

\* To print the block behind the first k of the list at hand.
LEMMA NextBlock ==
  ASSUME NodeInv, page_dump, nlist \in DOMAIN lists, UNCHANGED <<lists, page_dump, nlist>>,
         NEW k \in 0..Len(lists[nlist].blocks) - 1, Printed(nlist, k),
         PrintPage(lists[nlist].blocks[k + 1])
  PROVE  NodeInv'
<1> DEFINE blocks == lists[nlist].blocks
           pfn == blocks[k + 1]
           done == printed[nlist]
<1>1. /\ blocks \in Seq(Pfns) /\ DOMAIN blocks = 1..Len(blocks) /\ Len(blocks) \in Nat
      /\ k \in Nat /\ k + 1 \in 1..Len(blocks) /\ lists[nlist].order \in Nat
  BY ListParts DEF NodeInv, NodeTypes
<1>2. CASE npc' = "killed" /\ UNCHANGED <<page, printed>>
  <2>1. NodeTypes'
    BY <1>2 DEF NodeInv, NodeTypes, OnLists
  <2>2. \E j \in 0..Len(blocks) : Printed(nlist, j)
    <3>1. k \in 0..Len(blocks)
      BY <1>1
    <3> QED
      BY <3>1
  <2>3. PassedInv'
    BY <1>2, <2>2 DEF NodeInv, PassedInv, Printed
  <2> QED
    BY <1>2, <2>1, <2>3 DEF NodeInv, WalkInv
<1>3. CASE \E dump \in PageDump(pfn) :
              /\ printed' = [printed EXCEPT ![nlist] = Append(@, Extent(pfn, dump.private))]
              /\ page' = dump.next
              /\ npc' = "walk"
  <2>1. PICK dump \in PageDump(pfn) :
           /\ printed' = [printed EXCEPT ![nlist] = Append(@, Extent(pfn, dump.private))]
           /\ page' = dump.next
           /\ npc' = "walk"
    BY <1>3
  <2>2. dump.next = LinkAt(blocks, k + 1) /\ dump.private = lists[nlist].order
    BY <1>1, DumpOfFree DEF NodeInv, NodeTypes
  <2> DEFINE new == Extent(pfn, lists[nlist].order)
  <2>3. new \in Ranges
    BY <1>1 DEF Ranges
  <2>4. /\ printed'[nlist] = Append(done, new) /\ DOMAIN printed' = DOMAIN printed
        /\ \A n \in DOMAIN lists : n # nlist => printed'[n] = printed[n]
    BY <2>1, <2>2 DEF NodeInv, NodeTypes
  <2>5. done \in Seq(Ranges) /\ Len(done) = k
        /\ \A m \in 1..k : done[m] = Extent(blocks[m], lists[nlist].order)
    BY DEF Printed
  <2> DEFINE after == Append(done, new)
  <2> HIDE DEF done, new, pfn
  <2>6. /\ after \in Seq(Ranges) /\ Len(after) = k + 1
        /\ \A m \in 1..k : after[m] = done[m]
        /\ after[k + 1] = new
    BY <1>1, <2>3, <2>5
  <2> HIDE DEF blocks, after
  <2>7. \A m \in 1..k + 1 : after[m] = Extent(blocks[m], lists[nlist].order)
    <3> TAKE m \in 1..k + 1
    <3>1. CASE m \in 1..k
      BY <2>5, <2>6, <3>1
    <3>2. CASE m = k + 1
      BY <2>6, <3>2 DEF new, pfn
    <3> QED
      BY <1>1, <3>1, <3>2
  <2>8. Printed(nlist, k + 1)'
    BY <2>4, <2>6, <2>7 DEF Printed, blocks, after
  <2>9. NodeTypes'
    BY <2>1, <2>4 DEF NodeInv, NodeTypes, OnLists
  <2>10. PassedInv'
    BY <2>1, <2>4 DEF NodeInv, PassedInv, Printed
  <2>11. WalkInv'
    BY <1>1, <2>1, <2>2, <2>8 DEF WalkInv, blocks
  <2> QED
    BY <2>9, <2>10, <2>11 DEF NodeInv
<1> QED
  BY <1>2, <1>3 DEF PrintPage

\* A page follows a place on a list if its link is one of a page.
LEMMA LinkToPage ==
  ASSUME OnLists, NEW n \in DOMAIN lists, NEW k \in 0..Len(lists[n].blocks)
  PROVE  IF k < Len(lists[n].blocks)
         THEN /\ IsPage(LinkAt(lists[n].blocks, k))
              /\ LinkAt(lists[n].blocks, k) = lists[n].blocks[k + 1]
         ELSE ~IsPage(LinkAt(lists[n].blocks, k))
<1> DEFINE blocks == lists[n].blocks
<1>1. blocks \in Seq(Pfns) /\ Len(blocks) \in Nat
  BY ListParts
<1>2. CASE k < Len(blocks)
  <2>1. LinkAt(blocks, k) = blocks[k + 1] /\ blocks[k + 1] \in Pfns
    BY <1>1, <1>2 DEF LinkAt
  <2> QED
    BY <1>2, <2>1 DEF IsPage
<1>3. CASE ~(k < Len(blocks))
  <2>1. LinkAt(blocks, k) = ListHead
    BY <1>3 DEF LinkAt
  <2> QED
    BY <1>3, <2>1, NodeAssumption DEF IsPage
<1> QED
  BY <1>2, <1>3

\* To leave a list that is printed in full, or that is not to be printed.
LEMMA NextListStep ==
  ASSUME NodeInv, npc \in {"list", "walk"}, npc' = "list", nlist \in DOMAIN lists,
         UNCHANGED <<lists, page_dump, page, printed>>, nlist' = nlist + 1,
         page_dump => Printed(nlist, Len(lists[nlist].blocks))
  PROVE  NodeInv'
<1>1. NodeTypes'
  BY DEF NodeInv, NodeTypes, OnLists
<1>2. \A n \in DOMAIN lists : n \in Nat
  BY ListParts DEF NodeInv, NodeTypes
<1>3. PassedInv'
  <2> SUFFICES ASSUME NEW n \in DOMAIN lists
               PROVE  /\ n < nlist' /\ page_dump => Printed(n, Len(lists[n].blocks))
                      /\ n > nlist' \/ ~page_dump \/ n = nlist' => printed[n] = <<>>
    BY DEF PassedInv, Printed
  <2>1. n \in Nat /\ nlist \in Nat
    BY <1>2 DEF NodeInv, NodeTypes
  <2>2. n < nlist' => n < nlist \/ n = nlist
    BY <2>1
  <2>3. n > nlist' \/ n = nlist' => n > nlist
    BY <2>1
  <2> QED
    BY <2>2, <2>3 DEF NodeInv, PassedInv
<1> QED
  BY <1>1, <1>3 DEF NodeInv, WalkInv

LEMMA MainStep == NodeInv /\ Main => NodeInv'
<1> SUFFICES ASSUME NodeInv, Main PROVE NodeInv'
  OBVIOUS
<1>1. /\ npc = "main" /\ npc' = "list" /\ page_dump' \in BOOLEAN
      /\ UNCHANGED <<lists, nlist, page, printed>>
  BY DEF Main
<1>2. nlist = 1 /\ ~page_dump /\ \A n \in DOMAIN lists : n \in Nat /\ n > 0
  BY <1>1, ListParts DEF NodeInv, NodeTypes
<1>3. NodeTypes'
  BY <1>1 DEF NodeInv, NodeTypes, OnLists
<1>4. PassedInv'
  BY <1>1, <1>2 DEF NodeInv, PassedInv, Printed
<1> QED
  BY <1>1, <1>3, <1>4 DEF NodeInv, WalkInv

LEMMA PrintListStep == NodeInv /\ PrintList => NodeInv'
<1> SUFFICES ASSUME NodeInv, PrintList PROVE NodeInv'
  OBVIOUS
<1>1. npc = "list" /\ lists' = lists /\ page_dump' = page_dump
      /\ nlist \in Nat /\ nlist > 0 /\ OnLists
  BY DEF PrintList, NodeInv, NodeTypes
<1>2. CASE nlist > Len(lists) /\ npc' = "done" /\ UNCHANGED <<nlist, page, printed>>
  <2>1. \A n \in DOMAIN lists : n # nlist
    BY <1>1, <1>2, ListParts
  <2>2. NodeTypes'
    BY <1>1, <1>2 DEF NodeInv, NodeTypes, OnLists
  <2>3. PassedInv'
    BY <1>1, <1>2, <2>1 DEF NodeInv, PassedInv, Printed
  <2> QED
    BY <1>2, <2>2, <2>3 DEF NodeInv, WalkInv
<1>3. ASSUME ~(nlist > Len(lists)) PROVE nlist \in DOMAIN lists
  <2>1. DOMAIN lists = 1..Len(lists) /\ Len(lists) \in Nat
    BY <1>1 DEF OnLists, FreeLists
  <2> QED
    BY <1>1, <1>3, <2>1
<1>4. ASSUME nlist \in DOMAIN lists PROVE Printed(nlist, 0)
  <2>1. printed[nlist] = <<>>
    BY <1>1, <1>4 DEF NodeInv, PassedInv
  <2> QED
    BY <2>1, NothingPrinted
<1>5. CASE /\ ~(nlist > Len(lists)) /\ page_dump /\ IsPage(free_list_next(nlist))
           /\ PrintPage(free_list_next(nlist)) /\ nlist' = nlist
  <2>1. nlist \in DOMAIN lists /\ Len(lists[nlist].blocks) \in Nat
    BY <1>1, <1>3, <1>5, ListParts
  <2>2. 0 \in 0..Len(lists[nlist].blocks) - 1 /\ free_list_next(nlist) = lists[nlist].blocks[0 + 1]
    BY <1>1, <1>5, <2>1, LinkToPage DEF free_list_next
  <2> QED
    BY <1>1, <1>4, <1>5, <2>1, <2>2, NextBlock
<1>6. CASE /\ ~(nlist > Len(lists)) /\ ~(page_dump /\ IsPage(free_list_next(nlist)))
           /\ nlist' = nlist + 1 /\ UNCHANGED <<npc, page, printed>>
  <2>1. nlist \in DOMAIN lists /\ Len(lists[nlist].blocks) \in Nat
    BY <1>1, <1>3, <1>6, ListParts
  <2>2. page_dump => Len(lists[nlist].blocks) = 0
    BY <1>1, <1>6, <2>1, LinkToPage DEF free_list_next
  <2>3. page_dump => Printed(nlist, Len(lists[nlist].blocks))
    BY <1>4, <2>1, <2>2
  <2> QED
    BY <1>1, <1>6, <2>1, <2>3, NextListStep
<1> QED
  BY <1>2, <1>5, <1>6 DEF PrintList

LEMMA WalkListStep == NodeInv /\ WalkList => NodeInv'
<1> SUFFICES ASSUME NodeInv, WalkList PROVE NodeInv'
  OBVIOUS
<1>1. npc = "walk" /\ lists' = lists /\ page_dump' = page_dump /\ OnLists
      /\ page_dump /\ nlist \in DOMAIN lists
  BY DEF WalkList, NodeInv, NodeTypes, WalkInv
<1> DEFINE blocks == lists[nlist].blocks
<1>2. PICK k \in 1..Len(blocks) : Printed(nlist, k) /\ page = LinkAt(blocks, k)
  BY <1>1 DEF NodeInv, WalkInv
<1>3. Len(blocks) \in Nat /\ DOMAIN blocks = 1..Len(blocks) /\ k \in 0..Len(blocks)
  BY <1>1, <1>2, ListParts
<1>4. IF k < Len(blocks) THEN IsPage(page) /\ page = blocks[k + 1] ELSE ~IsPage(page)
  BY <1>1, <1>2, <1>3, LinkToPage
<1>5. CASE IsPage(page) /\ PrintPage(page) /\ nlist' = nlist
  <2>1. k \in 0..Len(blocks) - 1 /\ page = blocks[k + 1]
    BY <1>3, <1>4, <1>5
  <2> HIDE DEF blocks
  <2> QED
    BY <1>1, <1>2, <1>5, <2>1, NextBlock DEF blocks
<1>6. CASE ~(IsPage(page) /\ page # free_list_next(nlist)) /\ EndOfList
  <2>1. k = Len(blocks)
    <3> SUFFICES ASSUME k < Len(blocks) PROVE FALSE
      BY <1>3
    <3>1. page = blocks[k + 1] /\ page = free_list_next(nlist)
      BY <1>4, <1>6
    <3>2. free_list_next(nlist) = blocks[0 + 1]
      BY <1>1, <1>3, LinkToPage DEF free_list_next
    <3>3. k + 1 \in DOMAIN blocks /\ 0 + 1 \in DOMAIN blocks /\ k + 1 # 0 + 1
      BY <1>2, <1>3
    <3> QED
      BY <1>1, <3>1, <3>2, <3>3 DEF OnLists
  <2> QED
    BY <1>1, <1>2, <1>6, <2>1, NextListStep DEF EndOfList
<1> QED
  BY <1>5, <1>6 DEF WalkList

LEMMA NodeStep == NodeInv /\ [NodeNext]_nodeVars => NodeInv'
<1> SUFFICES ASSUME NodeInv, [NodeNext]_nodeVars PROVE NodeInv'
  OBVIOUS
<1>1. CASE NodeNext
  BY <1>1, MainStep, PrintListStep, WalkListStep DEF NodeNext
<1>2. CASE UNCHANGED nodeVars
  BY <1>2 DEF nodeVars, NodeInv, NodeTypes, OnLists, PassedInv, WalkInv, Printed
<1> QED
  BY <1>1, <1>2

\* Blocks printed one by one are a prefix of the blocks of the list, or all.
LEMMA PrintedBlocks ==
  ASSUME OnLists, NEW n \in DOMAIN lists, NEW k \in 0..Len(lists[n].blocks), Printed(n, k)
  PROVE  /\ IsPrefix(printed[n], BlocksOf(lists[n]))
         /\ k = Len(lists[n].blocks) => printed[n] = BlocksOf(lists[n])
<1> DEFINE all == BlocksOf(lists[n])
           done == printed[n]
           len == Len(lists[n].blocks)
<1>1. len \in Nat /\ DOMAIN lists[n].blocks = 1..len /\ lists[n].blocks \in Seq(Pfns)
      /\ lists[n].order \in Nat
  BY ListParts
<1>2. all = [m \in 1..len |-> Extent(lists[n].blocks[m], lists[n].order)]
  BY <1>1 DEF BlocksOf
<1>3. \A m \in 1..len : Extent(lists[n].blocks[m], lists[n].order) \in Ranges
  BY <1>1 DEF Ranges
<1>4. all \in [1..len -> Ranges]
  BY <1>2, <1>3
<1>5. all \in Seq(Ranges) /\ Len(all) = len
  BY <1>1, <1>4
<1>6. done \in Seq(Ranges) /\ Len(done) = k /\ \A m \in 1..k : done[m] = all[m]
  BY <1>1, <1>2 DEF Printed
<1> HIDE DEF all, done, len
<1>7. k = len => done = all
  BY <1>1, <1>5, <1>6
<1>8. SubSeq(done, 1, k) = SubSeq(all, 1, k) /\ k <= len
  BY <1>1, <1>5, <1>6 DEF len
<1> QED
  BY <1>5, <1>6, <1>7, <1>8 DEF IsPrefix, all, done, len

LEMMA NodeGood == NodeInv => PrintsFreeLists
<1> SUFFICES ASSUME NodeInv, NEW n \in DOMAIN lists
             PROVE  /\ n < nlist /\ page_dump => printed[n] = BlocksOf(lists[n])
                    /\ n = nlist => IsPrefix(printed[n], BlocksOf(lists[n]))
                    /\ n > nlist \/ ~page_dump => printed[n] = <<>>
  BY DEF PrintsFreeLists
<1>1. OnLists /\ Len(lists[n].blocks) \in Nat /\ n \in 1..Len(lists) /\ Len(lists) \in Nat
  BY ListParts DEF NodeInv, NodeTypes
<1>2. n < nlist /\ page_dump => printed[n] = BlocksOf(lists[n])
  BY <1>1, PrintedBlocks DEF NodeInv, PassedInv
<1>3. n = nlist => \E k \in 0..Len(lists[n].blocks) : Printed(n, k)
  <2> SUFFICES ASSUME n = nlist PROVE \E k \in 0..Len(lists[n].blocks) : Printed(n, k)
    OBVIOUS
  <2>1. CASE npc = "walk"
    <3>1. PICK k \in 1..Len(lists[n].blocks) : Printed(n, k)
      BY <2>1 DEF NodeInv, WalkInv
    <3> QED
      BY <1>1, <3>1
  <2>2. CASE npc = "killed"
    BY <2>2 DEF NodeInv, PassedInv
  <2>3. CASE printed[n] = <<>>
    <3>1. Printed(n, 0)
      BY <2>3, NothingPrinted
    <3> QED
      BY <1>1, <3>1
  <2> QED
    <3>1. npc \in {"main", "list", "done"} => printed[n] = <<>>
      BY <1>1 DEF NodeInv, NodeTypes, PassedInv
    <3> QED
      BY <2>1, <2>2, <2>3, <3>1 DEF NodeInv, NodeTypes
<1>4. n = nlist => IsPrefix(printed[n], BlocksOf(lists[n]))
  BY <1>1, <1>3, PrintedBlocks
<1> QED
  BY <1>2, <1>4 DEF NodeInv, PassedInv

\* The blocks on the free lists are printed, each once, in the order of its list
\* and with the range its first page tells, and nothing else is, whatever the
\* other pages are linked to: for any pages and lists.
THEOREM FreeListsPrinted == NodeSpec => []PrintsFreeLists
<1>1. NodeInit => NodeInv
  BY NodeStarts
<1>2. NodeInv /\ [NodeNext]_nodeVars => NodeInv'
  BY NodeStep
<1>3. NodeInv => PrintsFreeLists
  BY NodeGood
<1> QED
  BY <1>1, <1>2, <1>3, PTL DEF NodeSpec

-----------------------------------------------------------------------------
(* FreeArea, for any ascending ranges, any highest order and any number of  *)
(* pages in the blocks of the middle parts.                                 *)
(*                                                                          *)
(* What is added lies above all that was added before.  So does a block     *)
(* that goes up, whatever the order: that is why the lists stay ascending   *)
(* and why it is enough to compare their last two entries.                  *)


-----------------------------------------------------------------------------
(* Numbers.                                                                *)

LEMMA Powers ==
  /\ MAX_ORDER \in Nat /\ LONG_ORDER \in Orders /\ 0 \in Orders
  /\ \A o \in Orders : /\ o \in Nat /\ o <= MAX_ORDER
                       /\ pow[o] \in Nat /\ pow[o] > 0
                       /\ pow[o + 1] = 2 * pow[o]
                       /\ o < MAX_ORDER => o + 1 \in Orders
  /\ pow[0] = 1
  /\ Long \in Nat /\ Long > 1
<1>1. /\ MAX_ORDER \in Nat /\ LONG_ORDER \in Orders /\ 0 \in Orders
      /\ LONG_ORDER - 1 \in Orders
  BY FreeAreaAssumption DEF Orders
<1>2. \A o \in Orders : /\ o \in Nat /\ o <= MAX_ORDER
                        /\ pow[o] \in Nat /\ pow[o] > 0
                        /\ pow[o + 1] = 2 * pow[o]
                        /\ o < MAX_ORDER => o + 1 \in Orders
  BY FreeAreaAssumption DEF Orders
<1>3. Long = 2 * pow[LONG_ORDER - 1]
  <2>1. LONG_ORDER \in Int
    BY FreeAreaAssumption
  <2>2. LONG_ORDER - 1 + 1 = LONG_ORDER
    BY <2>1
  <2> QED
    BY <1>1, <1>2, <2>2 DEF Long
<1>4. Long \in Nat /\ Long > 1
  BY <1>1, <1>2, <1>3
<1> QED
  BY <1>1, <1>2, <1>4, FreeAreaAssumption

LEMMA ModRange ==
  ASSUME NEW x \in Int, NEW n \in Int, n > 0
  PROVE  x % n \in Int /\ 0 <= x % n /\ x % n < n
OBVIOUS

LEMMA Multiple ==
  ASSUME NEW x \in Int, NEW n \in Int, n > 0, x % n = 0
  PROVE  \E k \in Int : x = n * k
OBVIOUS

LEMMA MultipleMod ==
  ASSUME NEW k \in Int, NEW n \in Int, n > 0
  PROVE  (n * k) % n = 0
OBVIOUS

LEMMA Quotient ==
  ASSUME NEW x \in Int, NEW n \in Int, n > 0
  PROVE  \E k \in Int : x = n * k + (x % n)
OBVIOUS

LEMMA NextMultiple ==
  ASSUME NEW x \in Int, NEW n \in Int, n > 0, x % n = 0
  PROVE  (x + n) % n = 0
<1>1. PICK k \in Int : x = n * k
  BY Multiple
<1>2. x + n = n * (k + 1)
  BY <1>1
<1>3. (n * (k + 1)) % n = 0
  BY MultipleMod
<1> QED
  BY <1>2, <1>3

\* Between two multiples of n there are n numbers at least.
LEMMA MultiplesApart ==
  ASSUME NEW x \in Int, NEW y \in Int, NEW n \in Int, n > 0,
         x % n = 0, y % n = 0, x < y
  PROVE  x + n <= y
<1>1. PICK j \in Int : x = n * j
  BY Multiple
<1>2. PICK k \in Int : y = n * k
  BY Multiple
<1>3. PICK d \in Int : k = j + d
  <2>1. k = j + (k - j) /\ k - j \in Int
    OBVIOUS
  <2> QED
    BY <2>1
<1>4. y = x + n * d
  BY <1>1, <1>2, <1>3
<1>5. d >= 1
  <2>1. CASE d <= 0
    <3>1. n * d <= 0
      BY <2>1
    <3> QED
      BY <1>4, <3>1
  <2> QED
    BY <2>1
<1>6. n * d >= n
  BY <1>5
<1> QED
  BY <1>4, <1>6

\* The multiples of n on both sides of a number.
LEMMA RoundDown ==
  ASSUME NEW x \in Nat, NEW n \in Int, n > 0
  PROVE  x - (x % n) \in Nat /\ (x - (x % n)) % n = 0 /\ x - (x % n) <= x
<1>1. PICK k \in Int : x = n * k + (x % n)
  BY Quotient
<1>2. x % n \in Int /\ 0 <= x % n /\ x % n < n
  BY ModRange
<1>3. x - (x % n) = n * k
  BY <1>1, <1>2
<1>4. n * k >= 0
  <2>1. CASE k < 0
    <3>1. n * k <= -n
      BY <2>1
    <3> QED
      BY <1>1, <1>2, <3>1
  <2>2. CASE k >= 0
    BY <2>2
  <2> QED
    BY <2>1, <2>2
<1> QED
  BY <1>2, <1>3, <1>4, MultipleMod

LEMMA AreaRoundUp ==
  ASSUME NEW x \in Nat, NEW n \in Int, n > 0
  PROVE  LET up == IF x % n # 0 THEN x + (n - (x % n)) ELSE x
         IN up \in Nat /\ up % n = 0 /\ x <= up
<1>1. x % n \in Int /\ 0 <= x % n /\ x % n < n
  BY ModRange
<1>2. CASE x % n # 0
  <2>1. x - (x % n) \in Int /\ (x - (x % n)) % n = 0
    BY RoundDown
  <2>2. (x - (x % n) + n) % n = 0
    BY <2>1, NextMultiple
  <2>3. x + (n - (x % n)) = x - (x % n) + n
    BY <1>1
  <2> QED
    BY <1>1, <1>2, <2>2, <2>3
<1>3. CASE x % n = 0
  BY <1>3
<1> QED
  BY <1>2, <1>3

-----------------------------------------------------------------------------
(* The lists.  fa stands for free_area before a step, fb after it.         *)

AreaLists == [Orders -> Seq(Nat)]
Size(fa, o) == Len(fa[o])
At(fa, o, n) == fa[o][n]
Span(o) == pow[o]
Aligned(p, o) == p % pow[o] = 0
Appended(fa, o, x) == [fa EXCEPT ![o] = Append(@, x)]
CutTo(fa, o, k) == [fa EXCEPT ![o] = SubSeq(@, 1, k)]
Merged(fa, o) == [fa EXCEPT ![o + 1] = Append(@, fa[o][Len(fa[o]) - 1]),
                            ![o] = SubSeq(@, 1, Len(@) - 2)]

LEMMA Spans ==
  /\ \A o \in Orders : o \in Nat /\ Span(o) \in Nat /\ Span(o) > 0
  /\ \A o \in Orders : o < MAX_ORDER => o + 1 \in Orders /\ Span(o + 1) = 2 * Span(o)
BY Powers DEF Span

LEMMA ListTypes ==
  ASSUME NEW fa \in AreaLists
  PROVE  \A o \in Orders : /\ Size(fa, o) \in Nat
                           /\ \A n \in 1..Size(fa, o) : At(fa, o, n) \in Nat
BY DEF AreaLists, Size, At

LEMMA AppendLists ==
  ASSUME NEW fa \in AreaLists, NEW o \in Orders, NEW x \in Nat,
         NEW fb, fb = Appended(fa, o, x)
  PROVE  /\ fb \in AreaLists /\ Size(fb, o) = Size(fa, o) + 1
         /\ At(fb, o, Size(fb, o)) = x
         /\ \A i \in 1..Size(fa, o) : At(fb, o, i) = At(fa, o, i)
         /\ \A r \in Orders : r # o => /\ Size(fb, r) = Size(fa, r)
                                     /\ \A i : At(fb, r, i) = At(fa, r, i)
<1>1. fa[o] \in Seq(Nat)
  BY DEF AreaLists
<1>2. fb \in AreaLists /\ fb[o] = Append(fa[o], x) /\ \A r \in Orders : r # o => fb[r] = fa[r]
  BY <1>1 DEF AreaLists, Appended
<1> QED
  BY <1>1, <1>2 DEF Size, At

LEMMA AreaFront ==
  ASSUME NEW s \in Seq(Nat), NEW k \in Nat, k <= Len(s)
  PROVE  /\ SubSeq(s, 1, k) \in Seq(Nat) /\ Len(SubSeq(s, 1, k)) = k
         /\ \A m \in 1..k : SubSeq(s, 1, k)[m] = s[m]
OBVIOUS

LEMMA CutLists ==
  ASSUME NEW fa \in AreaLists, NEW o \in Orders, NEW k \in Nat, k <= Size(fa, o),
         NEW fb, fb = CutTo(fa, o, k)
  PROVE  /\ fb \in AreaLists /\ Size(fb, o) = k
         /\ \A i \in 1..k : At(fb, o, i) = At(fa, o, i)
         /\ \A r \in Orders : r # o => /\ Size(fb, r) = Size(fa, r)
                                     /\ \A i : At(fb, r, i) = At(fa, r, i)
<1>1. fa[o] \in Seq(Nat) /\ k <= Len(fa[o])
  BY DEF AreaLists, Size
<1>2. /\ SubSeq(fa[o], 1, k) \in Seq(Nat) /\ Len(SubSeq(fa[o], 1, k)) = k
      /\ \A m \in 1..k : SubSeq(fa[o], 1, k)[m] = fa[o][m]
  BY <1>1, AreaFront
<1>3. /\ fb \in AreaLists /\ fb[o] = SubSeq(fa[o], 1, k)
      /\ \A r \in Orders : r # o => fb[r] = fa[r]
  BY <1>2 DEF AreaLists, CutTo
<1> QED
  BY <1>2, <1>3 DEF Size, At

LEMMA MergesAt ==
  ASSUME NEW fa \in AreaLists, NEW o \in Orders
  PROVE  Merges(fa[o], o) <=>
            /\ o < MAX_ORDER /\ Size(fa, o) >= 2
            /\ At(fa, o, Size(fa, o)) = At(fa, o, Size(fa, o) - 1) + Span(o)
            /\ Aligned(At(fa, o, Size(fa, o) - 1), o + 1)
<1>1. CASE ~(Size(fa, o) >= 2)
  BY <1>1 DEF Merges, Size
<1>2. CASE Size(fa, o) >= 2
  <2>1. /\ Size(fa, o) - 1 \in 1..Size(fa, o) /\ Size(fa, o) \in 1..Size(fa, o)
        /\ Span(o) \in Nat
    BY <1>2, ListTypes, Spans
  <2>2. PICK u, v, w \in Nat : u = At(fa, o, Size(fa, o)) /\ v = At(fa, o, Size(fa, o) - 1) /\ w = Span(o)
    BY <2>1, ListTypes
  <2>3. u - w = v <=> u = v + w
    OBVIOUS
  <2>4. Merges(fa[o], o) <=> o < MAX_ORDER /\ u - w = v /\ Aligned(v, o + 1)
    BY <1>2, <2>2 DEF Merges, Size, At, Aligned, Span
  <2> QED
    BY <1>2, <2>2, <2>3, <2>4
<1> QED
  BY <1>1, <1>2

\* The blocks at the n-th place of list o and at the m-th place of list q have
\* no page in common.
Apart(fa, o, n, q, m) ==
    At(fa, o, n) + Span(o) <= At(fa, q, m) \/ At(fa, q, m) + Span(q) <= At(fa, o, n)

Whole(fa) ==
    /\ fa \in AreaLists
    /\ \A o \in Orders : \A n \in 1..Size(fa, o) : Aligned(At(fa, o, n), o)
    /\ \A o \in Orders : \A n, m \in 1..Size(fa, o) : n < m => At(fa, o, n) < At(fa, o, m)
    /\ \A o, q \in Orders : \A n \in 1..Size(fa, o), m \in 1..Size(fa, q) :
          o # q \/ n # m => Apart(fa, o, n, q, m)

\* The last block of list o lies above all others.
Topmost(fa, o) ==
    /\ Size(fa, o) > 0
    /\ \A q \in Orders : \A m \in 1..Size(fa, q) :
          q # o \/ m # Size(fa, o) => At(fa, q, m) + Span(q) <= At(fa, o, Size(fa, o))

\* No two blocks are buddies, but for the last two of list k.
BuddiesOnlyIn(fa, k) ==
    \A o \in Orders : \A n, m \in 1..Size(fa, o) :
        /\ o < MAX_ORDER
        /\ Aligned(At(fa, o, n), o + 1)
        /\ At(fa, o, m) = At(fa, o, n) + Span(o)
        => o = k /\ m = Size(fa, o)

Covered(fa, p) ==
    \E o \in Orders : \E n \in 1..Size(fa, o) :
        At(fa, o, n) <= p /\ p < At(fa, o, n) + Span(o)

\* A block above all others is added at the end of list o.
LEMMA AddLists ==
  ASSUME NEW fa, Whole(fa), BuddiesOnlyIn(fa, NoOrder),
         NEW o \in Orders, NEW x \in Nat, Aligned(x, o),
         \A q \in Orders : \A m \in 1..Size(fa, q) : At(fa, q, m) + Span(q) <= x,
         NEW fb, fb = Appended(fa, o, x)
  PROVE  /\ Whole(fb) /\ Topmost(fb, o) /\ BuddiesOnlyIn(fb, o)
         /\ Size(fa, o) = 0 => BuddiesOnlyIn(fb, NoOrder)
         /\ \A p : Covered(fb, p) <=> Covered(fa, p) \/ (x <= p /\ p < x + Span(o))
<1>1. /\ fa \in AreaLists
      /\ \A r \in Orders : Size(fa, r) \in Nat
      /\ \A r \in Orders : \A i \in 1..Size(fa, r) : At(fa, r, i) \in Nat
  BY ListTypes DEF Whole
<1>2. /\ fb \in AreaLists /\ Size(fb, o) = Size(fa, o) + 1
      /\ At(fb, o, Size(fa, o) + 1) = x
      /\ \A i \in 1..Size(fa, o) : At(fb, o, i) = At(fa, o, i)
      /\ \A r \in Orders : r # o => /\ Size(fb, r) = Size(fa, r)
                                  /\ \A i : At(fb, r, i) = At(fa, r, i)
  <2>1. /\ fb \in AreaLists /\ Size(fb, o) = Size(fa, o) + 1
        /\ At(fb, o, Size(fb, o)) = x
        /\ \A i \in 1..Size(fa, o) : At(fb, o, i) = At(fa, o, i)
        /\ \A r \in Orders : r # o => /\ Size(fb, r) = Size(fa, r)
                                    /\ \A i : At(fb, r, i) = At(fa, r, i)
    BY <1>1, AppendLists
  <2> QED
    BY <2>1, Zenon
\* An entry is the new one or one of before.
<1>3. ASSUME NEW q \in Orders, NEW m \in 1..Size(fb, q)
      PROVE  \/ q = o /\ m = Size(fa, o) + 1 /\ At(fb, q, m) = x
             \/ /\ m \in 1..Size(fa, q) /\ At(fb, q, m) = At(fa, q, m)
                /\ At(fb, q, m) + Span(q) <= x /\ ~(q = o /\ m = Size(fa, o) + 1)
  <2>1. CASE q # o
    BY <1>2, <2>1
  <2>2. CASE q = o /\ m \in 1..Size(fa, o)
    BY <1>1, <1>2, <2>2
  <2>3. CASE q = o /\ m = Size(fa, o) + 1
    BY <1>2, <2>3
  <2>4. q = o => m \in 1..Size(fa, o) \/ m = Size(fa, o) + 1
    BY <1>1, <1>2
  <2> QED
    BY <2>1, <2>2, <2>3, <2>4
<1>a. \A r \in Orders : Span(r) \in Nat /\ Span(r) > 0 /\ r \in Nat
  BY Spans
<1>4. \A q \in Orders : \A n \in 1..Size(fb, q) : Aligned(At(fb, q, n), q)
  BY <1>3 DEF Whole
<1>5. ASSUME NEW q \in Orders, NEW n \in 1..Size(fb, q), NEW m \in 1..Size(fb, q), n < m
      PROVE  At(fb, q, n) < At(fb, q, m)
  <2>1. CASE q = o /\ m = Size(fa, o) + 1
    <3>1. n \in 1..Size(fa, q) /\ At(fb, q, n) = At(fa, q, n) /\ At(fb, q, n) + Span(q) <= x
      <4>1. n # Size(fa, o) + 1
        BY <1>5, <2>1
      <4> QED
        BY <1>3, <4>1
    <3>2. At(fb, q, m) = x /\ At(fb, q, n) \in Nat
      BY <1>1, <1>2, <2>1, <3>1
    <3> QED
      BY <1>a, <3>1, <3>2
  <2>2. CASE m \in 1..Size(fa, q)
    <3>1. n \in 1..Size(fa, q)
      BY <1>1, <1>5, <2>2
    <3>2. At(fb, q, n) = At(fa, q, n) /\ At(fb, q, m) = At(fa, q, m)
      BY <1>2, <2>2, <3>1
    <3> QED
      BY <1>5, <2>2, <3>1, <3>2 DEF Whole
  <2> QED
    BY <1>3, <2>1, <2>2
<1>6. ASSUME NEW q \in Orders, NEW r \in Orders,
             NEW n \in 1..Size(fb, q), NEW m \in 1..Size(fb, r), q # r \/ n # m
      PROVE  Apart(fb, q, n, r, m)
  <2>1. CASE q = o /\ n = Size(fa, o) + 1
    <3>1. ~(r = o /\ m = Size(fa, o) + 1)
      BY <1>6, <2>1
    <3>2. At(fb, q, n) = x /\ At(fb, r, m) + Span(r) <= x
      BY <1>2, <1>3, <2>1, <3>1
    <3> QED
      BY <3>2 DEF Apart
  <2>2. CASE r = o /\ m = Size(fa, o) + 1
    <3>1. ~(q = o /\ n = Size(fa, o) + 1)
      BY <1>6, <2>2
    <3>2. At(fb, r, m) = x /\ At(fb, q, n) + Span(q) <= x
      BY <1>2, <1>3, <2>2, <3>1
    <3> QED
      BY <3>2 DEF Apart
  <2>3. CASE /\ n \in 1..Size(fa, q) /\ At(fb, q, n) = At(fa, q, n)
             /\ m \in 1..Size(fa, r) /\ At(fb, r, m) = At(fa, r, m)
    BY <1>6, <2>3 DEF Apart, Whole
  <2> QED
    BY <1>3, <2>1, <2>2, <2>3
<1>7. Topmost(fb, o)
  <2>1. At(fb, o, Size(fb, o)) = x /\ Size(fb, o) > 0
    BY <1>1, <1>2
  <2> QED
    BY <1>2, <1>3, <2>1 DEF Topmost
<1>8. ASSUME NEW q \in Orders, NEW n \in 1..Size(fb, q), NEW m \in 1..Size(fb, q),
             q < MAX_ORDER, Aligned(At(fb, q, n), q + 1), At(fb, q, m) = At(fb, q, n) + Span(q)
      PROVE  q = o /\ m = Size(fb, q) /\ Size(fa, o) # 0
  <2>1. CASE q = o /\ m = Size(fa, o) + 1
    <3>1. n # m
      BY <1>1, <1>2, <1>8, <1>a, <2>1
    <3>2. n \in 1..Size(fa, o)
      BY <1>3, <2>1, <3>1
    <3>3. Size(fa, o) # 0
      BY <1>1, <3>2
    <3> QED
      BY <1>2, <2>1, <3>3
  <2>2. CASE m \in 1..Size(fa, q) /\ At(fb, q, m) = At(fa, q, m) /\ At(fb, q, m) + Span(q) <= x
    <3>1. ~(q = o /\ n = Size(fa, o) + 1)
      BY <1>1, <1>2, <1>8, <1>a, <2>2
    <3>2. n \in 1..Size(fa, q) /\ At(fb, q, n) = At(fa, q, n)
      BY <1>3, <3>1
    <3>3. q = NoOrder
      BY <1>8, <2>2, <3>2 DEF BuddiesOnlyIn
    <3> QED
      BY <1>a, <3>3 DEF NoOrder
  <2> QED
    BY <1>3, <2>1, <2>2
<1>9. ASSUME NEW p
      PROVE  Covered(fb, p) <=> Covered(fa, p) \/ (x <= p /\ p < x + Span(o))
  <2>1. ASSUME Covered(fb, p)
        PROVE  Covered(fa, p) \/ (x <= p /\ p < x + Span(o))
    <3>0. PICK q \in Orders : \E m \in 1..Size(fb, q) :
             At(fb, q, m) <= p /\ p < At(fb, q, m) + Span(q)
      BY <2>1 DEF Covered
    <3>1. PICK m \in 1..Size(fb, q) : At(fb, q, m) <= p /\ p < At(fb, q, m) + Span(q)
      BY <3>0
    <3> QED
      BY <1>3, <3>1 DEF Covered
  <2>2. ASSUME Covered(fa, p) PROVE Covered(fb, p)
    <3>0. PICK q \in Orders : \E m \in 1..Size(fa, q) :
             At(fa, q, m) <= p /\ p < At(fa, q, m) + Span(q)
      BY <2>2 DEF Covered
    <3>1. PICK m \in 1..Size(fa, q) : At(fa, q, m) <= p /\ p < At(fa, q, m) + Span(q)
      BY <3>0
    <3>2. m \in 1..Size(fb, q) /\ At(fb, q, m) = At(fa, q, m)
      <4>1. CASE q = o
        <5>1. m \in 1..Size(fa, o) /\ Size(fa, o) \in Nat
          BY <1>1, <4>1
        <5>2. m \in 1..Size(fb, o) /\ At(fb, o, m) = At(fa, o, m)
          BY <1>2, <5>1
        <5> QED
          BY <4>1, <5>2
      <4>2. CASE q # o
        BY <1>2, <4>2
      <4> QED
        BY <4>1, <4>2
    <3> QED
      BY <3>1, <3>2 DEF Covered
  <2>3. ASSUME x <= p /\ p < x + Span(o) PROVE Covered(fb, p)
    <3>1. Size(fa, o) + 1 \in 1..Size(fb, o)
      BY <1>1, <1>2
    <3> QED
      BY <1>2, <2>3, <3>1 DEF Covered
  <2> QED
    BY <2>1, <2>2, <2>3
<1>10. Whole(fb)
  BY <1>2, <1>4, <1>5, <1>6 DEF Whole
<1>11. BuddiesOnlyIn(fb, o)
  <2> SUFFICES ASSUME NEW q \in Orders, NEW n \in 1..Size(fb, q),
                      NEW m \in 1..Size(fb, q), q < MAX_ORDER,
                      Aligned(At(fb, q, n), q + 1), At(fb, q, m) = At(fb, q, n) + Span(q)
               PROVE  q = o /\ m = Size(fb, q)
    BY DEF BuddiesOnlyIn
  <2> QED
    BY <1>8, Zenon
<1>12. Size(fa, o) = 0 => BuddiesOnlyIn(fb, NoOrder)
  BY <1>8, Zenon DEF BuddiesOnlyIn
<1> QED
  BY <1>7, <1>9, <1>10, <1>11, <1>12

\* The last two blocks of list o, above all others, are taken out.
LEMMA RemovePair ==
  ASSUME NEW fa, Whole(fa), NEW o \in Orders, Topmost(fa, o), BuddiesOnlyIn(fa, o),
         NEW L \in Nat, L = Size(fa, o), L >= 2, o < MAX_ORDER,
         NEW y \in Nat, At(fa, o, L - 1) = y, At(fa, o, L) = y + Span(o), Aligned(y, o + 1),
         NEW fc \in AreaLists, Size(fc, o) = L - 2,
         \A i \in 1..(L - 2) : At(fc, o, i) = At(fa, o, i),
         \A r \in Orders : r # o => /\ Size(fc, r) = Size(fa, r)
                                /\ \A i : At(fc, r, i) = At(fa, r, i)
  PROVE  /\ Whole(fc) /\ BuddiesOnlyIn(fc, NoOrder)
         /\ \A q \in Orders : \A m \in 1..Size(fc, q) : At(fc, q, m) + Span(q) <= y
         /\ \A p \in Int : Covered(fa, p) <=> Covered(fc, p) \/ (y <= p /\ p < y + Span(o + 1))
<1>1. /\ \A r \in Orders : Size(fa, r) \in Nat
      /\ \A r \in Orders : \A i \in 1..Size(fa, r) : At(fa, r, i) \in Nat
  BY ListTypes DEF Whole
<1>3. L \in 1..Size(fa, o) /\ L - 1 \in 1..Size(fa, o)
  OBVIOUS
<1>a. /\ \A r \in Orders : Span(r) \in Nat /\ Span(r) > 0 /\ r \in Nat
      /\ Span(o + 1) = 2 * Span(o)
  BY Spans
\* What is left was there, and it was none of the two.
<1>7. ASSUME NEW q \in Orders, NEW m \in 1..Size(fc, q)
      PROVE  /\ m \in 1..Size(fa, q) /\ At(fc, q, m) = At(fa, q, m)
             /\ q = o => m # L /\ m # L - 1
  <2>1. CASE q # o
    BY <2>1
  <2>2. CASE q = o
    BY <1>1, <2>2
  <2> QED
    BY <2>1, <2>2
<1>8. ASSUME NEW q \in Orders, NEW m \in 1..Size(fc, q)
      PROVE  At(fc, q, m) + Span(q) <= y
  <2>1. /\ m \in 1..Size(fa, q) /\ At(fc, q, m) = At(fa, q, m)
        /\ q = o => m # L /\ m # L - 1
    BY <1>7, Zenon
  <2>a. At(fa, q, m) \in Nat
    BY <1>1, <2>1, Zenon
  <2>2. At(fa, q, m) + Span(q) <= At(fa, o, L)
    BY <2>1 DEF Topmost
  <2>3. Apart(fa, q, m, o, L - 1)
    BY <1>3, <2>1 DEF Whole
  <2>4. At(fa, q, m) + Span(q) <= y \/ y + Span(o) <= At(fa, q, m)
    BY <2>3 DEF Apart
  <2> QED
    BY <1>a, <2>1, <2>a, <2>2, <2>4
<1>9. Whole(fc)
  <2>1. \A q \in Orders : \A n \in 1..Size(fc, q) : Aligned(At(fc, q, n), q)
    BY <1>7 DEF Whole
  <2>2. \A q \in Orders : \A n, m \in 1..Size(fc, q) : n < m => At(fc, q, n) < At(fc, q, m)
    BY <1>7 DEF Whole
  <2>3. ASSUME NEW q \in Orders, NEW r \in Orders,
               NEW n \in 1..Size(fc, q), NEW m \in 1..Size(fc, r), q # r \/ n # m
        PROVE  Apart(fc, q, n, r, m)
    <3>1. Apart(fa, q, n, r, m)
      BY <1>7, <2>3 DEF Whole
    <3> QED
      BY <1>7, <3>1 DEF Apart
  <2> QED
    BY <2>1, <2>2, <2>3 DEF Whole
<1>10. BuddiesOnlyIn(fc, NoOrder)
  <2> SUFFICES ASSUME NEW q \in Orders, NEW n \in 1..Size(fc, q),
                      NEW m \in 1..Size(fc, q), q < MAX_ORDER,
                      Aligned(At(fc, q, n), q + 1), At(fc, q, m) = At(fc, q, n) + Span(q)
               PROVE  FALSE
    BY DEF BuddiesOnlyIn
  <2>1. q = o /\ m = Size(fa, q)
    BY <1>7 DEF BuddiesOnlyIn
  <2> QED
    BY <1>7, <2>1
<1>11. ASSUME NEW p \in Int
       PROVE  Covered(fa, p) <=> Covered(fc, p) \/ (y <= p /\ p < y + Span(o + 1))
  <2>1. ASSUME Covered(fa, p)
        PROVE  Covered(fc, p) \/ (y <= p /\ p < y + Span(o + 1))
    <3>0. PICK q \in Orders : \E m \in 1..Size(fa, q) :
             At(fa, q, m) <= p /\ p < At(fa, q, m) + Span(q)
      BY <2>1 DEF Covered
    <3>1. PICK m \in 1..Size(fa, q) : At(fa, q, m) <= p /\ p < At(fa, q, m) + Span(q)
      BY <3>0
    <3>2. CASE q = o /\ (m = L \/ m = L - 1)
      BY <1>a, <3>1, <3>2
    <3>3. CASE ~(q = o /\ (m = L \/ m = L - 1))
      <4>1. m \in 1..Size(fc, q) /\ At(fc, q, m) = At(fa, q, m)
        BY <1>1, <3>3
      <4> QED
        BY <3>1, <4>1 DEF Covered
    <3> QED
      BY <3>2, <3>3
  <2>2. ASSUME Covered(fc, p) PROVE Covered(fa, p)
    <3>0. PICK q \in Orders : \E m \in 1..Size(fc, q) :
             At(fc, q, m) <= p /\ p < At(fc, q, m) + Span(q)
      BY <2>2 DEF Covered
    <3>1. PICK m \in 1..Size(fc, q) : At(fc, q, m) <= p /\ p < At(fc, q, m) + Span(q)
      BY <3>0
    <3> QED
      BY <1>7, <3>1 DEF Covered
  <2>3. ASSUME y <= p, p < y + Span(o + 1) PROVE Covered(fa, p)
    <3>1. \/ At(fa, o, L - 1) <= p /\ p < At(fa, o, L - 1) + Span(o)
          \/ At(fa, o, L) <= p /\ p < At(fa, o, L) + Span(o)
      BY <1>a, <2>3
    <3> QED
      BY <1>3, <3>1 DEF Covered
  <2> QED
    BY <2>1, <2>2, <2>3
<1> QED
  BY <1>8, <1>9, <1>10, <1>11

\* The two blocks go up as one: it lies above all others again.
LEMMA MergeLists ==
  ASSUME NEW fa, Whole(fa), NEW o \in Orders, Topmost(fa, o), BuddiesOnlyIn(fa, o),
         Merges(fa[o], o), NEW fb, fb = Merged(fa, o)
  PROVE  /\ o + 1 \in Orders
         /\ Whole(fb) /\ Topmost(fb, o + 1) /\ BuddiesOnlyIn(fb, o + 1)
         /\ \A p \in Int : Covered(fb, p) <=> Covered(fa, p)
<1>1. /\ fa \in AreaLists /\ Size(fa, o) \in Nat
      /\ \A i \in 1..Size(fa, o) : At(fa, o, i) \in Nat
  BY ListTypes DEF Whole
<1>2. PICK L \in Nat : L = Size(fa, o)
  BY <1>1
<1>3. /\ o < MAX_ORDER /\ L >= 2
      /\ At(fa, o, L) = At(fa, o, L - 1) + Span(o) /\ Aligned(At(fa, o, L - 1), o + 1)
  BY <1>1, <1>2, MergesAt
<1>4. o + 1 \in Orders /\ o \in Nat
  BY <1>3, Spans
<1>5. PICK y \in Nat : y = At(fa, o, L - 1)
  BY <1>1, <1>2, <1>3
<1>6. PICK fc : fc = CutTo(fa, o, L - 2)
  OBVIOUS
<1>7. /\ fc \in AreaLists /\ Size(fc, o) = L - 2
      /\ \A i \in 1..(L - 2) : At(fc, o, i) = At(fa, o, i)
      /\ \A r \in Orders : r # o => /\ Size(fc, r) = Size(fa, r)
                                  /\ \A i : At(fc, r, i) = At(fa, r, i)
  <2>1. L - 2 \in Nat /\ L - 2 <= Size(fa, o)
    BY <1>2, <1>3
  <2> QED
    BY <1>1, <1>6, <2>1, CutLists
<1>8. /\ Whole(fc) /\ BuddiesOnlyIn(fc, NoOrder)
      /\ \A q \in Orders : \A m \in 1..Size(fc, q) : At(fc, q, m) + Span(q) <= y
      /\ \A p \in Int : Covered(fa, p) <=> Covered(fc, p) \/ (y <= p /\ p < y + Span(o + 1))
  BY <1>2, <1>3, <1>5, <1>7, RemovePair
<1>9. fb = Appended(fc, o + 1, y)
  <2>1. o + 1 # o /\ L = Len(fa[o]) /\ y = fa[o][Len(fa[o]) - 1]
    BY <1>2, <1>4, <1>5 DEF Size, At
  <2> QED
    BY <1>1, <1>4, <1>6, <2>1 DEF AreaLists, Appended, CutTo, Merged
<1>10. /\ Whole(fb) /\ Topmost(fb, o + 1) /\ BuddiesOnlyIn(fb, o + 1)
       /\ \A p : Covered(fb, p) <=> Covered(fc, p) \/ (y <= p /\ p < y + Span(o + 1))
  BY <1>3, <1>4, <1>5, <1>8, <1>9, AddLists
<1> QED
  BY <1>4, <1>8, <1>10

\* Had the last block a buddy, it would be the block before it.
LEMMA StopLists ==
  ASSUME NEW fa, Whole(fa), NEW o \in Orders, BuddiesOnlyIn(fa, o),
         ~Merges(fa[o], o)
  PROVE  BuddiesOnlyIn(fa, NoOrder)
<1> SUFFICES ASSUME NEW q \in Orders, NEW n \in 1..Size(fa, q),
                    NEW m \in 1..Size(fa, q), q < MAX_ORDER,
                    Aligned(At(fa, q, n), q + 1), At(fa, q, m) = At(fa, q, n) + Span(q)
             PROVE  FALSE
  BY DEF BuddiesOnlyIn
<1>1. q = o /\ m = Size(fa, o)
  BY DEF BuddiesOnlyIn
<1>2. /\ Size(fa, o) \in Nat
      /\ \A i \in 1..Size(fa, o) : At(fa, o, i) \in Nat
      /\ Span(o) \in Nat /\ Span(o) > 0
  BY ListTypes, Spans DEF Whole
<1>3. n < Size(fa, o)
  <2>1. n # Size(fa, o)
    BY <1>1, <1>2
  <2> QED
    BY <1>1, <1>2, <2>1
<1>4. CASE n = Size(fa, o) - 1
  <2>1. fa \in AreaLists /\ n \in Nat /\ n >= 1
    BY DEF Whole
  <2> QED
    BY <1>1, <1>2, <1>4, <2>1, MergesAt
<1>5. CASE n < Size(fa, o) - 1
  <2>1. PICK b : b = Size(fa, o) - 1 /\ b \in 1..Size(fa, o)
    BY <1>2, <1>3
  <2>2. n \in 1..Size(fa, o) /\ m \in 1..Size(fa, o) /\ n < b /\ b < m /\ b # m
    BY <1>1, <1>2, <1>5, <2>1
  <2>3. At(fa, o, n) < At(fa, o, b) /\ At(fa, o, b) < At(fa, o, m)
    BY <2>1, <2>2, Zenon DEF Whole
  <2>4. Apart(fa, o, b, o, m)
    BY <2>1, <2>2, Zenon DEF Whole
  <2>5. /\ At(fa, o, n) \in Nat /\ At(fa, o, b) \in Nat /\ At(fa, o, m) \in Nat
        /\ At(fa, o, m) = At(fa, o, n) + Span(o)
    BY <1>1, <1>2, <2>1, <2>2
  <2> QED
    BY <1>2, <2>3, <2>4, <2>5 DEF Apart
<1> QED
  BY <1>2, <1>3, <1>4, <1>5

-----------------------------------------------------------------------------
(* The ranges and their parts.                                             *)

From(list, r) == list[r][1]
To(list, r) == list[r][2]

LEMMA RangesAscend ==
  ASSUME NEW list \in RangeLists
  PROVE  /\ list \in Seq(Nat \X Nat) /\ Len(list) \in Nat
         /\ \A r \in 1..Len(list) :
               /\ From(list, r) \in Nat /\ To(list, r) \in Nat
               /\ From(list, r) <= To(list, r)
               /\ \A s \in 1..Len(list) : r < s => To(list, r) <= From(list, s)
<1>1. list \in Seq(Nat \X Nat) /\ DOMAIN list = 1..Len(list) /\ Len(list) \in Nat
  BY FreeAreaAssumption
<1>2. ASSUME NEW r \in 1..Len(list)
      PROVE  From(list, r) \in Nat /\ To(list, r) \in Nat
  <2>1. list[r] \in Nat \X Nat
    BY <1>1
  <2> QED
    BY <2>1 DEF From, To
<1>3. ASSUME NEW r \in 1..Len(list) PROVE From(list, r) <= To(list, r)
  BY <1>1, FreeAreaAssumption DEF From, To
<1>4. ASSUME NEW r \in 1..Len(list), NEW s \in 1..Len(list), r < s
      PROVE  To(list, r) <= From(list, s)
  BY <1>1, <1>4, FreeAreaAssumption DEF From, To
<1> QED
  BY <1>1, <1>2, <1>3, <1>4

\* Where the parts of a range begin; the fourth part would begin at its end.
Cut(first, end) ==
    LET mode == first % Long
        part1End == IF mode # 0 THEN first + (Long - mode) ELSE first
    IN IF part1End >= end THEN <<first, end, end, end>>
                          ELSE <<first, part1End, end - (end % Long), end>>

LEMMA AreaParts ==
  ASSUME NEW first \in Nat, NEW end \in Nat, first <= end
  PROVE  LET c == Cut(first, end)
             s == Split(first, end)
         IN /\ \A q \in 1..4 : c[q] \in Nat
            /\ c[1] = first /\ c[4] = end
            /\ \A q \in 1..3 : /\ c[q] <= c[q + 1]
                               /\ s[q] = NoPart => c[q] = c[q + 1]
                               /\ s[q] # NoPart => s[q] = <<c[q], c[q + 1] - 1>>
            /\ s[2] # NoPart => c[2] % Long = 0 /\ c[3] % Long = 0
<1>1. PICK up : up = IF first % Long # 0 THEN first + (Long - (first % Long)) ELSE first
  OBVIOUS
<1>2. PICK down : down = end - (end % Long)
  OBVIOUS
<1>3. Long \in Int /\ Long > 0
  BY Powers
<1>4. up \in Nat /\ up % Long = 0 /\ first <= up
  BY <1>1, <1>3, AreaRoundUp
<1>5. down \in Nat /\ down % Long = 0 /\ down <= end /\ end < down + Long
  <2>1. end % Long \in Int /\ end % Long < Long
    BY <1>3, ModRange
  <2>2. down \in Nat /\ down % Long = 0 /\ down <= end
    BY <1>2, <1>3, RoundDown
  <2> QED
    BY <1>2, <1>3, <2>1, <2>2
<1>6. Cut(first, end) = IF up >= end THEN <<first, end, end, end>>
                                     ELSE <<first, up, down, end>>
  BY <1>1, <1>2 DEF Cut
<1>7. Split(first, end) =
         IF up >= end THEN << <<first, end - 1>>, NoPart, NoPart >>
         ELSE IF down > up
         THEN << IF up = first THEN NoPart ELSE <<first, up - 1>>,
                 <<up, down - 1>>,
                 IF down = end THEN NoPart ELSE <<down, end - 1>> >>
         ELSE << <<first, up - 1>>, NoPart, <<down, end - 1>> >>
  BY <1>1, <1>2 DEF Split
<1>8. \A a, b : <<a, b>> # NoPart
  BY DEF NoPart
<1>9. ~(up >= end) => up <= down
  <2>1. CASE down < up /\ up < end
    <3>1. down + Long <= up
      BY <1>3, <1>4, <1>5, <2>1, MultiplesApart
    <3> QED
      BY <1>3, <1>4, <1>5, <2>1, <3>1
  <2> QED
    BY <1>4, <1>5, <2>1
<1>10. CASE up >= end
  BY <1>6, <1>7, <1>8, <1>10
<1>11. CASE ~(up >= end) /\ down > up
  BY <1>4, <1>5, <1>6, <1>7, <1>8, <1>11
<1>12. CASE ~(up >= end) /\ ~(down > up)
  <2>1. up = down
    BY <1>4, <1>5, <1>9, <1>12
  <2> QED
    BY <1>4, <1>5, <1>6, <1>7, <1>8, <1>12, <2>1
<1> QED
  BY <1>10, <1>11, <1>12

CutAt(list, r, q) == Cut(list[r][1], list[r][2])[q]
PartAt(list, r, q) == Split(list[r][1], list[r][2])[q]

LEMMA PartsOf ==
  ASSUME NEW list \in RangeLists, NEW r \in 1..Len(list)
  PROVE  /\ \A q \in 1..4 : CutAt(list, r, q) \in Nat
         /\ CutAt(list, r, 1) = From(list, r) /\ CutAt(list, r, 4) = To(list, r)
         /\ \A q \in 1..4 : From(list, r) <= CutAt(list, r, q)
         /\ \A q \in 1..3 :
               /\ CutAt(list, r, q) <= CutAt(list, r, q + 1)
               /\ PartAt(list, r, q) = NoPart => CutAt(list, r, q) = CutAt(list, r, q + 1)
               /\ PartAt(list, r, q) # NoPart =>
                     PartAt(list, r, q) = <<CutAt(list, r, q), CutAt(list, r, q + 1) - 1>>
         /\ PartAt(list, r, 2) # NoPart =>
               CutAt(list, r, 2) % Long = 0 /\ CutAt(list, r, 3) % Long = 0
<1>1. list[r][1] \in Nat /\ list[r][2] \in Nat /\ list[r][1] <= list[r][2]
  BY RangesAscend DEF From, To
<1>2. /\ \A q \in 1..4 : CutAt(list, r, q) \in Nat
      /\ CutAt(list, r, 1) = From(list, r) /\ CutAt(list, r, 4) = To(list, r)
      /\ \A q \in 1..3 :
            /\ CutAt(list, r, q) <= CutAt(list, r, q + 1)
            /\ PartAt(list, r, q) = NoPart => CutAt(list, r, q) = CutAt(list, r, q + 1)
            /\ PartAt(list, r, q) # NoPart =>
                  PartAt(list, r, q) = <<CutAt(list, r, q), CutAt(list, r, q + 1) - 1>>
      /\ PartAt(list, r, 2) # NoPart =>
            CutAt(list, r, 2) % Long = 0 /\ CutAt(list, r, 3) % Long = 0
  BY <1>1, AreaParts, Zenon DEF CutAt, PartAt, From, To
<1>3. \A q \in 1..4 : From(list, r) <= CutAt(list, r, q)
  <2>1. CutAt(list, r, 1) <= CutAt(list, r, 2) /\ CutAt(list, r, 2) <= CutAt(list, r, 3)
        /\ CutAt(list, r, 3) <= CutAt(list, r, 4)
    BY <1>2
  <2> QED
    BY <1>2, <2>1
<1> QED
  BY <1>2, <1>3

\* The pages of the ranges before the r-th, and those below c of the r-th.
Freed(list, p, r, c) ==
    \E s \in 1..Len(list) : /\ From(list, s) <= p
                            /\ (s < r /\ p < To(list, s)) \/ (s = r /\ p < c)

LEMMA FreedBelow ==
  ASSUME NEW list \in RangeLists, NEW r \in 1..Len(list), NEW c \in Nat,
         From(list, r) <= c, NEW p \in Int, Freed(list, p, r, c)
  PROVE  p < c
<1>1. PICK s \in 1..Len(list) : /\ From(list, s) <= p
                                /\ (s < r /\ p < To(list, s)) \/ (s = r /\ p < c)
  BY DEF Freed
<1>2. CASE s < r
  <2>1. /\ To(list, s) <= From(list, r) /\ To(list, s) \in Nat /\ From(list, r) \in Nat
        /\ s \in Int /\ r \in Int
    BY <1>2, RangesAscend
  <2> QED
    BY <1>1, <1>2, <2>1
<1> QED
  BY <1>1, <1>2

LEMMA FreedMore ==
  ASSUME NEW list \in RangeLists, NEW r \in 1..Len(list), NEW c \in Nat,
         From(list, r) <= c, NEW n \in Nat, NEW p \in Int
  PROVE  Freed(list, p, r, c + n) <=> Freed(list, p, r, c) \/ (c <= p /\ p < c + n)
<1>1. From(list, r) \in Nat
  BY RangesAscend
<1>2. ASSUME Freed(list, p, r, c + n)
      PROVE  Freed(list, p, r, c) \/ (c <= p /\ p < c + n)
  <2>1. PICK s \in 1..Len(list) : /\ From(list, s) <= p
                                  /\ (s < r /\ p < To(list, s)) \/ (s = r /\ p < c + n)
    BY <1>2 DEF Freed
  <2> QED
    BY <2>1 DEF Freed
<1>3. ASSUME Freed(list, p, r, c) PROVE Freed(list, p, r, c + n)
  <2>1. PICK s \in 1..Len(list) : /\ From(list, s) <= p
                                  /\ (s < r /\ p < To(list, s)) \/ (s = r /\ p < c)
    BY <1>3 DEF Freed
  <2> QED
    BY <2>1 DEF Freed
<1>4. ASSUME c <= p, p < c + n PROVE Freed(list, p, r, c + n)
  <2>1. From(list, r) <= p
    BY <1>1, <1>4
  <2> QED
    BY <1>4, <2>1 DEF Freed
<1> QED
  BY <1>2, <1>3, <1>4

\* At the end of a range nothing of the next one is free.
LEMMA FreedNext ==
  ASSUME NEW list \in RangeLists, NEW r \in 1..Len(list), NEW c,
         r + 1 \in 1..Len(list) => c = From(list, r + 1), NEW p \in Int
  PROVE  Freed(list, p, r + 1, c) <=> Freed(list, p, r, To(list, r))
<1>1. ASSUME Freed(list, p, r + 1, c) PROVE Freed(list, p, r, To(list, r))
  <2>1. PICK s \in 1..Len(list) : /\ From(list, s) <= p
                                  /\ (s < r + 1 /\ p < To(list, s)) \/ (s = r + 1 /\ p < c)
    BY <1>1 DEF Freed
  <2>2. CASE s = r + 1
    <3>1. c = From(list, s) /\ From(list, s) \in Nat
      BY <2>2, RangesAscend
    <3> QED
      BY <2>1, <2>2, <3>1
  <2>3. CASE s # r + 1
    <3>1. (s < r \/ s = r) /\ p < To(list, s) /\ From(list, s) <= p
      BY <2>1, <2>3
    <3>2. (s < r /\ p < To(list, s)) \/ (s = r /\ p < To(list, r))
      BY <3>1
    <3> QED
      BY <3>1, <3>2, Zenon DEF Freed
  <2> QED
    BY <2>2, <2>3
<1>2. ASSUME Freed(list, p, r, To(list, r)) PROVE Freed(list, p, r + 1, c)
  <2>1. PICK s \in 1..Len(list) : /\ From(list, s) <= p
                                  /\ (s < r /\ p < To(list, s)) \/ (s = r /\ p < To(list, r))
    BY <1>2 DEF Freed
  <2>2. s < r + 1 /\ p < To(list, s)
    BY <2>1
  <2> QED
    BY <2>1, <2>2, Zenon DEF Freed
<1> QED
  BY <1>1, <1>2

-----------------------------------------------------------------------------
(* The inductive invariant.                                                *)

Splits == {Split(r[1], r[2]) : r \in Nat \X Nat}

AreaTypes ==
    /\ ranges \in RangeLists
    /\ rangesSplit \in Seq(Splits) /\ Len(rangesSplit) <= Len(ranges)
    /\ \A r \in 1..Len(rangesSplit) :
          rangesSplit[r] = Split(ranges[r][1], ranges[r][2])
    /\ part \in (1..Len(ranges)+1) \X (1..3)
    /\ part[1] = Len(ranges) + 1 => part[2] = 1
    /\ start \in Nat \cup {NoPage}
    /\ order \in Orders \cup {NoOrder}

\* Inside the loop over a part: $start is in it, at the boundary of a block.
StartInv ==
    start # NoPage =>
        /\ Len(rangesSplit) = Len(ranges) /\ part[1] \in 1..Len(ranges)
        /\ PartAt(ranges, part[1], part[2]) # NoPart
        /\ CutAt(ranges, part[1], part[2]) <= start
        /\ start <= CutAt(ranges, part[1], part[2] + 1)
        /\ Middle => start % Long = 0

ListsInv ==
    /\ Whole(free_area)
    /\ BuddiesOnlyIn(free_area, order)
    /\ order # NoOrder => Topmost(free_area, order)

\* How far the ranges have been added.
Cursor == IF start # NoPage THEN start
          ELSE IF part[1] \in 1..Len(ranges) THEN CutAt(ranges, part[1], part[2])
          ELSE 0

FreedInv ==
    \A p \in Int : Covered(free_area, p) <=> Freed(ranges, p, part[1], Cursor)

AreaInv == AreaTypes /\ StartInv /\ ListsInv /\ FreedInv

LEMMA AreaStarts == AreaInit => AreaInv
<1> SUFFICES ASSUME AreaInit PROVE AreaInv
  OBVIOUS
<1>1. /\ ranges \in RangeLists /\ rangesSplit = <<>> /\ part = <<1, 1>>
      /\ start = NoPage /\ order = NoOrder /\ free_area = [o \in Orders |-> <<>>]
  BY DEF AreaInit, AreaStart
<1>2. Len(ranges) \in Nat
  BY <1>1, RangesAscend
<1>3. AreaTypes
  BY <1>1, <1>2 DEF AreaTypes
<1>4. StartInv
  BY <1>1 DEF StartInv
<1>5. free_area \in AreaLists /\ \A o \in Orders : Size(free_area, o) = 0
  BY <1>1 DEF AreaLists, Size
<1>6. ListsInv
  BY <1>1, <1>5 DEF ListsInv, Whole, BuddiesOnlyIn
<1>7. FreedInv
  <2>1. ASSUME NEW p \in Int PROVE ~Covered(free_area, p)
    BY <1>5 DEF Covered
  <2>2. ASSUME NEW p \in Int PROVE ~Freed(ranges, p, part[1], Cursor)
    <3>1. CASE 1 \in 1..Len(ranges)
      <4>1. Cursor = From(ranges, 1)
        BY <1>1, <3>1, PartsOf DEF Cursor
      <4>2. From(ranges, 1) \in Nat
        BY <1>1, <3>1, RangesAscend
      <4> QED
        BY <1>1, <4>1, <4>2 DEF Freed
    <3>2. CASE 1 \notin 1..Len(ranges)
      BY <1>2, <3>2 DEF Freed
    <3> QED
      BY <3>1, <3>2
  <2> QED
    BY <2>1, <2>2 DEF FreedInv
<1> QED
  BY <1>3, <1>4, <1>6, <1>7 DEF AreaInv

\* The lists, the next part and the page in it: what AreaInv says of these
\* stays when they do.
LEMMA AreaKept ==
  ASSUME AreaInv, UNCHANGED <<ranges, part, start, free_area, order>>
  PROVE  ListsInv' /\ FreedInv'
<1>1. Cursor' = Cursor
  BY DEF Cursor
<1> QED
  BY <1>1 DEF AreaInv, ListsInv, FreedInv

LEMMA SplitRangeStep == AreaInv /\ SplitRange => AreaInv'
<1> SUFFICES ASSUME AreaInv, SplitRange PROVE AreaInv'
  OBVIOUS
<1>1. /\ Len(rangesSplit) < Len(ranges)
      /\ rangesSplit' = Append(rangesSplit, Split(ranges[Len(rangesSplit) + 1][1],
                                                  ranges[Len(rangesSplit) + 1][2]))
      /\ UNCHANGED <<ranges, part, start, free_area, order>>
  BY DEF SplitRange
<1>2. start = NoPage
  BY <1>1, RangesAscend DEF AreaInv, AreaTypes, StartInv
<1>3. AreaTypes'
  <2>1. PICK n \in Nat : n = Len(rangesSplit)
    BY DEF AreaInv, AreaTypes
  <2>2. ranges \in RangeLists /\ Len(ranges) \in Nat
    BY RangesAscend DEF AreaInv, AreaTypes
  <2>3. n + 1 \in 1..Len(ranges)
    BY <1>1, <2>1, <2>2
  <2>4. PICK s : s = Split(ranges[n + 1][1], ranges[n + 1][2])
    OBVIOUS
  <2>5. s \in Splits
    BY <2>2, <2>3, <2>4, RangesAscend DEF Splits
  <2>6. /\ rangesSplit' \in Seq(Splits) /\ Len(rangesSplit') = n + 1
        /\ rangesSplit'[n + 1] = s
        /\ \A r \in 1..n : rangesSplit'[r] = rangesSplit[r]
    BY <1>1, <2>1, <2>4, <2>5 DEF AreaInv, AreaTypes
  <2>7. ASSUME NEW r \in 1..Len(rangesSplit')
        PROVE  rangesSplit'[r] = Split(ranges[r][1], ranges[r][2])
    <3>1. CASE r = n + 1
      BY <2>4, <2>6, <3>1
    <3>2. CASE r \in 1..n
      BY <2>1, <2>6, <3>2 DEF AreaInv, AreaTypes
    <3> QED
      BY <2>6, <3>1, <3>2
  <2>8. Len(rangesSplit') <= Len(ranges)
    BY <2>3, <2>6
  <2> QED
    BY <1>1, <2>6, <2>7, <2>8 DEF AreaInv, AreaTypes
<1>4. StartInv'
  BY <1>1, <1>2 DEF StartInv
<1>5. ListsInv' /\ FreedInv'
  BY <1>1, AreaKept
<1> QED
  BY <1>3, <1>4, <1>5 DEF AreaInv

\* In a part: its number and the range's.
LEMMA InPart ==
  ASSUME AreaInv, Filling
  PROVE  /\ ranges \in RangeLists /\ Len(ranges) \in Nat
         /\ part[1] \in 1..Len(ranges) /\ part[2] \in 1..3
         /\ Part = PartAt(ranges, part[1], part[2])
<1>1. ranges \in RangeLists /\ Len(ranges) \in Nat
  BY RangesAscend DEF AreaInv, AreaTypes
<1>2. part[1] \in 1..Len(ranges) /\ part[2] \in 1..3
  BY <1>1 DEF AreaInv, AreaTypes, Filling
<1> QED
  BY <1>1, <1>2 DEF AreaInv, AreaTypes, Filling, Part, PartAt

\* On to the next part, when all of this one is free.
LEMMA NextPartStep ==
  ASSUME AreaInv, Filling, NextPart, start' = NoPage, order = NoOrder,
         UNCHANGED <<ranges, rangesSplit, free_area, order>>,
         Cursor = CutAt(ranges, part[1], part[2] + 1)
  PROVE  AreaInv'
<1> DEFINE r == part[1]
           q == part[2]
<1>1. /\ ranges \in RangeLists /\ Len(ranges) \in Nat
      /\ r \in 1..Len(ranges) /\ q \in 1..3
  BY InPart
<1>2. part' = IF q < 3 THEN <<r, q + 1>> ELSE <<r + 1, 1>>
  BY DEF NextPart
<1>3. AreaTypes'
  <2>1. /\ part' \in (1..Len(ranges)+1) \X (1..3)
        /\ part'[1] = Len(ranges) + 1 => part'[2] = 1
    BY <1>1, <1>2
  <2> QED
    BY <2>1 DEF AreaInv, AreaTypes
<1>4. StartInv'
  BY DEF StartInv
<1>5. ListsInv'
  BY DEF AreaInv, ListsInv
<1>6. ASSUME NEW p \in Int
      PROVE  Freed(ranges, p, part'[1], Cursor') <=> Freed(ranges, p, r, CutAt(ranges, r, q + 1))
  <2>1. CASE q < 3
    <3>1. part'[1] = r /\ Cursor' = CutAt(ranges, r, q + 1)
      BY <1>1, <1>2, <2>1 DEF Cursor
    <3> QED
      BY <3>1
  <2>2. CASE q = 3
    <3>1. part'[1] = r + 1 /\ part'[2] = 1
      BY <1>2, <2>2
    <3>2. CutAt(ranges, r, q + 1) = To(ranges, r)
      BY <1>1, <2>2, PartsOf
    <3>3. r + 1 \in 1..Len(ranges) => Cursor' = From(ranges, r + 1)
      BY <1>1, <3>1, PartsOf DEF Cursor
    <3> QED
      BY <1>1, <3>1, <3>2, <3>3, FreedNext
  <2> QED
    BY <1>1, <2>1, <2>2
<1>7. FreedInv'
  BY <1>6 DEF AreaInv, FreedInv
<1> QED
  BY <1>3, <1>4, <1>5, <1>7 DEF AreaInv

LEMMA StartPartStep == AreaInv /\ StartPart => AreaInv'
<1> SUFFICES ASSUME AreaInv, StartPart PROVE AreaInv'
  OBVIOUS
<1> DEFINE r == part[1]
           q == part[2]
<1>1. /\ Filling /\ start = NoPage /\ order = NoOrder /\ Len(rangesSplit) = Len(ranges)
      /\ UNCHANGED <<ranges, rangesSplit, free_area, order>>
  BY DEF StartPart, Filling
<1>2. /\ ranges \in RangeLists /\ Len(ranges) \in Nat
      /\ r \in 1..Len(ranges) /\ q \in 1..3
      /\ Part = PartAt(ranges, r, q)
  BY <1>1, InPart
<1>3. Cursor = CutAt(ranges, r, q)
  BY <1>1, <1>2 DEF Cursor
<1>4. /\ CutAt(ranges, r, q) \in Nat /\ CutAt(ranges, r, q) <= CutAt(ranges, r, q + 1)
      /\ PartAt(ranges, r, q) = NoPart => CutAt(ranges, r, q) = CutAt(ranges, r, q + 1)
      /\ PartAt(ranges, r, q) # NoPart =>
            PartAt(ranges, r, q) = <<CutAt(ranges, r, q), CutAt(ranges, r, q + 1) - 1>>
      /\ PartAt(ranges, r, 2) # NoPart => CutAt(ranges, r, 2) % Long = 0
  BY <1>2, PartsOf
<1>5. CASE Part = NoPart
  <2>1. NextPart /\ start' = NoPage
    BY <1>1, <1>5 DEF StartPart
  <2>2. Cursor = CutAt(ranges, r, q + 1)
    BY <1>2, <1>3, <1>4, <1>5
  <2> QED
    BY <1>1, <2>1, <2>2, NextPartStep
<1>6. CASE Part # NoPart
  <2>1. start' = CutAt(ranges, r, q) /\ part' = part
    BY <1>2, <1>4, <1>6 DEF StartPart
  <2>2. AreaTypes'
    BY <1>1, <1>4, <2>1 DEF AreaInv, AreaTypes
  <2>3. StartInv'
    BY <1>1, <1>2, <1>4, <1>6, <2>1 DEF StartInv, Middle
  <2>4. ListsInv'
    BY <1>1 DEF AreaInv, ListsInv
  <2>5. Cursor' = Cursor
    <3>1. start' # NoPage
      BY <1>4, <2>1 DEF NoPage
    <3> QED
      BY <1>3, <2>1, <3>1 DEF Cursor
  <2>6. FreedInv'
    BY <1>1, <2>1, <2>5 DEF AreaInv, FreedInv
  <2> QED
    BY <2>2, <2>3, <2>4, <2>6 DEF AreaInv
<1> QED
  BY <1>5, <1>6

\* A block that begins at $start is above all that was added.
LEMMA BlocksBelow ==
  ASSUME AreaInv, start # NoPage
  PROVE  \A o \in Orders : \A n \in 1..Size(free_area, o) :
            At(free_area, o, n) + Span(o) <= start
<1> SUFFICES ASSUME NEW o \in Orders, NEW n \in 1..Size(free_area, o)
             PROVE  At(free_area, o, n) + Span(o) <= start
  OBVIOUS
<1>1. /\ ranges \in RangeLists /\ part[1] \in 1..Len(ranges) /\ part[2] \in 1..3
      /\ CutAt(ranges, part[1], part[2]) <= start /\ start \in Nat
  BY DEF AreaInv, AreaTypes, StartInv
<1>2. From(ranges, part[1]) <= start
  <2>1. part[2] \in 1..4
    BY <1>1
  <2>2. /\ From(ranges, part[1]) \in Nat
        /\ CutAt(ranges, part[1], part[2]) \in Nat
        /\ From(ranges, part[1]) <= CutAt(ranges, part[1], part[2])
    BY <1>1, <2>1, RangesAscend, PartsOf
  <2> QED
    BY <1>1, <2>2
<1>3. At(free_area, o, n) \in Nat /\ Span(o) \in Nat /\ Span(o) > 0
  BY ListTypes, Spans DEF AreaInv, ListsInv, Whole
<1>4. PICK p \in Int : p = At(free_area, o, n) + Span(o) - 1
  BY <1>3
<1>5. Covered(free_area, p)
  <2>1. At(free_area, o, n) <= p /\ p < At(free_area, o, n) + Span(o)
    BY <1>3, <1>4
  <2> QED
    BY <2>1 DEF Covered
<1>6. Freed(ranges, p, part[1], start)
  BY <1>5 DEF AreaInv, FreedInv, Cursor
<1>7. p < start
  BY <1>1, <1>2, <1>6, FreedBelow
<1> QED
  BY <1>1, <1>3, <1>4, <1>7

\* What addToFreeArea and addToFreeArea6 add.
Into == IF Middle THEN LONG_ORDER ELSE 0

LEMMA AddNextStep == AreaInv /\ AddNext => AreaInv'
<1> SUFFICES ASSUME AreaInv, AddNext PROVE AreaInv'
  OBVIOUS
<1> DEFINE r == part[1]
           q == part[2]
           More == IF Middle THEN start < Part[2] ELSE start <= Part[2]
<1>1. /\ Filling /\ start # NoPage /\ order = NoOrder /\ Len(rangesSplit) = Len(ranges)
      /\ UNCHANGED <<ranges, rangesSplit>>
  BY DEF AddNext, Filling
<1>2. /\ ranges \in RangeLists /\ Len(ranges) \in Nat
      /\ r \in 1..Len(ranges) /\ q \in 1..3
      /\ Part = PartAt(ranges, r, q)
  BY <1>1, InPart
<1>3. /\ start \in Nat /\ PartAt(ranges, r, q) # NoPart
      /\ CutAt(ranges, r, q) <= start /\ start <= CutAt(ranges, r, q + 1)
      /\ Middle => start % Long = 0
  BY <1>1 DEF AreaInv, AreaTypes, StartInv
<1>4. /\ CutAt(ranges, r, q) \in Nat /\ CutAt(ranges, r, q + 1) \in Nat
      /\ From(ranges, r) \in Nat /\ From(ranges, r) <= CutAt(ranges, r, q)
      /\ PartAt(ranges, r, q) = <<CutAt(ranges, r, q), CutAt(ranges, r, q + 1) - 1>>
      /\ Middle => CutAt(ranges, r, q + 1) % Long = 0
  <2>1. q + 1 \in 1..4 /\ q \in 1..4
    BY <1>2
  <2>2. Middle => CutAt(ranges, r, q + 1) % Long = 0
    <3>1. q = 2 => q + 1 = 3
      OBVIOUS
    <3> QED
      BY <1>2, <1>3, <3>1, PartsOf DEF Middle
  <2> QED
    BY <1>2, <1>3, <2>1, <2>2, PartsOf, RangesAscend
<1>5. Part[2] = CutAt(ranges, r, q + 1) - 1
  BY <1>2, <1>4
<1>6. Long \in Int /\ Long > 1 /\ LONG_ORDER \in Orders /\ 0 \in Orders
      /\ Span(0) = 1 /\ Span(LONG_ORDER) = Long
  BY Powers DEF Span, Long
\* In the middle part $start and the end are both multiples of Long.
<1>7. Middle /\ start < CutAt(ranges, r, q + 1) => start + Long <= CutAt(ranges, r, q + 1)
  BY <1>3, <1>4, <1>6, MultiplesApart
<1>8. CASE ~More
  <2>1. NextPart /\ start' = NoPage /\ UNCHANGED <<ranges, rangesSplit, free_area, order>>
    BY <1>1, <1>8 DEF AddNext
  <2>2. start = CutAt(ranges, r, q + 1)
    <3>1. CASE Middle
      BY <1>3, <1>4, <1>5, <1>6, <1>7, <1>8, <3>1
    <3>2. CASE ~Middle
      BY <1>3, <1>4, <1>5, <1>8, <3>2
    <3> QED
      BY <3>1, <3>2
  <2>3. Cursor = CutAt(ranges, r, q + 1)
    BY <1>1, <2>2 DEF Cursor
  <2> QED
    BY <1>1, <2>1, <2>3, NextPartStep
<1>9. CASE More
  <2> DEFINE o == Into
  <2>1. /\ o \in Orders /\ Span(o) = (IF Middle THEN Long ELSE 1) /\ Span(o) \in Nat
        /\ free_area' = [free_area EXCEPT ![o] = Append(@, start)]
        /\ order' = IF free_area[o] = <<>> THEN NoOrder ELSE o
        /\ start' = start + Span(o) /\ part' = part
    <3>1. o \in Orders /\ Span(o) = (IF Middle THEN Long ELSE 1)
      BY <1>6 DEF Into
    <3>2. /\ Add(start, o) /\ part' = part
          /\ start' = start + (IF Middle THEN Long ELSE 1)
      BY <1>9 DEF AddNext, Into
    <3> QED
      BY <3>1, <3>2, Spans DEF Add
  <2>2. start + Span(o) <= CutAt(ranges, r, q + 1)
    <3>1. CASE Middle
      BY <1>3, <1>4, <1>5, <1>7, <1>9, <2>1, <3>1
    <3>2. CASE ~Middle
      BY <1>3, <1>4, <1>5, <1>9, <2>1, <3>2
    <3> QED
      BY <3>1, <3>2
  <2>3. Aligned(start, o)
    <3>1. CASE Middle
      BY <1>3, <1>6, <3>1 DEF Into, Aligned, Long
    <3>2. CASE ~Middle
      <4>1. start % 1 = 0
        BY <1>3
      <4> QED
        BY <3>2, <4>1, Powers DEF Into, Aligned
    <3> QED
      BY <3>1, <3>2
  <2>4. /\ Whole(free_area') /\ Topmost(free_area', o) /\ BuddiesOnlyIn(free_area', o)
        /\ Size(free_area, o) = 0 => BuddiesOnlyIn(free_area', NoOrder)
        /\ \A p : Covered(free_area', p) <=>
                     Covered(free_area, p) \/ (start <= p /\ p < start + Span(o))
    <3>1. free_area' = Appended(free_area, o, start)
      BY <2>1 DEF Appended
    <3>2. Whole(free_area) /\ BuddiesOnlyIn(free_area, NoOrder)
      BY <1>1 DEF AreaInv, ListsInv
    <3> QED
      BY <1>1, <1>3, <2>1, <2>3, <3>1, <3>2, BlocksBelow, AddLists
  <2>5. ListsInv'
    <3>1. Size(free_area, o) = 0 <=> free_area[o] = <<>>
      <4>1. free_area[o] \in Seq(Nat)
        BY <2>1 DEF AreaInv, ListsInv, Whole, AreaLists
      <4> QED
        BY <4>1 DEF Size
    <3> QED
      BY <2>1, <2>4, <3>1 DEF ListsInv
  <2>6. start' \in Nat /\ start' # NoPage
    BY <1>3, <2>1 DEF NoPage
  <2>7. AreaTypes'
    <3>1. order' \in Orders \cup {NoOrder}
      BY <2>1
    <3> QED
      BY <1>1, <2>1, <2>6, <3>1 DEF AreaInv, AreaTypes
  <2>8. StartInv'
    <3>1. Middle => start' % Long = 0
      BY <1>3, <1>6, <2>1, NextMultiple
    <3>2. CutAt(ranges, r, q) <= start' /\ start' <= CutAt(ranges, r, q + 1)
      BY <1>3, <1>4, <2>1, <2>2
    <3> QED
      BY <1>1, <1>2, <1>3, <2>1, <3>1, <3>2 DEF StartInv, Middle
  <2>9. FreedInv'
    <3>1. ASSUME NEW p \in Int
          PROVE  Covered(free_area', p) <=> Freed(ranges, p, r, start')
      <4>1. Covered(free_area, p) <=> Freed(ranges, p, r, start)
        BY <1>1 DEF AreaInv, FreedInv, Cursor
      <4>2. Freed(ranges, p, r, start + Span(o)) <=>
               Freed(ranges, p, r, start) \/ (start <= p /\ p < start + Span(o))
        <5>1. From(ranges, r) <= start
          BY <1>3, <1>4
        <5> QED
          BY <1>2, <1>3, <2>1, <5>1, FreedMore
      <4> QED
        BY <2>1, <2>4, <4>1, <4>2
    <3>2. Cursor' = start' /\ part'[1] = r /\ ranges' = ranges
      BY <1>1, <2>1, <2>6 DEF Cursor
    <3> QED
      BY <3>1, <3>2 DEF FreedInv
  <2> QED
    BY <2>5, <2>7, <2>8, <2>9 DEF AreaInv
<1> QED
  BY <1>8, <1>9

LEMMA mergeFreeAreaStep == AreaInv /\ mergeFreeArea => AreaInv'
<1> SUFFICES ASSUME AreaInv, mergeFreeArea PROVE AreaInv'
  OBVIOUS
<1>1. /\ order \in Orders /\ order # NoOrder
      /\ Whole(free_area) /\ BuddiesOnlyIn(free_area, order) /\ Topmost(free_area, order)
      /\ UNCHANGED <<ranges, rangesSplit, part, start>>
  BY DEF mergeFreeArea, AreaInv, AreaTypes, ListsInv
<1>2. StartInv' /\ Cursor' = Cursor
  BY <1>1 DEF AreaInv, StartInv, Cursor, Middle
<1>3. CASE Merges(free_area[order], order)
  <2>1. free_area' = Merged(free_area, order) /\ order' = order + 1
    BY <1>3 DEF mergeFreeArea, Merged
  <2>2. /\ order + 1 \in Orders /\ Whole(free_area')
        /\ Topmost(free_area', order + 1) /\ BuddiesOnlyIn(free_area', order + 1)
        /\ \A p \in Int : Covered(free_area', p) <=> Covered(free_area, p)
    BY <1>1, <1>3, <2>1, MergeLists
  <2>3. AreaTypes'
    BY <1>1, <2>1, <2>2 DEF AreaInv, AreaTypes
  <2>4. ListsInv'
    BY <2>1, <2>2 DEF ListsInv
  <2>5. FreedInv'
    BY <1>1, <1>2, <2>2 DEF AreaInv, FreedInv
  <2> QED
    BY <1>2, <2>3, <2>4, <2>5 DEF AreaInv
<1>4. CASE ~Merges(free_area[order], order)
  <2>1. free_area' = free_area /\ order' = NoOrder
    BY <1>4 DEF mergeFreeArea
  <2>2. BuddiesOnlyIn(free_area, NoOrder)
    BY <1>1, <1>4, StopLists
  <2>3. AreaTypes'
    BY <1>1, <2>1 DEF AreaInv, AreaTypes
  <2>4. ListsInv'
    BY <1>1, <2>1, <2>2 DEF ListsInv
  <2>5. FreedInv'
    BY <1>1, <1>2, <2>1 DEF AreaInv, FreedInv
  <2> QED
    BY <1>2, <2>3, <2>4, <2>5 DEF AreaInv
<1> QED
  BY <1>3, <1>4

LEMMA AreaStutter == AreaInv /\ UNCHANGED areaVars => AreaInv'
<1> SUFFICES ASSUME AreaInv, UNCHANGED areaVars PROVE AreaInv'
  OBVIOUS
<1>1. UNCHANGED <<ranges, rangesSplit, part, start, free_area, order>>
  BY DEF areaVars
<1>2. AreaTypes' /\ StartInv'
  BY <1>1 DEF AreaInv, AreaTypes, StartInv, Middle
<1>3. ListsInv' /\ FreedInv'
  BY <1>1, AreaKept
<1> QED
  BY <1>2, <1>3 DEF AreaInv

\* AreaInv, for range2freearea.php: it holds before and after every step.
THEOREM AreaInvariant == AreaSpec => []AreaInv
<1>1. AreaInit => AreaInv
  BY AreaStarts
<1>2. AreaInv /\ [AreaNext]_areaVars => AreaInv'
  BY SplitRangeStep, StartPartStep, AddNextStep, mergeFreeAreaStep, AreaStutter DEF AreaNext
<1> QED
  BY <1>1, <1>2, PTL DEF AreaSpec

-----------------------------------------------------------------------------
(* The properties.                                                         *)

\* The free pages as FreesOnce has them, and as a function of the lists.
AreaFree == UNION {Block(e) : e \in AreaBlocks}
EntriesOf(fa) == UNION {{<<o, n>> : n \in DOMAIN fa[o]} : o \in Orders}
FreeIn(fa) ==
    UNION {At(fa, e[1], e[2]) .. At(fa, e[1], e[2]) + Span(e[1]) - 1 :
              e \in EntriesOf(fa)}

LEMMA AreaEntriesAre ==
  ASSUME NEW fa \in AreaLists
  PROVE  /\ \A e \in EntriesOf(fa) : /\ e[1] \in Orders /\ e[2] \in 1..Size(fa, e[1])
                                     /\ e = <<e[1], e[2]>>
         /\ \A o \in Orders : \A n \in 1..Size(fa, o) : <<o, n>> \in EntriesOf(fa)
<1>1. \A o \in Orders : DOMAIN fa[o] = 1..Size(fa, o)
  BY DEF AreaLists, Size
<1>2. ASSUME NEW e \in EntriesOf(fa)
      PROVE  e[1] \in Orders /\ e[2] \in 1..Size(fa, e[1]) /\ e = <<e[1], e[2]>>
  <2>1. PICK o \in Orders : e \in {<<o, n>> : n \in DOMAIN fa[o]}
    BY DEF EntriesOf
  <2>2. PICK n \in DOMAIN fa[o] : e = <<o, n>>
    BY <2>1
  <2> QED
    BY <1>1, <2>2
<1>3. ASSUME NEW o \in Orders, NEW n \in 1..Size(fa, o)
      PROVE  <<o, n>> \in EntriesOf(fa)
  <2>1. n \in DOMAIN fa[o]
    BY <1>1
  <2>2. <<o, n>> \in {<<o, m>> : m \in DOMAIN fa[o]}
    BY <2>1
  <2> QED
    BY <2>2 DEF EntriesOf
<1> QED
  BY <1>2, <1>3

LEMMA FreeIsCovered ==
  ASSUME NEW fa \in AreaLists, NEW p
  PROVE  p \in FreeIn(fa) <=> p \in Int /\ Covered(fa, p)
<1>1. ASSUME NEW o \in Orders, NEW n \in 1..Size(fa, o)
      PROVE  p \in At(fa, o, n) .. At(fa, o, n) + Span(o) - 1 <=>
                p \in Int /\ At(fa, o, n) <= p /\ p < At(fa, o, n) + Span(o)
  <2>1. At(fa, o, n) \in Nat /\ Span(o) \in Nat
    BY ListTypes, Spans
  <2> QED
    BY <2>1
<1>2. ASSUME p \in FreeIn(fa) PROVE p \in Int /\ Covered(fa, p)
  <2>1. PICK e \in EntriesOf(fa) :
           p \in At(fa, e[1], e[2]) .. At(fa, e[1], e[2]) + Span(e[1]) - 1
    BY <1>2 DEF FreeIn
  <2>2. e[1] \in Orders /\ e[2] \in 1..Size(fa, e[1])
    BY AreaEntriesAre
  <2> QED
    BY <1>1, <2>1, <2>2 DEF Covered
<1>3. ASSUME p \in Int, Covered(fa, p) PROVE p \in FreeIn(fa)
  <2>1. PICK o \in Orders : \E n \in 1..Size(fa, o) :
           At(fa, o, n) <= p /\ p < At(fa, o, n) + Span(o)
    BY <1>3 DEF Covered
  <2>2. PICK n \in 1..Size(fa, o) : At(fa, o, n) <= p /\ p < At(fa, o, n) + Span(o)
    BY <2>1
  <2>3. p \in At(fa, o, n) .. At(fa, o, n) + Span(o) - 1
    BY <1>1, <1>3, <2>2
  <2>4. PICK e \in EntriesOf(fa) : e[1] = o /\ e[2] = n
    <3>1. <<o, n>> \in EntriesOf(fa) /\ <<o, n>>[1] = o /\ <<o, n>>[2] = n
      BY AreaEntriesAre
    <3> QED
      BY <3>1
  <2> QED
    BY <2>3, <2>4 DEF FreeIn
<1> QED
  BY <1>2, <1>3

LEMMA FreeNow ==
  /\ AreaFree = FreeIn(free_area) /\ AreaFree' = FreeIn(free_area')
  /\ AreaBlocks = EntriesOf(free_area)
BY DEF AreaFree, FreeIn, AreaBlocks, EntriesOf, Block, First, At, Span

\* The blocks of the lists and what BuddyLists says of them.
LEMMA ListsBuddy == AreaInv => BuddyLists
<1> SUFFICES ASSUME AreaInv, order = NoOrder PROVE
      /\ \A e \in AreaBlocks : First(e) % pow[e[1]] = 0
      /\ \A e, f \in AreaBlocks :
            /\ e # f => Block(e) \cap Block(f) = {}
            /\ ~Buddies(e, f)
      /\ part[1] > Len(ranges) =>
            UNION {Block(e) : e \in AreaBlocks} =
            UNION {ranges[r][1] .. ranges[r][2] - 1 : r \in DOMAIN ranges}
  BY DEF BuddyLists
<1>1. /\ Whole(free_area) /\ BuddiesOnlyIn(free_area, NoOrder) /\ free_area \in AreaLists
  BY DEF AreaInv, ListsInv, Whole
<1>2. ASSUME NEW e \in AreaBlocks
      PROVE  /\ e[1] \in Orders /\ e[2] \in 1..Size(free_area, e[1])
             /\ e = <<e[1], e[2]>>
             /\ First(e) = At(free_area, e[1], e[2]) /\ First(e) \in Nat
             /\ Span(e[1]) \in Nat /\ Span(e[1]) > 0
  <2>1. /\ e[1] \in Orders /\ e[2] \in 1..Size(free_area, e[1]) /\ e = <<e[1], e[2]>>
    BY <1>1, FreeNow, AreaEntriesAre
  <2>2. First(e) = At(free_area, e[1], e[2])
    BY DEF First, At
  <2> QED
    BY <1>1, <2>1, <2>2, ListTypes, Spans
<1>3. ASSUME NEW e \in AreaBlocks PROVE First(e) % pow[e[1]] = 0
  BY <1>1, <1>2 DEF Whole, Aligned
<1>4. ASSUME NEW e \in AreaBlocks, NEW f \in AreaBlocks, e # f
      PROVE  Block(e) \cap Block(f) = {}
  <2>1. Apart(free_area, e[1], e[2], f[1], f[2])
    <3>1. e[1] # f[1] \/ e[2] # f[2]
      BY <1>2, <1>4
    <3> QED
      BY <1>1, <1>2, <3>1 DEF Whole
  <2> QED
    BY <1>2, <2>1 DEF Apart, Block, Span
<1>5. ASSUME NEW e \in AreaBlocks, NEW f \in AreaBlocks PROVE ~Buddies(e, f)
  <2>1. SUFFICES ASSUME Buddies(e, f) PROVE FALSE
    OBVIOUS
  <2>2. /\ e[1] = f[1] /\ e[1] < MAX_ORDER /\ Aligned(First(e), e[1] + 1)
        /\ First(f) = First(e) + Span(e[1])
    BY <2>1 DEF Buddies, Aligned, Span
  <2>3. e[1] = NoOrder
    BY <1>1, <1>2, <2>2 DEF BuddiesOnlyIn
  <2> QED
    BY <1>2, <2>3, Spans DEF NoOrder
<1>6. ASSUME part[1] > Len(ranges)
      PROVE  UNION {Block(e) : e \in AreaBlocks} =
             UNION {ranges[r][1] .. ranges[r][2] - 1 : r \in DOMAIN ranges}
  <2>1. /\ ranges \in RangeLists /\ Len(ranges) \in Nat /\ DOMAIN ranges = 1..Len(ranges)
        /\ part[1] = Len(ranges) + 1
    BY <1>6, RangesAscend DEF AreaInv, AreaTypes
  <2>2. ASSUME NEW p \in Int
        PROVE  Freed(ranges, p, part[1], Cursor) <=>
                  \E r \in DOMAIN ranges : p \in ranges[r][1] .. ranges[r][2] - 1
    <3>1. ASSUME NEW r \in 1..Len(ranges)
          PROVE  /\ r < part[1] /\ r # part[1]
                 /\ p \in ranges[r][1] .. ranges[r][2] - 1 <=>
                       From(ranges, r) <= p /\ p < To(ranges, r)
      BY <2>1, RangesAscend DEF From, To
    <3> QED
      BY <2>1, <3>1 DEF Freed
  <2>3. ASSUME NEW p
        PROVE  p \in UNION {Block(e) : e \in AreaBlocks} <=>
               p \in UNION {ranges[r][1] .. ranges[r][2] - 1 : r \in DOMAIN ranges}
    <3>1. p \in UNION {Block(e) : e \in AreaBlocks} <=> p \in Int /\ Covered(free_area, p)
      BY <1>1, FreeNow, FreeIsCovered DEF AreaFree
    <3>2. p \in UNION {ranges[r][1] .. ranges[r][2] - 1 : r \in DOMAIN ranges} <=>
             \E r \in DOMAIN ranges : p \in ranges[r][1] .. ranges[r][2] - 1
      OBVIOUS
    <3>3. (\E r \in DOMAIN ranges : p \in ranges[r][1] .. ranges[r][2] - 1) => p \in Int
      OBVIOUS
    <3> QED
      BY <2>2, <3>1, <3>2, <3>3 DEF AreaInv, FreedInv
  <2> QED
    BY <2>3
<1> QED
  BY <1>3, <1>4, <1>5, <1>6

\* BuddyLists, for range2freearea.php: whenever mergeFreeArea is not at work,
\* every block of the lists is aligned, no page is in two of them and no two
\* blocks of a list are buddies; at the end they are the pages of the ranges.
THEOREM ListsAreBuddies == AreaSpec => []BuddyLists
<1>1. AreaInv => BuddyLists
  BY ListsBuddy
<1> QED
  BY <1>1, AreaInvariant, PTL

LEMMA MergeKeepsFree ==
  ASSUME AreaInv, AreaInv', mergeFreeArea
  PROVE  AreaFree' = AreaFree
<1>1. free_area \in AreaLists /\ free_area' \in AreaLists
  BY DEF AreaInv, ListsInv, Whole
<1>2. UNCHANGED <<ranges, part>> /\ Cursor' = Cursor
  BY DEF mergeFreeArea, Cursor
<1>3. ASSUME NEW p \in Int
      PROVE  Covered(free_area', p) <=> Covered(free_area, p)
  BY <1>2 DEF AreaInv, FreedInv
<1>4. \A p : p \in AreaFree' <=> p \in AreaFree
  BY <1>1, <1>3, FreeNow, FreeIsCovered
<1> QED
  BY <1>4

LEMMA AddFreesBlock ==
  ASSUME AreaInv, AreaInv', AddNext, free_area' # free_area
  PROVE  Pages!FreePagesNext
<1> DEFINE size == IF Middle THEN Long ELSE 1
           r == part[1]
<1>1. /\ start # NoPage /\ start \in Nat /\ part' = part /\ ranges' = ranges
      /\ start' = start + size /\ size \in Nat /\ size > 0 /\ size \in {1, Long}
      /\ ranges \in RangeLists /\ r \in 1..Len(ranges) /\ part[2] \in 1..3
      /\ CutAt(ranges, r, part[2]) <= start
  <2>1. Long \in Nat /\ Long > 1
    BY Powers
  <2> QED
    BY <2>1 DEF AddNext, AreaInv, AreaTypes, StartInv
<1>a. Middle => start % Long = 0
  BY <1>1 DEF AreaInv, StartInv
<1>2. From(ranges, r) \in Nat /\ From(ranges, r) <= start
  <2>1. part[2] \in 1..4
    BY <1>1
  <2>2. /\ From(ranges, r) \in Nat
        /\ CutAt(ranges, r, part[2]) \in Nat
        /\ From(ranges, r) <= CutAt(ranges, r, part[2])
    BY <1>1, <2>1, RangesAscend, PartsOf
  <2>3. CutAt(ranges, r, part[2]) <= start /\ start \in Nat
    BY <1>1
  <2> QED
    BY <2>2, <2>3
<1>3. free_area \in AreaLists /\ free_area' \in AreaLists
  BY DEF AreaInv, ListsInv, Whole
<1>4. ASSUME NEW p \in Int
      PROVE  /\ Covered(free_area, p) => p < start
             /\ Covered(free_area', p) <=>
                   Covered(free_area, p) \/ (start <= p /\ p < start + size)
  <2>1. Covered(free_area, p) <=> Freed(ranges, p, r, start)
    BY <1>1 DEF AreaInv, FreedInv, Cursor
  <2>2. Covered(free_area', p) <=> Freed(ranges, p, r, start + size)
    <3>1. Cursor' = start + size
      BY <1>1 DEF Cursor, NoPage
    <3> QED
      BY <1>1, <3>1 DEF AreaInv, FreedInv
  <2>3. Freed(ranges, p, r, start) => p < start
    BY <1>1, <1>2, FreedBelow
  <2>4. Freed(ranges, p, r, start + size) <=>
           Freed(ranges, p, r, start) \/ (start <= p /\ p < start + size)
    BY <1>1, <1>2, FreedMore
  <2> QED
    BY <2>1, <2>2, <2>3, <2>4
<1>5. \A p : p \in start .. start + size - 1 <=> p \in Int /\ start <= p /\ p < start + size
  BY <1>1
<1>6. AreaFree' = AreaFree \cup (start .. start + size - 1)
  <2>1. \A p : p \in AreaFree' <=> p \in AreaFree \/ p \in start .. start + size - 1
    BY <1>3, <1>4, <1>5, FreeNow, FreeIsCovered
  <2> QED
    BY <2>1
<1>7. AreaFree \cap (start .. start + size - 1) = {}
  <2>1. \A p : ~(p \in AreaFree /\ p \in start .. start + size - 1)
    BY <1>1, <1>3, <1>4, <1>5, FreeNow, FreeIsCovered
  <2> QED
    BY <2>1
<1>8. start \in AreaFree' \ AreaFree
  <2>1. start \in start .. start + size - 1
    BY <1>1
  <2> QED
    BY <1>6, <1>7, <2>1
<1>9. start % size = 0
  <2>1. CASE Middle
    BY <1>a, <2>1
  <2>2. CASE ~Middle
    <3>1. start % 1 = 0
      BY <1>1
    <3> QED
      BY <2>2, <3>1
  <2> QED
    BY <2>1, <2>2
<1> QED
  BY <1>1, <1>6, <1>7, <1>8, <1>9 DEF Pages!FreePagesNext, Pages!FreeBlock, AreaFree

\* FreesOnce, for range2freearea.php: the lists stand for a set of free pages
\* that only grows, by whole aligned blocks none of whose pages was free before.
THEOREM ListsFreeOnce == AreaSpec => FreesOnce
<1>1. AreaInit => Pages!FreePagesInit
  <2> SUFFICES ASSUME AreaInit PROVE UNION {Block(e) : e \in AreaBlocks} = {}
    BY DEF Pages!FreePagesInit
  <2>1. AreaBlocks = {}
    BY DEF AreaInit, AreaStart, AreaBlocks
  <2> QED
    BY <2>1
<1>2. AreaInv /\ AreaInv' /\ [AreaNext]_areaVars =>
         [Pages!FreePagesNext]_(UNION {Block(e) : e \in AreaBlocks})
  <2> SUFFICES ASSUME AreaInv, AreaInv', [AreaNext]_areaVars,
                      AreaFree' # AreaFree
               PROVE  Pages!FreePagesNext
    BY DEF AreaFree
  <2>1. free_area' # free_area
    BY DEF AreaFree, AreaBlocks, Block, First
  <2>2. CASE mergeFreeArea
    BY <2>2, MergeKeepsFree
  <2>3. CASE AddNext
    BY <2>1, <2>3, AddFreesBlock
  <2>4. ~SplitRange /\ ~StartPart /\ ~UNCHANGED areaVars
    BY <2>1 DEF SplitRange, StartPart, areaVars
  <2> QED
    BY <2>2, <2>3, <2>4 DEF AreaNext
<1> QED
  BY <1>1, <1>2, AreaInvariant, PTL DEF AreaSpec, FreesOnce, Pages!FreePagesSpec
=============================================================================
