------------------------------- MODULE ReadMyi -------------------------------
(***************************************************************************)
(* mysql/read-MYI.c: print the keys of a MyISAM index file.                *)
(*                                                                         *)
(* A file is a record of what its writer put in the header, and the pages  *)
(* of its trees.  The writer's bytes of a page are computed from the page; *)
(* the reader only looks at those bytes, counts what it has read, and must *)
(* recognise by itself where each key ends.  A byte is a digit in Base.    *)
(***************************************************************************)
EXTENDS Layout, FiniteSets, Functions

CONSTANTS
    MyiFiles,       \* the files
    Base,           \* values of a byte: 256
    MAX_KEYS, MAX_SEGS,
    BUF_LEN,        \* the buffer that eat reads into: 2048
    MAX_SUBPAGES,   \* the children that printBtreeNode has room for: 100
    Null,           \* a NULL column of a key
    HA_OFFSET_ERROR \* the root of an empty index

KEY_ALG_BTREE == 1
VARTEXT1 == 15

-----------------------------------------------------------------------------
(* Numbers, most significant byte first.  The bytes are combined as int, so *)
(* that the fourth from the end, shifted by 24, makes the lower half       *)
(* negative when its upper bit is set: then all bits above are set too.    *)

\* n without its last bytes, up to all of len.
Shifted(n, len) ==
    LET rest[i \in 0..len] == IF i = 0 THEN n ELSE rest[i - 1] \div Base
    IN  rest

Bytes(n, len) == [i \in 1..len |-> Shifted(n, len)[len - i] % Base]

\* The numbers that the first bytes stand for.
Values(b) ==
    LET value[i \in 0..Len(b)] == IF i = 0 THEN 0 ELSE value[i - 1] * Base + b[i]
    IN  value

Value(b) == Values(b)[Len(b)]

Int32 == Base * Base * Base * Base
Low(b) == Value(SubSeq(b, Len(b) - 3, Len(b)))
High(b) == Value(SubSeq(b, 1, Len(b) - 4))

SignExtended(b) == Int32 * Int32 - Int32 + Low(b)

buf2MysqlUint40(b) == IF b[2] >= Base \div 2 THEN SignExtended(b)
                      ELSE High(b) * Int32 + Low(b)
buf2MysqlUint48(b) == IF b[3] >= Base \div 2 THEN SignExtended(b)
                      ELSE High(b) * Int32 + Low(b)
buf2MysqlUint64(b) == IF b[5] >= Base \div 2 THEN SignExtended(b)
                      ELSE High(b) * Int32 + Low(b)

\* n can be written in len bytes, and is not taken for a negative number.
Held(n, len) == /\ n \in Nat /\ Shifted(n, len)[len] = 0
                /\ Low(Bytes(n, len)) < Int32 \div 2

-----------------------------------------------------------------------------
(* Files.                                                                  *)

\* MyISAM's keys are shorter than the buffer.
Column == [type : Nat, maybeNull : BOOLEAN, len : 0..BUF_LEN]
Index == [root : Nat \cup {HA_OFFSET_ERROR}, alg : Nat, segs : Seq(Column)]
PageType == [keys : Seq(Seq(Nat \cup {Null})), kids : Seq(Nat)]

\* A value that can be in a column; a text is as long as one byte can say.
InColumn(value, s) == IF value = Null THEN s.maybeNull
                      ELSE s.type = VARTEXT1 => value < Base

\* A page with keys of index k.
PageFor(k, p) ==
    \A n \in DOMAIN p.keys :
        /\ Len(p.keys[n]) = Len(k.segs)
        /\ \A i \in DOMAIN k.segs : InColumn(p.keys[n][i], k.segs[i])

\* The files the reader is for: no node has more children than it has room
\* for, no child is so far that its number is taken for negative, and the pages
\* of a tree that are there are pages of its index.
IsFile(f) ==
    /\ f.keydef \in Seq(Index) /\ f.recordRefLen \in Nat \ {0}
    /\ f.keyRefLen \in Nat
    /\ f.records \in Nat /\ Shifted(f.records, 8)[8] = 0
    /\ f.pages \in [DOMAIN f.pages -> PageType]
    /\ \A b \in DOMAIN f.pages :
          LET p == f.pages[b]
          IN  p.kids # <<>> => /\ Len(p.kids) = Len(p.keys) + 1
                               /\ Len(p.kids) <= MAX_SUBPAGES
                               /\ f.keyRefLen \in {5, 6} =>
                                     \A c \in Range(p.kids) : Held(c, f.keyRefLen)
    /\ \A k \in Range(f.keydef) :
          /\ k.root \in DOMAIN f.pages => PageFor(k, f.pages[k.root])
          /\ \A b, c \in DOMAIN f.pages :
                PageFor(k, f.pages[b]) /\ c \in Range(f.pages[b].kids)
                   => PageFor(k, f.pages[c])

\* The trees have no page in common: a page is one page's child at most, and
\* that once; a root is nobody's.
IsForest(f) ==
    /\ \A k \in Range(f.keydef), b \in DOMAIN f.pages : k.root \notin Range(f.pages[b].kids)
    /\ \A b, c \in DOMAIN f.pages :
          \A i \in DOMAIN f.pages[b].kids, j \in DOMAIN f.pages[c].kids :
             f.pages[b].kids[i] = f.pages[c].kids[j] => b = c /\ i = j

ASSUME MyiAssumption ==
    /\ Base \in Nat \ {0, 1} /\ Base % 2 = 0
    /\ Null \notin Nat /\ BUF_LEN \in Nat /\ MAX_SUBPAGES \in Nat
    /\ \A f \in MyiFiles : IsFile(f)

ASSUME ForestAssumption == \A f \in MyiFiles : IsForest(f)

VARIABLES
    myi,   \* the file
    mpc,   \* where main is
    index, \* i, the index being read or printed
    records, \* header.records
    pos,   \* the file position: a block and the bytes of it already read
    pages, \* the activations of printBtreeNode, the innermost last
    seen   \* history: the pages entered, with the index they belong to

myiVars == <<myi, mpc, index, records, pos, pages, seen>>

-----------------------------------------------------------------------------
(* The writer: MyISAM, as the reader takes it.                             *)

Segs(k) == myi.keydef[k].segs

SegBytes(s, value) ==
    IF value = Null THEN <<0>>
    ELSE (IF s.maybeNull THEN <<1>> ELSE <<>>)
         \o (IF s.type = VARTEXT1 THEN Bytes(value, 2) ELSE <<>>)
         \o [i \in 1..(IF s.type = VARTEXT1 THEN value ELSE s.len) |-> 1]

KeyBytes(k, key) ==
    Join([i \in DOMAIN key |-> SegBytes(Segs(k)[i], key[i])])
    \o [i \in 1..myi.recordRefLen |-> 1]

ChildBytes(p, i) == IF p.kids = <<>> THEN <<>>
                    ELSE Bytes(p.kids[i], myi.keyRefLen)

\* The first n keys of a page, each followed by its child when there are any.
Prefix(k, p, n) ==
    ChildBytes(p, 1)
    \o Joins([i \in DOMAIN p.keys |->
                KeyBytes(k, p.keys[i]) \o ChildBytes(p, i + 1)])[n]

Content(k, p) == Prefix(k, p, Len(p.keys))

\* What is on the disk behind the header of a page: the content, then zeros.
Byte(k, b, i) == LET c == Content(k, myi.pages[b])
                 IN IF i \in DOMAIN c THEN c[i] ELSE 0

-----------------------------------------------------------------------------
(* The reader.                                                             *)

MyiStart ==
    /\ mpc = "state"
    /\ index = 1 /\ records = 0
    /\ pos = <<0, 0>>
    /\ pages = <<>>
    /\ seen = <<>>

MyiInit == myi \in MyiFiles /\ MyiStart

exit == mpc' = "exit" /\ UNCHANGED <<myi, index, records, pos, pages, seen>>

\* main, the state and base parts of the header.
ReadState ==
    /\ mpc = "state"
    /\ IF Len(myi.keydef) > MAX_KEYS
       THEN exit
       ELSE /\ mpc' = "keydef"
            /\ records' = buf2MysqlUint64(Bytes(myi.records, 8))
            /\ UNCHANGED <<myi, index, pos, pages, seen>>

\* main, the definition of one index.
ReadKeydef ==
    /\ mpc = "keydef"
    /\ IF index > Len(myi.keydef)
       THEN /\ mpc' = "walk" /\ index' = 1
            /\ UNCHANGED <<myi, pos, pages, seen, records>>
       ELSE IF \/ Len(Segs(index)) > MAX_SEGS
               \/ myi.keydef[index].alg # KEY_ALG_BTREE
            THEN exit
            ELSE /\ index' = index + 1
                 /\ UNCHANGED <<myi, mpc, pos, pages, seen, records>>

Frame(b) == [block |-> b, offset |-> 0, keys |-> 0, kids |-> <<>>, i |-> 0]

\* printBtreeNode is called on block b: the page header is read, from a block
\* that must be there.
Enter(b, callers) ==
    IF b \in DOMAIN myi.pages
    THEN /\ pages' = Append(callers, Frame(b))
         /\ pos' = <<b, 2>>
         /\ seen' = Append(seen, <<index, b>>)
         /\ UNCHANGED <<myi, mpc, index, records>>
    ELSE exit

\* main, the loop over the indexes.
NextIndex ==
    /\ mpc = "walk" /\ pages = <<>>
    /\ IF index > Len(myi.keydef)
       THEN /\ mpc' = "done"
            /\ UNCHANGED <<myi, index, records, pos, pages, seen>>
       ELSE IF myi.keydef[index].root = HA_OFFSET_ERROR
            THEN /\ index' = index + 1
                 /\ UNCHANGED <<myi, mpc, pos, pages, seen, records>>
            ELSE Enter(myi.keydef[index].root, <<>>)

Top == pages[Len(pages)]
Page == myi.pages[Top.block]
IsLeaf == Page.kids = <<>>
KeyValuesLen == Len(Content(index, Page))

\* The n bytes that eat puts in buf, behind p bytes of the page's content.
Buf(p, n) == [i \in 1..n |-> Byte(index, Top.block, p + i)]

\* Mutant: the length of a VARTEXT1 is taken to be one byte.
SegEndShort(p, s) ==
    LET q == IF s.maybeNull THEN p + 1 ELSE p
    IN IF s.maybeNull /\ Buf(p, 1) = <<0>> THEN q
       ELSE IF s.type = VARTEXT1 THEN q + 1 + Buf(q, 1)[1]
       ELSE q + s.len

\* One column of printKeyValue, from p on: where it ends.
SegEnd(p, s) ==
    LET q == IF s.maybeNull THEN p + 1 ELSE p
    IN IF s.maybeNull /\ Buf(p, 1) = <<0>> THEN q
       ELSE IF s.type = VARTEXT1 THEN q + 2 + Buf(q, 2)[2]
       ELSE q + s.len

\* Where the first columns of a key end that begins at p.
SegEnds(p) ==
    LET end[n \in 0..Len(Segs(index))] ==
          IF n = 0 THEN p ELSE SegEnd(end[n - 1], Segs(index)[n])
    IN  end

printKeyValue(p) == SegEnds(p)[Len(Segs(index))] + myi.recordRefLen

calcKeyRef(b) == IF myi.keyRefLen = 5 THEN buf2MysqlUint40(b)
                                      ELSE buf2MysqlUint48(b)

Reading ==
    /\ mpc = "walk" /\ pages # <<>>
    /\ Top.i = 0

\* The bytes up to p were a key or the first child; a node's next child follows.
Eaten(p, keys) ==
    LET q == IF IsLeaf THEN p ELSE p + myi.keyRefLen
        kids == IF IsLeaf THEN <<>>
                ELSE <<calcKeyRef(Buf(p, myi.keyRefLen))>>
    IN IF ~IsLeaf /\ myi.keyRefLen \notin {5, 6}
       THEN exit
       ELSE /\ pages' = [pages EXCEPT ![Len(pages)].offset = q,
                                      ![Len(pages)].keys = keys,
                                      ![Len(pages)].kids = @ \o kids]
            /\ pos' = <<Top.block, 2 + q>>
            /\ UNCHANGED <<myi, mpc, index, seen, records>>

FirstChild ==
    /\ Reading /\ ~IsLeaf /\ Top.kids = <<>>
    /\ Eaten(0, 0)

NextKey ==
    /\ Reading /\ (~IsLeaf => Top.kids # <<>>)
    /\ Top.offset < KeyValuesLen
    /\ Eaten(printKeyValue(Top.offset), Top.keys + 1)

\* The loop over the content is over: a leaf returns, a node goes to its
\* children, in order, each behind an lseek; then it returns.
PageRead ==
    /\ Reading /\ (~IsLeaf => Top.kids # <<>>)
    /\ Top.offset >= KeyValuesLen
    /\ pages' = [pages EXCEPT ![Len(pages)].i = 1]
    /\ UNCHANGED <<myi, mpc, index, pos, seen, records>>

Descend ==
    /\ mpc = "walk" /\ pages # <<>>
    /\ Top.i \in DOMAIN Top.kids
    /\ Enter(Top.kids[Top.i],
             [pages EXCEPT ![Len(pages)].i = Top.i + 1])

\* Mutant: the last child is left out.
ReturnFromPageEarly ==
    /\ mpc = "walk" /\ pages # <<>>
    /\ Top.i > 0 /\ Top.i >= Len(Top.kids)
    /\ pages' = SubSeq(pages, 1, Len(pages) - 1)
    /\ index' = IF Len(pages) = 1 THEN index + 1 ELSE index
    /\ UNCHANGED <<myi, mpc, pos, seen, records>>

ReturnFromPage ==
    /\ mpc = "walk" /\ pages # <<>>
    /\ Top.i > Len(Top.kids)
    /\ pages' = SubSeq(pages, 1, Len(pages) - 1)
    /\ index' = IF Len(pages) = 1 THEN index + 1 ELSE index
    /\ UNCHANGED <<myi, mpc, pos, seen, records>>

MyiNext ==
    \/ ReadState
    \/ ReadKeydef
    \/ NextIndex
    \/ FirstChild
    \/ NextKey
    \/ PageRead
    \/ Descend
    \/ ReturnFromPage

MyiSpec == MyiInit /\ [][MyiNext]_myiVars

-----------------------------------------------------------------------------
(* Properties.                                                             *)

\* The number of records printed is the one in the file, unless the upper bit
\* of its lower half is set: then the conversion to 64 bits extends the sign.
HeaderRead ==
    mpc # "state" /\ mpc # "exit" /\ Low(Bytes(myi.records, 8)) < Int32 \div 2
        => records = myi.records

\* The reader is where the writer has the end of a key (and of its child), on
\* every page and after every key, although it only knows the lengths it read;
\* it stops after the last one, and the file is where the reader thinks it is.
KeysRead ==
    \A n \in DOMAIN pages :
        LET f == pages[n]
            p == myi.pages[f.block]
        IN /\ f.offset # 0 \/ f.keys > 0 =>
                /\ f.keys <= Len(p.keys)
                /\ f.offset = Len(Prefix(index, p, f.keys))
           /\ f.i > 0 => f.keys = Len(p.keys) /\ f.kids = p.kids
           /\ f.i = 0 => pos = <<f.block, 2 + f.offset>>

\* What the reader has taken from the file, the header and every page it is in,
\* is what the writer put there.
MyiInSync == HeaderRead /\ KeysRead

\* The pages of the tree whose root is b: those in every set that has b and,
\* with a page, its children.
WithKids(S) == \A x \in S : Range(myi.pages[x].kids) \subseteq S
PagesOf(b) ==
    {c \in DOMAIN myi.pages :
       \A S \in SUBSET DOMAIN myi.pages : b \in S /\ WithKids(S) => c \in S}

\* A complete run has printed every page of every tree, each once, and a page
\* only after the page that refers to it.
EveryPageOnce ==
    mpc = "done" =>
        /\ Range(seen) =
             UNION {{<<k, b>> : b \in PagesOf(myi.keydef[k].root)} :
                    k \in {j \in DOMAIN myi.keydef :
                             myi.keydef[j].root # HA_OFFSET_ERROR}}
        /\ Len(seen) = Cardinality(Range(seen))
        /\ \A i \in DOMAIN seen :
              \/ seen[i][2] = myi.keydef[seen[i][1]].root
              \/ \E j \in 1..i-1 :
                    /\ seen[j][1] = seen[i][1]
                    /\ seen[i][2] \in Range(myi.pages[seen[j][2]].kids)
===============================================================================
