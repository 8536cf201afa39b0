----------------------------- MODULE MCReaders -----------------------------
(***************************************************************************)
(* Seven programs that share nothing: the initial state says which one      *)
(* runs, the others stay where they start.                                 *)
(***************************************************************************)
EXTENDS ReadMyi, ReadFrm, ReadCpio, FreeArea, DrmQuery, ReadElf, NodeData

VARIABLE program

\* Indexes: the types of columns the reader tells apart, with and without NULL.
Seg(type, maybeNull, len) ==
    [type |-> type, maybeNull |-> maybeNull, len |-> len]
Leaf(keys) == [keys |-> keys, kids |-> <<>>]
Node(keys, kids) == [keys |-> keys, kids |-> kids]

Columns == <<Seg(1, FALSE, 2), Seg(VARTEXT1, TRUE, 9), Seg(8, TRUE, 1)>>

Myi(roots, keyRefLen, n, pgs) ==
    [keydef |-> [k \in DOMAIN roots |->
                   [root |-> roots[k], alg |-> KEY_ALG_BTREE,
                    segs |-> SubSeq(Columns, 1, 1 + k)]],
     recordRefLen |-> 2, keyRefLen |-> keyRefLen, records |-> n,
     pages |-> pgs]

Key2 == {<<0, v>> : v \in {Null, 0, 1, 3}}
Key3 == {<<0, v, w>> : v \in {Null, 2}, w \in {Null, 0}}

Trees(leaf, a, b, far) ==
    (1 :> Leaf(leaf)) @@ (2 :> Node(<<a, b>>, <<3, far, 4>>))
    @@ (3 :> Leaf(<<b>>)) @@ (4 :> Leaf(<<>>))
    @@ (far :> Node(<<a>>, <<5, 6>>))
    @@ (5 :> Leaf(<<a, b>>)) @@ (6 :> Leaf(<<b, a>>))

\* A leaf for the first index; for the second a tree of three levels, with a
\* block far into the file, unless it is empty.
Small == Myi(<<1, 2>>, 5, 3,
             Trees(<<<<0, 1>>>>, <<0, 2, 0>>, <<0, Null, Null>>, 7))

MyiLeaves(refLen, far) ==
    {[Small EXCEPT !.keydef[2].root = root, !.keyRefLen = refLen,
                   !.records = n,
                   !.pages = Trees(leaf, <<0, 2, 0>>, <<0, Null, 0>>, far)] :
       root \in {2, HA_OFFSET_ERROR}, n \in {0, 127, 128, 300},
       leaf \in {<<>>} \cup {<<k, l>> : k \in Key2, l \in Key2}}

MyiNodes(refLen, far) ==
    {[Small EXCEPT !.keyRefLen = refLen,
                   !.pages = Trees(<<<<0, 1>>>>, a, b, far)] :
       a \in Key3, b \in Key3}

MCMyiFiles ==
    MyiLeaves(5, 7) \cup MyiNodes(5, 7)
    \cup MyiLeaves(6, 300) \cup MyiNodes(6, 300)
    \cup {[Small EXCEPT !.keyRefLen = 4],
          [Small EXCEPT !.keydef = @ \o @],
          [Small EXCEPT !.keydef[1].segs = @ \o @, !.pages[1] = Leaf(<<>>)],
          [Small EXCEPT !.keydef[2].alg = 2],
          [Small EXCEPT !.pages = 1 :> @[1]]}

\* Tables: keys and columns up to the limits and one beyond.
FrmKeys == {<<>>} \cup [1..1 -> [segs : 1..3, name : {3}]]
           \cup [1..2 -> [segs : 1..2, name : {3, 7}]]
           \cup {[k \in 1..3 |-> [segs |-> 1, name |-> 3]]}

Table(keys, columns, comment, len) ==
    [keys |-> keys, recordLen |-> len, connect |-> len \div 3,
     engine |-> 6, comment |-> comment, longComment |-> 300,
     screens |-> 20 * Len(columns),
     infoLen |-> 289 + 38 * Len(columns) + End(columns),
     columns |-> columns]

MCTables ==
    {Table(keys, columns, comment, len) :
       keys \in FrmKeys, columns \in UNION {[1..n -> {2, 5}] : n \in 0..3},
       comment \in {0, 10, 255}, len \in {5, 4000}}

\* Tables with one column or sixty and records up to the limit of 16 bits.
MCWideTables ==
    {Table(<<>>, [c \in 1..n |-> 50], 0, len) :
       n \in {1, 60}, len \in {100 * k : k \in 1..655}}

\* One or two ranges of pages, in ascending order.
LastPage == 17
PageRanges == {range \in (0..LastPage) \X (0..LastPage) : range[1] < range[2]}
MCRangeLists ==
    {<<r>> : r \in PageRanges}
    \cup {l \in {<<r, s>> : r \in PageRanges, s \in PageRanges} :
            l[1][2] <= l[2][1]}

MCpow == [o \in 0..MAX_ORDER+1 |-> 2^o]

\* Cards of up to four connectors, of which the slots hold three, without an
\* encoder or with one; lists of modes and properties that fit and that do not.
MCModeLists == {<<>>, <<<<2, 2>>>>, <<<<3, 2>>, <<2, 2>>>>, <<<<2, 1>>, <<2, 2>>, <<3, 2>>>>}
Connector(m, props, encoders, id) ==
    [modes |-> m, props |-> props, encoders |-> encoders, encoder_id |-> id]
FullConnectors ==
    {Connector(m, 1, 1, id) : m \in MCModeLists, id \in {None, 1}}
    \cup {Connector(<<<<2, 2>>>>, p, e, 1) : p \in {2, 3}, e \in {0, 4, 5}}
SomeConnectors == {Connector(<<>>, 1, 0, None), Connector(<<<<2, 2>>>>, 2, 1, 1)}
MCCards ==
    [connectors : UNION {[1..n -> FullConnectors] : n \in 0..1}, others : {0, 3, 4}]
    \cup [connectors : [1..2 -> FullConnectors]
                       \cup UNION {[1..n -> SomeConnectors] : n \in 3..4}, others : {2}]
MCPads == {0, 1}

\* Archives of up to two files, of every length modulo four.
MCArchives ==
    UNION {[1..n -> [namesize : 2..5, filesize : 0..5, mode : {"file"}]] :
           n \in 0..2}

\* ELF files: notes with and without padding, sections in two orders, with and
\* without names.
Note(name, desc) == [name |-> name, desc |-> desc]
Segments(type, list, tags) == [type |-> type, notes |-> list, tags |-> tags]
NoteLists == {<<Note(4, 16)>>, <<Note(4, 16), Note(4, 20)>>, <<Note(4, 0), Note(8, 4)>>,
              <<Note(6, 4), Note(6, 4)>>, <<Note(4, 256)>>}

Sh(type, name, symbols, count) ==
    [type |-> type, name |-> name, symbols |-> symbols, count |-> count]
ShLists ==
    {<<Sh("NULL", "", <<>>, 0), Sh("RELA", ".rela", <<>>, n)>> : n \in 0..3}
    \cup {<<Sh("NULL", "", <<>>, 0), Sh("PROGBITS", ".got", <<>>, 2),
            Sh("SYMTAB", ".symtab", <<0, 1, 4>>, 3), Sh("STRTAB", ".strtab", <<>>, 0),
            Sh("STRTAB", ".shstrtab", <<>>, 0)>>,
          <<Sh("NULL", "", <<>>, 0), Sh("STRTAB", ".dynstr", <<>>, 0),
            Sh("DYNSYM", ".dynsym", <<1, 65521>>, 2), Sh("RELA", ".rela", <<>>, 2),
            Sh("PROGBITS", ".got.plt", <<>>, 1)>>}

MCElfFiles ==
    {[segments |-> <<Segments("NOTE", a, 0), Segments("DYNAMIC", <<>>, 2),
                     Segments("LOAD", <<>>, 0), Segments("NOTE", b, 0)>>,
      sections |-> shs, shstrndx |-> names] :
       a \in NoteLists, b \in NoteLists, shs \in ShLists, names \in {0, 1}}

MCStackValues == {-1, 0, 7, 100}

\* A node of twelve pages, of which the last two are beyond the dump of the pages: lists
\* of two orders and two types.
MCPfns == 0..11
MCMappedPfns == 0..9
FreeList(o, blocks) == [order |-> o, blocks |-> blocks]
MCFreeAreas ==
    {<<FreeList(0, a), FreeList(0, b), FreeList(1, c), FreeList(1, d)>> :
       a \in {<<>>, <<5>>, <<11, 7, 5>>, <<5, 7>>, <<7, 11, 5>>}, b \in {<<>>, <<9>>},
       c \in {<<>>, <<0>>}, d \in {<<>>, <<2>>}}

-----------------------------------------------------------------------------
Programs == {"read-MYI", "read-frm", "print_cpio", "range2freearea",
             "drm", "print_elf64", "print_node_data"}

NoTable == Table(<<>>, <<>>, 0, 5)
NoElf == [segments |-> <<>>, sections |-> <<>>, shstrndx |-> 0]

Init ==
    /\ program \in Programs
    /\ IF program = "read-MYI" THEN MyiInit ELSE myi = Small /\ MyiStart
    /\ IF program = "read-frm" THEN FrmInit ELSE frm = NoTable /\ FrmStart
    /\ IF program = "print_cpio" THEN CpioInit ELSE archive = <<>> /\ CpioStart
    /\ IF program = "range2freearea" THEN AreaInit
                                      ELSE ranges = <<>> /\ AreaStart
    /\ IF program = "drm" THEN DrmInit
       ELSE connectors = <<>> /\ others = 0 /\ DrmStart
    /\ IF program = "print_elf64" THEN ElfInit
       ELSE elf = NoElf /\ noteCount = 0 /\ ElfStart
    /\ IF program = "print_node_data" THEN NodeInit
       ELSE lists = <<>> /\ NodeStart

Next ==
    \/ /\ program = "read-MYI" /\ MyiNext
       /\ UNCHANGED <<program, frmVars, cpioVars, areaVars, drmVars, elfVars, nodeVars>>
    \/ /\ program = "read-frm" /\ FrmNext
       /\ UNCHANGED <<program, myiVars, cpioVars, areaVars, drmVars, elfVars, nodeVars>>
    \/ /\ program = "print_cpio" /\ CpioNext
       /\ UNCHANGED <<program, myiVars, frmVars, areaVars, drmVars, elfVars, nodeVars>>
    \/ /\ program = "range2freearea" /\ AreaNext
       /\ UNCHANGED <<program, myiVars, frmVars, cpioVars, drmVars, elfVars, nodeVars>>
    \/ /\ program = "drm" /\ DrmNext
       /\ UNCHANGED <<program, myiVars, frmVars, cpioVars, areaVars, elfVars, nodeVars>>
    \/ /\ program = "print_elf64" /\ ElfNext
       /\ UNCHANGED <<program, myiVars, frmVars, cpioVars, areaVars, drmVars, nodeVars>>
    \/ /\ program = "print_node_data" /\ NodeNext
       /\ UNCHANGED <<program, myiVars, frmVars, cpioVars, areaVars, drmVars, elfVars>>

vars == <<program, myiVars, frmVars, cpioVars, areaVars, drmVars, elfVars, nodeVars>>

Spec == Init /\ [][Next]_vars
===============================================================================
