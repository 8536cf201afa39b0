------------------------------ MODULE NodeData ------------------------------
(***************************************************************************)
(* my-linux/tools/print_node_data.c: print the zones of a NUMA node from a *)
(* dump of the kernel's node_data and, with a dump of its struct pages     *)
(* taken at the same stop, the blocks on every free list.                  *)
(*                                                                         *)
(* A free list is a circle through the head in node_data.  The program     *)
(* knows pages by their kernel addresses only: it takes an address for one *)
(* of a page if it has the bits of PAGE_MASK, and the circle ends where    *)
(* that is not so.                                                         *)
(***************************************************************************)
EXTENDS Integers, SequencesExt

CONSTANTS
    FreeAreas,   \* the free lists of a node, in the order of the three loops
                 \* over zones, orders and types: sequences of lists
    Pfns,        \* the pages of the node
    MappedPfns,  \* those in the first pagesSize bytes of the dump
    KernelImage, \* addresses with the bits of PAGE_MASK that are no page's
    ListHead     \* any address without them: the head of a list is one

\* The head of a list is in node_data, in the direct mapping of the memory; a
\* block is on one list, once.
ASSUME NodeAssumption ==
    /\ Pfns \subseteq Nat /\ MappedPfns \subseteq Pfns
    /\ KernelImage \cap Pfns = {} /\ ListHead \notin Pfns \cup KernelImage
    /\ \A free \in FreeAreas :
          /\ free \in Seq([order : Nat, blocks : Seq(Pfns)])
          /\ \A k, l \in DOMAIN free :
             \A m \in DOMAIN free[k].blocks, n \in DOMAIN free[l].blocks :
                free[k].blocks[m] = free[l].blocks[n] => k = l /\ m = n

VARIABLES
    npc,      \* "main", "list", "walk", "done" or "killed"
    lists,    \* the free lists in the dumps: the order and the first pages
    page_dump,\* whether there is a dump of the pages: pages is not NULL
    nlist,    \* the list the loops have come to
    page,     \* page_lru_current
    printed   \* the ranges of pages printed of each list

nodeVars == <<npc, lists, page_dump, nlist, page, printed>>

NodeStart ==
    /\ npc = "main"
    /\ page_dump = FALSE
    /\ nlist = 1
    /\ page = ListHead
    /\ printed = [n \in DOMAIN lists |-> <<>>]

NodeInit == lists \in FreeAreas /\ NodeStart

-----------------------------------------------------------------------------
(* The dumps.                                                              *)

\* list_head.next of the head, for n = 0, and of the n-th page.
LinkAt(blocks, n) == IF n < Len(blocks) THEN blocks[n + 1] ELSE ListHead

free_list_next(n) == LinkAt(lists[n].blocks, 0)

\* What the dump may hold of a page: lru.next and private, the order, of the
\* first page of a free block; anything of the others, which are on lists of
\* slabs, of a CPU or of the LRU, or have what they had when they last were free
\* (for their private 0 and 1 stand).
PageDump(pfn) ==
    LET free == UNION {{n} \X DOMAIN lists[n].blocks : n \in DOMAIN lists}
        at == {f \in free : lists[f[1]].blocks[f[2]] = pfn}
    IN IF at = {}
       THEN [next : Pfns \cup KernelImage \cup {ListHead}, private : {0, 1}]
       ELSE {[next |-> LinkAt(lists[f[1]].blocks, f[2]),
              private |-> lists[f[1]].order] : f \in at}

-----------------------------------------------------------------------------
(* The program.                                                            *)

\* The second dump is optional.
Main ==
    /\ npc = "main"
    /\ page_dump' \in BOOLEAN
    /\ npc' = "list"
    /\ UNCHANGED <<lists, nlist, page, printed>>

\* The test of an address with PAGE_MASK.
IsPage(address) == address \in Pfns \cup KernelImage

Extent(first, order) == <<first, first + 2^order - 1>>

\* The block at an address is printed, its link is the next address; nothing is
\* mapped where the dump does not reach.
PrintPage(address) ==
    IF address \in MappedPfns
    THEN \E dump \in PageDump(address) :
            /\ printed' = [printed EXCEPT ![nlist] =
                              Append(@, Extent(address, dump.private))]
            /\ page' = dump.next
            /\ npc' = "walk"
    ELSE npc' = "killed" /\ UNCHANGED <<page, printed>>

\* The head of a list, and its first page if there is one.
PrintList ==
    /\ npc = "list"
    /\ IF nlist > Len(lists) THEN npc' = "done" /\ UNCHANGED <<nlist, page, printed>>
       ELSE IF page_dump /\ IsPage(free_list_next(nlist))
       THEN PrintPage(free_list_next(nlist)) /\ UNCHANGED nlist
       ELSE nlist' = nlist + 1 /\ UNCHANGED <<npc, page, printed>>
    /\ UNCHANGED <<lists, page_dump>>

EndOfList == npc' = "list" /\ nlist' = nlist + 1 /\ UNCHANGED <<page, printed>>

\* Mutant: the walk ends only where it started; the head of the list is taken
\* for some page.
WalkListToHead ==
    /\ npc = "walk"
    /\ IF page # free_list_next(nlist)
       THEN /\ \E pfn \in IF IsPage(page) THEN {page} ELSE Pfns : PrintPage(pfn)
            /\ UNCHANGED nlist
       ELSE EndOfList
    /\ UNCHANGED <<lists, page_dump>>

\* The loop over the other pages of the list.
WalkList ==
    /\ npc = "walk"
    /\ IF IsPage(page) /\ page # free_list_next(nlist)
       THEN PrintPage(page) /\ UNCHANGED nlist
       ELSE EndOfList
    /\ UNCHANGED <<lists, page_dump>>

NodeNext == Main \/ PrintList \/ WalkList

NodeSpec == NodeInit /\ [][NodeNext]_nodeVars

-----------------------------------------------------------------------------
(* Properties.                                                             *)

BlocksOf(list) == [n \in DOMAIN list.blocks |-> Extent(list.blocks[n], list.order)]

\* Though a list is a circle of addresses that mean nothing here, every block on
\* it is printed once, with the range its first page tells, in the order of the
\* list, and nothing behind the last one: whatever the links of the pages in use,
\* the lists passed are printed in full when there is a dump of the pages, the
\* one at hand as far as the walk came, and the others not at all.  So it is
\* also if the walk is killed where the dump ends.
PrintsFreeLists ==
    \A n \in DOMAIN lists :
        /\ n < nlist /\ page_dump => printed[n] = BlocksOf(lists[n])
        /\ n = nlist => IsPrefix(printed[n], BlocksOf(lists[n]))
        /\ n > nlist \/ ~page_dump => printed[n] = <<>>
===============================================================================
