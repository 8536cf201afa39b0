------------------------------ MODULE FreeArea ------------------------------
(***************************************************************************)
(* my-linux/tools/range2freearea.php: the free lists of a zone's buddy     *)
(* allocator, computed from the ranges of pages that are free.             *)
(*                                                                         *)
(* Every range is cut in a head, a middle of blocks of BITS_PER_LONG pages *)
(* and a tail; head and tail are added page by page, the middle block by   *)
(* block.  Whatever is added may meet its buddy, the last entry of the     *)
(* list, and go up to the next list, and so on.                            *)
(***************************************************************************)
EXTENDS Integers, Sequences, FiniteSets

CONSTANTS
    RangeLists, \* the contents of ranges.php: ascending pairs start, end
    LONG_ORDER, \* ilog2(BITS_PER_LONG): 6
    MAX_ORDER,  \* the highest order: 10
    pow         \* PHP's pow(2, $order), for the orders and the next one

Orders == 0..MAX_ORDER

ASSUME FreeAreaAssumption ==
    /\ MAX_ORDER \in Nat /\ LONG_ORDER \in 1..MAX_ORDER
    /\ pow \in [0..MAX_ORDER+1 -> Nat \ {0}]
    /\ pow[0] = 1 /\ \A o \in Orders : pow[o + 1] = 2 * pow[o]
    /\ \A list \in RangeLists :
          /\ list \in Seq(Nat \X Nat)
          /\ \A r \in DOMAIN list : list[r][1] <= list[r][2]
          /\ \A r, s \in DOMAIN list : r < s => list[r][2] <= list[s][1]

Long == pow[LONG_ORDER]

VARIABLES
    ranges,      \* the file's ranges
    rangesSplit, \* the parts of the ranges split so far
    part,        \* the next part to add: a range and one of its three parts
    start,       \* $start in that part, or NoPage before its loop
    free_area,   \* the lists
    order        \* $order of mergeFreeArea, or NoOrder outside

areaVars == <<ranges, rangesSplit, part, start, free_area, order>>

NoPart == <<>> \* null
NoPage == -1
NoOrder == -1

AreaStart ==
    /\ rangesSplit = <<>>
    /\ part = <<1, 1>>
    /\ start = NoPage
    /\ free_area = [o \in Orders |-> <<>>]
    /\ order = NoOrder

AreaInit == ranges \in RangeLists /\ AreaStart

-----------------------------------------------------------------------------

\* The head, the middle and the tail of a range, the last page included.
Split(first, end) ==
    LET mode == first % Long
        part1End == IF mode # 0 THEN first + (Long - mode) ELSE first
        part2End == end - (end % Long)
    IN IF part1End >= end
       THEN << <<first, end - 1>>, NoPart, NoPart >>
       ELSE IF part2End > part1End
       THEN << IF part1End = first THEN NoPart ELSE <<first, part1End - 1>>,
               <<part1End, part2End - 1>>,
               IF part2End = end THEN NoPart ELSE <<part2End, end - 1>> >>
       ELSE << <<first, part1End - 1>>, NoPart, <<part2End, end - 1>> >>

SplitRange ==
    /\ Len(rangesSplit) < Len(ranges)
    /\ LET range == ranges[Len(rangesSplit) + 1]
       IN rangesSplit' = Append(rangesSplit, Split(range[1], range[2]))
    /\ UNCHANGED <<ranges, part, start, free_area, order>>

Filling ==
    /\ Len(rangesSplit) = Len(ranges)
    /\ order = NoOrder
    /\ part[1] <= Len(ranges)

Part == rangesSplit[part[1]][part[2]]
Middle == part[2] = 2

NextPart == part' = IF part[2] < 3 THEN <<part[1], part[2] + 1>>
                                   ELSE <<part[1] + 1, 1>>

StartPart ==
    /\ Filling /\ start = NoPage
    /\ IF Part = NoPart THEN NextPart /\ UNCHANGED start
                      ELSE start' = Part[1] /\ UNCHANGED part
    /\ UNCHANGED <<ranges, rangesSplit, free_area, order>>

\* addToFreeArea and addToFreeArea6: the first entry of a list has nothing to
\* merge with.
Add(pfn, o) ==
    /\ free_area' = [free_area EXCEPT ![o] = Append(@, pfn)]
    /\ order' = IF free_area[o] = <<>> THEN NoOrder ELSE o

AddNext ==
    /\ Filling /\ start # NoPage
    /\ IF (IF Middle THEN start < Part[2] ELSE start <= Part[2])
       THEN /\ Add(start, IF Middle THEN LONG_ORDER ELSE 0)
            /\ start' = start + (IF Middle THEN Long ELSE 1)
            /\ UNCHANGED part
       ELSE /\ NextPart
            /\ start' = NoPage
            /\ UNCHANGED <<free_area, order>>
    /\ UNCHANGED <<ranges, rangesSplit>>

\* Mutant: the block below is taken for the buddy, however it is aligned.
MergesUnaligned(list, o) ==
    /\ o < MAX_ORDER
    /\ Len(list) >= 2
    /\ list[Len(list)] - pow[o] = list[Len(list) - 1]

\* The tests of mergeFreeArea: the last two entries are buddies.
Merges(list, o) ==
    /\ o < MAX_ORDER
    /\ Len(list) >= 2
    /\ list[Len(list)] - pow[o] = list[Len(list) - 1]
    /\ list[Len(list) - 1] % pow[o + 1] = 0

\* Mutant: the block that goes up is the upper one.
MergeUpper ==
    /\ order # NoOrder
    /\ LET list == free_area[order]
       IN IF Merges(list, order)
          THEN /\ free_area' =
                    [free_area EXCEPT
                       ![order + 1] = Append(@, list[Len(list)]),
                       ![order] = SubSeq(@, 1, Len(@) - 2)]
               /\ order' = order + 1
          ELSE order' = NoOrder /\ UNCHANGED free_area
    /\ UNCHANGED <<ranges, rangesSplit, part, start>>

\* One turn of mergeFreeArea.
mergeFreeArea ==
    /\ order # NoOrder
    /\ LET list == free_area[order]
       IN IF Merges(list, order)
          THEN /\ free_area' =
                    [free_area EXCEPT
                       ![order + 1] = Append(@, list[Len(list) - 1]),
                       ![order] = SubSeq(@, 1, Len(@) - 2)]
               /\ order' = order + 1
          ELSE order' = NoOrder /\ UNCHANGED free_area
    /\ UNCHANGED <<ranges, rangesSplit, part, start>>

AreaNext ==
    \/ SplitRange
    \/ StartPart
    \/ AddNext
    \/ mergeFreeArea

AreaSpec == AreaInit /\ [][AreaNext]_areaVars

-----------------------------------------------------------------------------
(* Properties.                                                             *)

AreaBlocks == UNION {{<<o, n>> : n \in DOMAIN free_area[o]} : o \in Orders}
First(e) == free_area[e[1]][e[2]]
Block(e) == First(e) .. First(e) + pow[e[1]] - 1

Buddies(e, f) ==
    /\ e[1] = f[1] /\ e[1] < MAX_ORDER
    /\ First(e) % pow[e[1] + 1] = 0
    /\ First(f) = First(e) + pow[e[1]]

\* What the buddy algorithm promises of the lists whenever nothing is being
\* merged: every block is aligned to its size, no page is in two blocks, and no
\* two blocks of a list are buddies, although the program only ever compares
\* the last two.  At the end the blocks are the pages of the ranges.
BuddyLists ==
    order = NoOrder =>
        /\ \A e \in AreaBlocks : First(e) % pow[e[1]] = 0
        /\ \A e, f \in AreaBlocks :
              /\ e # f => Block(e) \cap Block(f) = {}
              /\ ~Buddies(e, f)
        /\ part[1] > Len(ranges) =>
              UNION {Block(e) : e \in AreaBlocks} =
              UNION {ranges[r][1] .. ranges[r][2] - 1 : r \in DOMAIN ranges}

\* The lists refine the set of free pages: adding frees one aligned block none
\* of whose pages was free, and merging neither frees nor loses a page.
Pages == INSTANCE FreePages WITH
             BlockSizes <- {1, Long},
             free <- UNION {Block(e) : e \in AreaBlocks}

FreesOnce == Pages!FreePagesSpec
===============================================================================
