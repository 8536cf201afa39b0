------------------------------ MODULE FreePages ------------------------------
(***************************************************************************)
(* What the lists of a buddy allocator stand for: the set of the free      *)
(* pages.  A block of pages becomes free at once, and none of its pages    *)
(* was free before.                                                        *)
(***************************************************************************)
EXTENDS Integers, FiniteSets

CONSTANTS
    BlockSizes \* the sizes of the blocks that are freed

VARIABLE free

FreePagesInit == free = {}

FreeBlock(first, size) ==
    /\ first % size = 0
    /\ free \cap (first .. first + size - 1) = {}
    /\ free' = free \cup (first .. first + size - 1)

\* The block is found in what has become free.
FreePagesNext ==
    \E size \in BlockSizes :
        \E first \in free' \ free : FreeBlock(first, size)

FreePagesSpec == FreePagesInit /\ [][FreePagesNext]_free
===============================================================================
