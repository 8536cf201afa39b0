------------------------------- MODULE MCTsrm -------------------------------
(* Instances of Tsrm for TLC.  Two of the threads share a bucket.            *)
EXTENDS Tsrm, TLC

CONSTANTS t1, t2, t3, b1, b2

MCHash == [t \in Thread |-> IF t = t3 THEN b2 ELSE b1]

\* The addresses are interchangeable.
EntrySymmetry == Permutations(Entry)
=============================================================================
