------------------------------- MODULE Layout -------------------------------
(***************************************************************************)
(* Where a writer puts things of given lengths, one behind the other.      *)
(***************************************************************************)
EXTENDS Integers, Sequences

\* Ends(w)[n] is the end of the first n things, and the start of the next.
Ends(w) ==
    LET end[n \in 0..Len(w)] == IF n = 0 THEN 0 ELSE end[n - 1] + w[n]
    IN  end

\* The end of all.
End(w) == Ends(w)[Len(w)]

\* The first n of a sequence of sequences, one behind the other.
Joins(parts) ==
    LET join[n \in 0..Len(parts)] ==
          IF n = 0 THEN <<>> ELSE join[n - 1] \o parts[n]
    IN  join

\* All of them.
Join(parts) == Joins(parts)[Len(parts)]
===============================================================================
