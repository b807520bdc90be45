----------------------------- MODULE Selection -----------------------------
(***************************************************************************)
(* What the queries of the repositories make of a table in its order: a    *)
(* WHERE clause, and ORDER BY ... DESC LIMIT n turned round again.  A      *)
(* condition is the set of the rows that meet it.                          *)
(***************************************************************************)
EXTENDS Integers, Sequences, FiniteSets

\* The elements of s that are in S, in their order.
Kept(s, S) ==
    LET kept[i \in 0 .. Len(s)] ==
            IF i = 0 THEN <<>>
            ELSE IF s[i] \in S THEN Append(kept[i - 1], s[i]) ELSE kept[i - 1]
    IN  kept[Len(s)]

\* The last n elements of s.
Newest(s, n) == SubSeq(s, IF Len(s) > n THEN Len(s) - n + 1 ELSE 1, Len(s))

\* The elements of S in the order of before, the set of the pairs <<a, b>> of which
\* a is to come first: the i-th has i - 1 others before it.
Sorted(S, before) ==
    [i \in 1 .. Cardinality(S) |->
        CHOOSE c \in S : Cardinality({d \in S : <<d, c>> \in before}) = i - 1]
=============================================================================
