------------------------------- MODULE MCSums -------------------------------
(***************************************************************************)
(* The weighted-sum checkers that do what they document.                   *)
(***************************************************************************)
EXTENDS MCWeighted, WeightedStandard

\* the greatest sum of the characters up to a position
Greatest(n, q) ==
    LET A == {Adds(n, q, c) : c \in Accepted(n, q)}
    IN  CHOOSE a \in A : \A b \in A : b <= a
Sums(n) ==
    LET f[q \in 1 .. Len(S(n).val) + 1] ==
            IF q = 1 THEN S(n).start ELSE f[q - 1] + Greatest(n, q - 1)
    IN  [q \in 1 .. Len(S(n).val) + 1 |-> f[q]]
AllSums == [n \in Sound |-> Sums(n)]
MCMost(n, q) == AllSums[n][q]
=============================================================================
