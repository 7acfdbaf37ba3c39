-------------------------- MODULE WeightedStandard --------------------------
(***************************************************************************)
(* What sets the weighted-sum checkers that follow their documentation     *)
(* apart: the sum of the code and the documented one say the same.  The    *)
(* checkers that contradict theirs (nmck_kennitala, nmck_ppsn, ...) are    *)
(* instances of WeightedSum, but not of this module.                       *)
(***************************************************************************)
EXTENDS WeightedSum

CONSTANT Most(_, _)     \* per checker and position: the greatest sum there

(* With weights f = 1 the code adds what the documentation counts; with    *)
(* f = -1 the complement, which saves it a subtraction in the end.         *)
Congruent(n, a, b) == (a - b) % S(n).mod = 0
Parallel(n, f) ==
    \A q \in Places(n) : \A c \in Accepted(n, q) :
        Congruent(n, Adds(n, q, c), f * Counts(n, q, Value(n, q, c)))
Signs == [n \in Use |-> IF Parallel(n, 1) THEN 1 ELSE -1]
Sign(n) == Signs[n]

\* the check character c behind a number of the residue r: by the scheme, or
\* by the code alone
Documents(n, r, c) == Closes(n, r, c, S(n).denotes)
Tolerates(n, r, c) == Closes(n, r, c, S(n).lax)

\* the check character put behind it, if any, is the one
Answers(n, r) ==
    LET e == Expected(n, S(n).start + Sign(n) * r)
    IN  /\ e \in S(n).check \cup {Refused}
        /\ \A c \in S(n).check \cup {Placeholder} :
              /\ (e # Refused /\ e = c)
                    <=> Documents(n, r, c) \/ Tolerates(n, r, c)
              /\ ~(Documents(n, r, c) /\ Tolerates(n, r, c))

\* no string has a greater sum than Most says, and the bias is not less
Bounded(n) ==
    /\ \A q \in 1 .. Len(S(n).val) + 1 : Most(n, q) \in Nat
    /\ S(n).start <= Most(n, 1)
    /\ \A q \in Places(n) : \A c \in Accepted(n, q) :
          Most(n, q) + Adds(n, q, c) <= Most(n, q + 1)
    /\ S(n).bias > 0 =>
          \A q \in 1 .. Len(S(n).val) + 1 : Most(n, q) <= S(n).bias

ASSUME StandardAssumption ==
    \A n \in Use :
        /\ S(n).base = S(n).mod /\ S(n).check \subseteq Nat
        /\ \A q \in Places(n) : \A c \in Accepted(n, q) :
              Counts(n, q, Value(n, q, c)) \in Int
        /\ Parallel(n, Sign(n))
        /\ \A r \in 0 .. S(n).mod - 1 : Answers(n, r)
        /\ Bounded(n)
        /\ n \notin Misfit =>
              \A e \in S(n).extra : Len(S(n).val) + 1 + e \in S(n).lens

-----------------------------------------------------------------------------
(* The sum of nmck_nhs, nmck_gtin, ... is never far from the documented    *)
(* one: congruent to it, or to its complement, wherever the loop stands,   *)
(* and within what its remaining characters may yet add.                   *)
InStep ==
    /\ scheme \in Use /\ p \in 1 .. Len(S(scheme).val) + 1
    /\ sum \in [Call -> Nat] /\ std \in [Call -> 0 .. S(scheme).mod - 1]
    /\ \A x \in Call :
        /\ Congruent(scheme, sum[x], S(scheme).start + Sign(scheme) * std[x])
        /\ sum[x] <= Most(scheme, p)
        /\ pc # "done" => last[x] = Refused
=============================================================================
