------------------------------ MODULE Aadhaar ------------------------------
(***************************************************************************)
(* nmck_aadhaar of aadhaar.c: Verhoeff's check over the characters before  *)
(* the last one, which need not be the check digit but may be a            *)
(* placeholder; the verdict carries the digit that belongs there.          *)
(*                                                                         *)
(* The string is met lazily: its first character when the call starts, the *)
(* others as the loop reaches them, the last one with the verdict.         *)
(***************************************************************************)
EXTENDS Tables

CONSTANTS
    Lengths,        \* lengths of the strings, none of them empty
    Space, Other    \* a blank; any character but a digit or a blank

Digit == 0 .. 9
Char == Digit \cup {Space, Other}

VARIABLES
    pc,     \* where the call is
    len,    \* length of the string
    first,  \* its first character
    i, j,   \* the loop's: position after the next character, turn
    prod,   \* the accumulator
    ret,    \* what the call returned
    digits, \* observer: digits read so far,
    vh      \* and what nmck_verhoeff makes of them after a last character c

vars == <<pc, len, first, i, j, prod, ret, digits, vh>>

Init ==
    /\ pc = "enter"
    /\ len \in Lengths /\ first \in Char
    /\ i = len - 1 /\ j = 1 /\ prod = 0 /\ ret = 0
    /\ digits = 0 /\ vh = [c \in Digit |-> D5[0][Perm[0][c]]]

Refuse ==
    /\ ret' = -1 /\ pc' = "done"
    /\ UNCHANGED <<len, first, i, j, prod, digits, vh>>

Enter ==
    /\ pc = "enter"
    /\ IF len < 12 \/ len > 14 \/ first \in {0, 1}
       THEN Refuse
       ELSE /\ pc' = "loop"
            /\ UNCHANGED <<len, first, i, j, prod, ret, digits, vh>>

\* the loop of nmck_verhoeff, whose first turn the last character takes
Observe(c) ==
    /\ digits' = digits + 1
    /\ vh' = [d \in Digit |-> D5[vh[d]][Perm[(1 + digits) % 8][c]]]

\* mutation: a blank takes a turn of the permutation, too
ReadBlankTurns(c) ==
    /\ i' = i - 1 /\ j' = j + 1
    /\ IF c = Space
       THEN UNCHANGED <<prod, digits, vh>>
       ELSE prod' = D5[prod][Perm[j % 8][c]] /\ Observe(c)
    /\ UNCHANGED <<pc, len, first, ret>>

\* blanks are skipped; digits are permuted by their turn and accumulated
Read(c) ==
    /\ i' = i - 1
    /\ IF c = Space
       THEN UNCHANGED <<j, prod, digits, vh>>
       ELSE j' = j + 1 /\ prod' = D5[prod][Perm[j % 8][c]] /\ Observe(c)
    /\ UNCHANGED <<pc, len, first, ret>>

\* mutation: the loop runs on to the character before the string
LoopOverrun ==
    /\ pc = "loop" /\ i >= 0
    /\ \E c \in IF i = 1 THEN {first} ELSE Char :
        IF c = Other THEN Refuse ELSE Read(c)

Loop ==
    /\ pc = "loop" /\ i > 0
    /\ \E c \in IF i = 1 THEN {first} ELSE Char :
        IF c = Other THEN Refuse ELSE Read(c)

\* rotations have an inverse, reflections are their own
Invert(p) == IF p < 5 THEN (5 - p) % 5 ELSE p

\* prod << 1 ^ (prod != str[len - 1]), prod a character by then
Verdict(c, wrong) == 2 * (48 + c) + (IF wrong THEN 1 ELSE 0)
Suggested(s) == (s \div 2) - 48

Return ==
    /\ pc = "loop" /\ i = 0
    /\ \E last \in Char : ret' = Verdict(Invert(prod), Invert(prod) # last)
    /\ pc' = "done"
    /\ UNCHANGED <<len, first, i, j, prod, digits, vh>>

Done == pc = "done" /\ UNCHANGED vars

Next == Enter \/ Loop \/ Return \/ Done

Spec == Init /\ [][Next]_vars

-----------------------------------------------------------------------------
TypeOK ==
    /\ pc \in {"enter", "loop", "done"}
    /\ len \in Lengths /\ first \in Char
    /\ i \in 0 .. len - 1 /\ j \in 1 .. len
    /\ prod \in Digit
    /\ ret \in {-1} \cup 0 .. 115
    /\ digits \in 0 .. len - 1 /\ vh \in [Digit -> Digit]

(* nmck_aadhaar starts on the second turn, skips blanks and solves for the *)
(* missing digit; nmck_verhoeff takes all the digits and solves nothing.   *)
(* They agree: the digit suggested is the only one that nmck_verhoeff      *)
(* accepts in the last place, so a correction copied from the output is    *)
(* conformant to both.                                                     *)
SuggestsVerhoeff ==
    ret > 0 => \A c \in Digit : vh[c] = 0 <=> c = Suggested(ret)
=============================================================================
