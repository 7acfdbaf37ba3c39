------------------------------- MODULE Iposan -------------------------------
(***************************************************************************)
(* nmck_iposan of iposan.c: Damm's check over str[2] .. str[10]; the check *)
(* letter at str[11] is P .. Y for 0 .. 9, or a placeholder.  A suffix of  *)
(* two digits may follow.  The string is met lazily, as the code reads it. *)
(***************************************************************************)
EXTENDS Tables

CONSTANTS
    Lengths,        \* lengths of the strings
    Other           \* any character that is neither a digit nor in P .. Y

Digit == 0 .. 9
Char == Digit \cup {Other}

\* the letter P ^ d, 'P' having its lowest four bits clear
Letter(d) == 80 + d
Letters == {Letter(d) : d \in Digit}

VARIABLES
    pc,     \* where the call is
    len,    \* length of the string
    i,      \* position of the character to be read
    prod,   \* the accumulator
    ret,    \* what the call returned
    digits, \* observer: digits of the number met after the office and year,
    damm    \* and what nmck_damm10 accumulates over them

vars == <<pc, len, i, prod, ret, digits, damm>>

Init ==
    /\ pc = "enter" /\ len \in Lengths
    /\ i = 0 /\ prod = 0 /\ ret = 0
    /\ digits = 0 /\ damm = 0

Refuse ==
    /\ ret' = -1 /\ pc' = "done"
    /\ UNCHANGED <<len, i, prod, digits, damm>>

\* the length, then the first character: 1 .. 4; the second is not looked at
Enter ==
    /\ pc = "enter"
    /\ \/ (len < 12 \/ len > 15) /\ Refuse
       \/ /\ len \in 12 .. 15
          /\ \E c \in Char :
              IF c \in 1 .. 4
              THEN pc' = "loop" /\ i' = 2 /\ UNCHANGED <<len, prod, ret, digits, damm>>
              ELSE Refuse

\* mutation: arguments of the table swapped
ReadSwapped(c) ==
    /\ prod' = Damm10[c][prod]
    /\ i' = i + 1
    /\ digits' = digits + 1 /\ damm' = Damm10[damm][c]
    /\ UNCHANGED <<pc, len, ret>>

Read(c) ==
    /\ prod' = Damm10[prod][c]
    /\ i' = i + 1
    /\ digits' = digits + 1 /\ damm' = Damm10[damm][c]
    /\ UNCHANGED <<pc, len, ret>>

\* mutation: the loop takes in the check letter's place, too
LoopOverrun ==
    /\ pc = "loop" /\ i <= 11
    /\ \E c \in Char : IF c = Other THEN Refuse ELSE Read(c)

Loop ==
    /\ pc = "loop" /\ i < 11
    /\ \E c \in Char : IF c = Other THEN Refuse ELSE Read(c)

\* prod << 1 ^ (prod != str[11]), prod a letter by then
Verdict(letter, wrong) == 2 * letter + (IF wrong THEN 1 ELSE 0)
Suggested(s) == s \div 2

Return ==
    /\ pc = "loop" /\ i = 11
    /\ \E c \in Letters \cup {Other} :
        ret' = Verdict(Letter(prod), c # Letter(prod))
    /\ pc' = "done"
    /\ UNCHANGED <<len, i, prod, digits, damm>>

Done == pc = "done" /\ UNCHANGED vars

Next == Enter \/ Loop \/ Return \/ Done

Spec == Init /\ [][Next]_vars

-----------------------------------------------------------------------------
TypeOK ==
    /\ pc \in {"enter", "loop", "done"}
    /\ len \in Lengths /\ i \in 0 .. 11
    /\ prod \in Digit /\ damm \in Digit /\ digits \in 0 .. 9
    /\ ret \in {-1} \cup 0 .. 179

(* The letter suggested stands for the only digit that completes the nine  *)
(* digits of the application number to one nmck_damm10 accepts.            *)
SuggestsDamm ==
    ret > 0 => /\ digits = 9
               /\ \A d \in Digit :
                     Damm10[damm][d] = 0 <=> Suggested(ret) = Letter(d)
=============================================================================
