----------------------------- MODULE CountryMap -----------------------------
(***************************************************************************)
(* What a compiled list of countries promises its users, nmck_bic,         *)
(* nmck_isin and nmck_iban: a code is valid if and only if it is listed,   *)
(* and its length is the one given last.                                   *)
(***************************************************************************)
EXTENDS Integers

CONSTANTS Codes, Lengths    \* on the lines of the list

VARIABLES
    listed,     \* from the codes listed to their lengths
    answer      \* to the question asked last

vars == <<listed, answer>>
Unasked == [code |-> <<>>, valid |-> FALSE, len |-> 0]

Init == listed = [cc \in {} |-> 0] /\ answer = Unasked

\* a length is kept in an octet
List(cc, l) ==
    /\ answer = Unasked
    /\ listed' = [x \in DOMAIN listed \cup {cc} |->
                     IF x = cc THEN l % 256 ELSE listed[x]]
    /\ UNCHANGED answer

Ask(cc) ==
    /\ answer' = [code |-> cc, valid |-> cc \in DOMAIN listed,
                  len |-> IF cc \in DOMAIN listed THEN listed[cc] ELSE 0]
    /\ UNCHANGED listed

Next == \E cc \in Codes : Ask(cc) \/ \E l \in Lengths : List(cc, l)

Spec == Init /\ [][Next]_vars
=============================================================================
