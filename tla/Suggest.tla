------------------------------ MODULE Suggest ------------------------------
(***************************************************************************)
(* A call of nmck_aadhaar or one of nmck_iposan, which put the tables of   *)
(* the generic checkers to their own use.                                  *)
(***************************************************************************)
EXTENDS Integers

CONSTANTS
    AadhaarLengths, IposanLengths,      \* lengths of the strings
    Space, Other

ASSUME LengthAssumption ==
    AadhaarLengths \subseteq Nat \ {0} /\ IposanLengths \subseteq Nat

VARIABLES
    which,                              \* the checker called
    pc, len, i, prod, ret, digits,      \* what they have in common
    first, j, vh,                       \* nmck_aadhaar's
    damm                                \* nmck_iposan's

vars == <<which, pc, len, i, prod, ret, digits, first, j, vh, damm>>

A == INSTANCE Aadhaar WITH Lengths <- AadhaarLengths
I == INSTANCE Iposan WITH Lengths <- IposanLengths

Init ==
    \/ which = "aadhaar" /\ A!Init /\ damm = 0
    \/ which = "iposan" /\ I!Init /\ first = 0 /\ j = 0 /\ vh = <<>>

Next ==
    \/ which = "aadhaar" /\ A!Next /\ UNCHANGED <<which, damm>>
    \/ which = "iposan" /\ I!Next /\ UNCHANGED <<which, first, j, vh>>

Spec == Init /\ [][Next]_vars

-----------------------------------------------------------------------------
(* Neither call reads before or behind its string, and the verdict has the *)
(* form that is taken apart when it is printed.                            *)
TypeOK ==
    /\ which \in {"aadhaar", "iposan"}
    /\ IF which = "aadhaar" THEN A!TypeOK ELSE I!TypeOK

(* The digit nmck_aadhaar suggests is the only one that nmck_verhoeff      *)
(* accepts in the last place.                                              *)
SuggestsVerhoeff == which = "aadhaar" => A!SuggestsVerhoeff

(* The letter nmck_iposan suggests stands for the only digit that          *)
(* nmck_damm10 accepts behind the nine.                                    *)
SuggestsDamm == which = "iposan" => I!SuggestsDamm
=============================================================================
