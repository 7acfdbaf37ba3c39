----------------------------- MODULE ScanForms ------------------------------
(***************************************************************************)
(* What the accumulators of particular checkers that scan have to do with  *)
(* their standards', and the issuers of card numbers.                      *)
(***************************************************************************)
EXTENDS Scan, Standards

(* The issuers of card numbers: the digits a number begins with, and how   *)
(* many it has.                                                            *)
Issues ==
    {<<p, {15}, "AMEX">> : p \in {<<3, 4>>, <<3, 7>>}}
    \cup {<<<<3, 5, d>>, {16}, "JCB">> : d \in 2 .. 8}
    \cup {<<<<3, 0, d>>, {14}, "DC_CB">> : d \in 0 .. 5}
    \cup {<<<<3, d>>, {14}, "DC_INTL">> : d \in {0, 6, 8, 9}}
    \cup {<<<<1>>, {15}, "UATP">>}
    \cup {<<<<2, d>>, {15}, "DC_ENROUTE">> : d \in {0, 1}}
    \cup {<<<<2, d>>, {16}, "MASTER">> : d \in 2 .. 7}
    \cup {<<<<5, d>>, {16}, "MASTER">> : d \in 0 .. 5}
    \cup {<<<<4>>, {13, 16}, "VISA">>}
    \cup {<<p, {16}, "VELEC">> : p \in
            {<<4, 0, 2, 6>>, <<4, 1, 7, 5>>, <<4, 4, 0, 5>>, <<4, 5, 0, 8>>,
             <<4, 8, 4, 4>>, <<4, 9, 1, 3>>, <<4, 9, 1, 7>>}}
    \cup {<<<<5, d>>, 12 .. 19, "MAESTRO">> : d \in 6 .. 9}
    \cup {<<<<6, d>>, 12 .. 19, "MAESTRO">> : d \in {1, 3, 6, 7, 8, 9}}
    \cup {<<<<6, 2>>, 16 .. 19, "CUP">>}
    \cup {<<<<6, d>>, {16}, "DISC">> : d \in {0, 4, 5}}
    \cup {<<<<6, 3, 6>>, 16 .. 19, "INTPAY">>}
    \cup {<<<<6, 3, d>>, {16}, "INSTAP">> : d \in 7 .. 9}
\* the one with the longest beginning
IssuersOf(digits, k) ==
    LET Fit == {r \in Issues : k \in r[2]
                                /\ SubSeq(digits, 1, Len(r[1])) = r[1]}
    IN  {r[3] : r \in {b \in Fit : \A o \in Fit : Len(o[1]) <= Len(b[1])}}

(* Over the blanks a card number may have anywhere, the tests by the       *)
(* number of digits and the runs from one case of the switch into the      *)
(* next, the issuer printed is the one with the longest matching           *)
(* beginning, and numbers of no issuer are refused.  Two things differ     *)
(* from a card reader's table: a blank among the first characters matches  *)
(* no digit, so that only the beginning before it counts; and numbers that *)
(* begin with 2 and have no issuer are looked up as if they began with 3.  *)
IssuerTable ==
    \A x \in Call :
        LET k == acc[x][1] + 1
            digits == [j \in 1 .. 4 |-> acc[x][4][j] - 48]
            own == IssuersOf(digits, k)
            iss == IF own = {} /\ digits[1] = 2
                   THEN IssuersOf([digits EXCEPT ![1] = 3], k) ELSE own
        IN  scheme = "credcard" /\ Settled(x) =>
                IF iss = {} THEN ret[x] = Unknown
                ELSE iss = {ret[x].state} /\ ~ret[x].neg

(* nmck_luhn, nmck_isin and nmck_credcard keep a total for either parity,  *)
(* Luhn counts from the right: wherever the loop stands, the two totals    *)
(* are the two that are right if the digit read last counts once, and if   *)
(* it counts twice.  Each digit swaps their parts.                         *)
Mirrored ==
    scheme \in FromTheRight => \A x \in Call :
        std[x] = IF acc[x][1] % 2 = 0 THEN <<acc[x][2], acc[x][3]>>
                 ELSE <<acc[x][3], acc[x][2]>>

(* In an ISAN with a version one sum of nmck_isan serves two check         *)
(* characters.  It is ISO 7064's at every step; behind the first check     *)
(* character what was noted of it, the right one and whether it was wrong, *)
(* is still so, but that '0' and lower case were taken for wrong.          *)
Versioned ==
    scheme = "visan" => \A x \in Call :
        /\ acc[x][1] = std[x][1]
        /\ q > 17 =>
            /\ acc[x][3] <=> ~std[x][2] \/ std[x][3]
            /\ Closes36(std[x][4], IF acc[x][2] = 91 THEN 48 ELSE acc[x][2])
=============================================================================
