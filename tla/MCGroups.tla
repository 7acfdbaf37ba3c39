------------------------------ MODULE MCGroups ------------------------------
(***************************************************************************)
(* The generic checkers with their tables, under wrong digits and swapped  *)
(* neighbours; nmck_damm10 under phonetic errors as well, nmck_damm16      *)
(* under jumps over equal digits (aa typed bb), nmck_verhoeff with strings *)
(* past the wrap of its permutation.                                       *)
(***************************************************************************)
EXTENDS Quasigroup, Tables

Decimal == 0 .. 9
Hexadecimal == 0 .. 15
NoPerm(D) == Row(<<[d \in D |-> d]>>)
Swapped(D) == [p \in D \X D |->
                  IF p[1] = p[2] THEN {} ELSE {<<p[2], p[1]>>}]
SwappedOrTwin(D) == [p \in D \X D |->
                        IF p[1] = p[2] THEN {} ELSE {p, <<p[2], p[1]>>}]
\* numchk.h: "all phonetic errors", 13 heard as 30 to 19 as 90 or back; the
\* pair 1a is typed a0, or a0 is typed 1a
Phonetic == [p \in Decimal \X Decimal |->
                CASE p[1] = 1 /\ p[2] \in 3 .. 9 -> {<<p[2], 0>>}
                  [] p[1] \in 3 .. 9 /\ p[2] = 1 -> {<<0, p[1]>>}
                  [] OTHER -> {}]
SwappedOrHeard == [p \in Decimal \X Decimal |->
                      Swapped(Decimal)[p] \cup Phonetic[p]]

verhoeff == [digit |-> Decimal, op |-> D5, perms |-> Perm, turn |-> 8,
             minlen |-> 0, lengths |-> {0, 1, 2, 9},
             confused |-> Swapped(Decimal)]
damm10 == [digit |-> Decimal, op |-> Damm10, perms |-> NoPerm(Decimal),
           turn |-> 1, minlen |-> 2, lengths |-> {0, 1, 2, 5},
           confused |-> SwappedOrHeard]
damm16 == [digit |-> Hexadecimal, op |-> Damm16, perms |-> NoPerm(Hexadecimal),
           turn |-> 1, minlen |-> 2, lengths |-> {1, 3},
           confused |-> SwappedOrTwin(Hexadecimal)]

MCGroup ==
    [k \in {"verhoeff", "damm10", "damm16"} |->
        CASE k = "verhoeff" -> verhoeff [] k = "damm10" -> damm10
          [] k = "damm16" -> damm16]
Generic == DOMAIN MCGroup

ASSUME TablesDistinguish == Distinguishes

(* numchk.h describes the table of damm16 as 2x+y in GF(2^4) with the      *)
(* polynomial x^4+x+1; damm.c holds 2x+2y.  Half of what the one           *)
(* accumulates is what the other does, so the verdicts are the same.       *)
Bit(x, n) == (x \div 2^n) % 2
Plus(x, z) == LET B(n) == ((Bit(x, n) + Bit(z, n)) % 2) * 2^n
              IN  B(0) + B(1) + B(2) + B(3)
Twice(x) == IF x < 8 THEN 2 * x ELSE Plus(2 * x - 16, 3)
Half == [x \in Hexadecimal |-> CHOOSE h \in Hexadecimal : Twice(h) = x]
ASSUME HalfIsDocumented ==
    /\ Half[0] = 0
    /\ \A x, c \in Hexadecimal : Half[Damm16[x][c]] = Plus(Twice(Half[x]), c)
=============================================================================
