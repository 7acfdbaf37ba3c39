--------------------------- MODULE SuggestProofs ---------------------------
(***************************************************************************)
(* What nmck_aadhaar and nmck_iposan suggest is what the generic checkers  *)
(* accept, for strings of every length.                                    *)
(*                                                                         *)
(* nmck_verhoeff starts with the digit in question and nmck_aadhaar goes   *)
(* on without it, so that they fold the same digits from the left and onto *)
(* the unit; that this makes no difference but for the digit itself is     *)
(* because the quasigroup of Verhoeff's check is a group.  The table of    *)
(* Damm's check is none; there both fold the same, and it is enough that   *)
(* the table has its zeros on the diagonal.  Both facts are proved of the  *)
(* tables as they stand in the sources.                                    *)
(***************************************************************************)
EXTENDS Suggest, TLAPS

D10 == 0 .. 9

-----------------------------------------------------------------------------
(* The table of Verhoeff's check *)

(* Rotations and reflections of the pentagon: 0 .. 4 and 5 .. 9.           *)
Mod5(n) == IF n < 0 THEN n + 5 ELSE IF n >= 5 THEN n - 5 ELSE n
Dihedral(p, q) ==
    IF p < 5 THEN IF q < 5 THEN Mod5(p + q) ELSE 5 + Mod5(p + (q - 5))
    ELSE IF q < 5 THEN 5 + Mod5((p - 5) - q) ELSE Mod5((p - 5) - (q - 5))

LEMMA DihedralTable ==
    \A p, q \in D10 : A!D5[p][q] = Dihedral(p, q)
<1>1. ASSUME NEW p \in D10, NEW q \in D10
      PROVE  A!D5[p][q] = Dihedral(p, q)
  <2> USE DEF A!D5, A!Row, Dihedral, Mod5
  <2>0. CASE p = 0
    BY <2>0 DEF D10
  <2>1. CASE p = 1
    BY <2>1 DEF D10
  <2>2. CASE p = 2
    BY <2>2 DEF D10
  <2>3. CASE p = 3
    BY <2>3 DEF D10
  <2>4. CASE p = 4
    BY <2>4 DEF D10
  <2>5. CASE p = 5
    BY <2>5 DEF D10
  <2>6. CASE p = 6
    BY <2>6 DEF D10
  <2>7. CASE p = 7
    BY <2>7 DEF D10
  <2>8. CASE p = 8
    BY <2>8 DEF D10
  <2>9. CASE p = 9
    BY <2>9 DEF D10
  <2> HIDE DEF A!D5, A!Row, Dihedral, Mod5
  <2> QED
    BY <2>0, <2>1, <2>2, <2>3, <2>4, <2>5, <2>6, <2>7, <2>8, <2>9 DEF D10
<1> QED
  BY <1>1

(* Rotations add up and reflections turn the sense of those behind them.   *)
LEMMA Rotations ==
    ASSUME NEW a \in 0 .. 4, NEW b \in 0 .. 4, NEW e \in 0 .. 4
    PROVE  /\ Mod5(a + b) \in 0 .. 4 /\ Mod5(a - b) \in 0 .. 4
           /\ Mod5(Mod5(a + b) + e) = Mod5(a + Mod5(b + e))
           /\ Mod5(Mod5(a + b) - e) = Mod5(a + Mod5(b - e))
           /\ Mod5(Mod5(a - b) - e) = Mod5(a - Mod5(b + e))
           /\ Mod5(Mod5(a - b) + e) = Mod5(a - Mod5(b - e))
<1>1. Mod5(a + b) \in 0 .. 4 /\ Mod5(a - b) \in 0 .. 4
  BY DEF Mod5
<1>2. Mod5(Mod5(a + b) + e) = Mod5(a + Mod5(b + e))
  BY DEF Mod5
<1>3. Mod5(Mod5(a + b) - e) = Mod5(a + Mod5(b - e))
  BY DEF Mod5
<1>4. Mod5(Mod5(a - b) - e) = Mod5(a - Mod5(b + e))
  BY DEF Mod5
<1>5. Mod5(Mod5(a - b) + e) = Mod5(a - Mod5(b - e))
  BY DEF Mod5
<1> QED
  BY <1>1, <1>2, <1>3, <1>4, <1>5

(* How far the pentagon is turned, before it is reflected or not.          *)
Turned(p) == IF p < 5 THEN p ELSE p - 5

LEMMA DihedralParts ==
    ASSUME NEW p \in D10, NEW q \in D10
    PROVE  /\ Turned(p) \in 0 .. 4 /\ Dihedral(p, q) \in D10
           /\ Dihedral(p, q) < 5 <=> (p < 5 <=> q < 5)
           /\ Turned(Dihedral(p, q)) = IF p < 5 THEN Mod5(Turned(p) + Turned(q))
                                       ELSE Mod5(Turned(p) - Turned(q))
<1>1. Turned(p) \in 0 .. 4 /\ Turned(q) \in 0 .. 4
  BY DEF D10, Turned
<1> DEFINE a == Mod5(Turned(p) + Turned(q))
           s == Mod5(Turned(p) - Turned(q))
<1>2. a \in 0 .. 4 /\ s \in 0 .. 4
  BY <1>1, Rotations
<1>3. Dihedral(p, q) = IF p < 5 THEN IF q < 5 THEN a ELSE 5 + a
                       ELSE IF q < 5 THEN 5 + s ELSE s
  BY DEF Dihedral, Turned
<1> HIDE DEF a, s
<1>4. /\ Dihedral(p, q) \in D10
      /\ Dihedral(p, q) < 5 <=> (p < 5 <=> q < 5)
      /\ Turned(Dihedral(p, q)) = IF p < 5 THEN a ELSE s
  BY <1>2, <1>3 DEF Turned, D10
<1> QED
  BY <1>1, <1>4 DEF a, s

(* It is a group, and 0 its unit. *)
LEMMA DihedralGroup ==
    ASSUME NEW p \in D10, NEW q \in D10, NEW r \in D10
    PROVE  /\ Dihedral(p, q) \in D10
           /\ Dihedral(0, p) = p /\ Dihedral(p, 0) = p
           /\ Dihedral(Dihedral(p, q), r) = Dihedral(p, Dihedral(q, r))
<1>1. Dihedral(p, q) \in D10 /\ Dihedral(q, r) \in D10
  BY DihedralParts
<1>2. Dihedral(0, p) = p /\ Dihedral(p, 0) = p
  BY DEF D10, Dihedral, Mod5
<1> DEFINE x == Dihedral(Dihedral(p, q), r)
           y == Dihedral(p, Dihedral(q, r))
<1>3. x < 5 <=> y < 5
  BY <1>1, DihedralParts
<1>4. Turned(x) = Turned(y)
  <2>1. /\ Turned(p) \in 0 .. 4 /\ Turned(q) \in 0 .. 4 /\ Turned(r) \in 0 .. 4
    BY DihedralParts
  <2>2. /\ Dihedral(p, q) < 5 <=> (p < 5 <=> q < 5)
        /\ Turned(Dihedral(p, q)) = IF p < 5 THEN Mod5(Turned(p) + Turned(q))
                                    ELSE Mod5(Turned(p) - Turned(q))
        /\ Turned(Dihedral(q, r)) = IF q < 5 THEN Mod5(Turned(q) + Turned(r))
                                    ELSE Mod5(Turned(q) - Turned(r))
    BY DihedralParts
  <2>3. /\ Turned(x) = IF Dihedral(p, q) < 5
                       THEN Mod5(Turned(Dihedral(p, q)) + Turned(r))
                       ELSE Mod5(Turned(Dihedral(p, q)) - Turned(r))
        /\ Turned(y) = IF p < 5 THEN Mod5(Turned(p) + Turned(Dihedral(q, r)))
                       ELSE Mod5(Turned(p) - Turned(Dihedral(q, r)))
    BY <1>1, DihedralParts
  <2> HIDE DEF x, y
  <2> DEFINE a == Turned(p)
             b == Turned(q)
             e == Turned(r)
  <2>4. /\ Mod5(Mod5(a + b) + e) = Mod5(a + Mod5(b + e))
        /\ Mod5(Mod5(a + b) - e) = Mod5(a + Mod5(b - e))
        /\ Mod5(Mod5(a - b) - e) = Mod5(a - Mod5(b + e))
        /\ Mod5(Mod5(a - b) + e) = Mod5(a - Mod5(b - e))
    BY <2>1, Rotations
  <2> HIDE DEF a, b, e
  <2> QED
    BY <2>2, <2>3, <2>4 DEF a, b, e
<1>5. x \in D10 /\ y \in D10
  BY <1>1, DihedralParts
<1>6. x = y
  <2> HIDE DEF x, y
  <2> QED
    BY <1>3, <1>4, <1>5 DEF D10, Turned
<1> QED
  BY <1>1, <1>2, <1>6

(* The digit nmck_aadhaar solves for is the inverse, and the only one. *)
LEMMA Inverse5 ==
    ASSUME NEW p \in D10, NEW c \in D10
    PROVE  A!Invert(p) \in D10 /\ (Dihedral(c, p) = 0 <=> c = A!Invert(p))
<1>1. CASE p < 5
  <2>1. A!Invert(p) = IF p = 0 THEN 0 ELSE 5 - p
    BY <1>1 DEF A!Invert, D10
  <2> QED
    BY <1>1, <2>1 DEF D10, Dihedral, Mod5
<1>2. CASE ~(p < 5)
  <2>1. A!Invert(p) = p
    BY <1>2 DEF A!Invert
  <2> QED
    BY <1>2, <2>1 DEF D10, Dihedral, Mod5
<1> QED
  BY <1>1, <1>2

(* Permutations lead to digits; the first one is none. *)
LEMMA PermTable ==
    \A c \in D10 : A!Perm[0][c] = c /\ \A n \in 0 .. 7 : A!Perm[n][c] \in D10
<1>1. ASSUME NEW c \in D10
      PROVE  A!Perm[0][c] = c
  BY DEF D10, A!Perm, A!Row
<1>2. ASSUME NEW c \in D10, NEW n \in 0 .. 7
      PROVE  A!Perm[n][c] \in D10
  BY DEF D10, A!Perm, A!Row
<1> QED
  BY <1>1, <1>2

-----------------------------------------------------------------------------
(* The table of Damm's check *)

(* It leads to nothing only from a digit and the same. *)
LEMMA DammTable ==
    \A p, c \in D10 : /\ I!Damm10[p][c] \in D10
                      /\ I!Damm10[p][c] = 0 <=> c = p
<1>1. ASSUME NEW p \in D10, NEW c \in D10
      PROVE  /\ I!Damm10[p][c] \in D10
             /\ I!Damm10[p][c] = 0 <=> c = p
  <2> USE DEF I!Damm10, I!Row
  <2>0. CASE p = 0
    BY <2>0 DEF D10
  <2>1. CASE p = 1
    BY <2>1 DEF D10
  <2>2. CASE p = 2
    BY <2>2 DEF D10
  <2>3. CASE p = 3
    BY <2>3 DEF D10
  <2>4. CASE p = 4
    BY <2>4 DEF D10
  <2>5. CASE p = 5
    BY <2>5 DEF D10
  <2>6. CASE p = 6
    BY <2>6 DEF D10
  <2>7. CASE p = 7
    BY <2>7 DEF D10
  <2>8. CASE p = 8
    BY <2>8 DEF D10
  <2>9. CASE p = 9
    BY <2>9 DEF D10
  <2> HIDE DEF I!Damm10, I!Row
  <2> QED
    BY <2>0, <2>1, <2>2, <2>3, <2>4, <2>5, <2>6, <2>7, <2>8, <2>9 DEF D10
<1> QED
  BY <1>1

-----------------------------------------------------------------------------
(* The calls *)

(* nmck_verhoeff, begun with d, is where nmck_aadhaar is, but for d. *)
Folded ==
    which = "aadhaar" =>
        /\ A!TypeOK
        /\ pc # "done" => ret = 0
        /\ j = digits + 1 /\ digits + i <= len - 1
        /\ \A d \in D10 : vh[d] = A!D5[d][prod]
        /\ ret > 0 => A!Suggested(ret) = A!Invert(prod)

(* nmck_damm10 is where nmck_iposan is, two characters behind. *)
Trailing ==
    which = "iposan" =>
        /\ I!TypeOK
        /\ pc # "done" => ret = 0
        /\ pc = "enter" => digits = 0
        /\ pc = "loop" => i = digits + 2
        /\ damm = prod
        /\ ret > 0 => digits = 9 /\ I!Suggested(ret) = I!Letter(prod)

Inv == which \in {"aadhaar", "iposan"} /\ Folded /\ Trailing

LEMMA Starts == Init => Inv
<1> SUFFICES ASSUME Init PROVE Inv
  OBVIOUS
<1>1. CASE which = "aadhaar" /\ A!Init
  <2>1. /\ pc = "enter" /\ len \in AadhaarLengths /\ first \in A!Char
        /\ i = len - 1 /\ j = 1 /\ prod = 0 /\ ret = 0 /\ digits = 0
        /\ vh = [c \in A!Digit |-> A!D5[0][A!Perm[0][c]]]
    BY <1>1 DEF A!Init
  <2>2. len \in Nat \ {0}
    BY <2>1, LengthAssumption
  <2>3. ASSUME NEW d \in D10
        PROVE  vh[d] = d /\ A!D5[d][prod] = d /\ vh[d] \in D10
    <3>1. A!Perm[0][d] = d /\ 0 \in D10
      BY PermTable DEF D10
    <3>2. A!D5[0][d] = d /\ A!D5[d][0] = d
      BY <3>1, DihedralTable, DihedralGroup
    <3> QED
      BY <2>1, <3>1, <3>2 DEF A!Digit, D10
  <2>4. vh \in [A!Digit -> A!Digit]
    BY <2>1, <2>3 DEF A!Digit, D10
  <2>5. A!TypeOK
    <3>1. i \in 0 .. len - 1 /\ j \in 1 .. len /\ digits \in 0 .. len - 1
      BY <2>1, <2>2
    <3>2. pc \in {"enter", "loop", "done"} /\ prod \in A!Digit
          /\ ret \in {-1} \cup 0 .. 115
      BY <2>1 DEF A!Digit
    <3> QED
      BY <2>1, <2>4, <3>1, <3>2 DEF A!TypeOK
  <2> QED
    BY <1>1, <2>1, <2>2, <2>3, <2>5 DEF Inv, Folded, Trailing
<1>2. CASE which = "iposan" /\ I!Init
  BY <1>2 DEF I!Init, I!TypeOK, I!Digit, Inv, Folded, Trailing
<1> QED
  BY <1>1, <1>2 DEF Init

(* One more digit behind all others: the group's multiplication does not   *)
(* mind what has been folded first.                                        *)
LEMMA ReadFolded ==
    ASSUME which = "aadhaar", Folded, pc = "loop", i > 0,
           NEW c, c = Space \/ c \in D10, A!Read(c)
    PROVE  /\ prod' \in D10 /\ vh' \in [D10 -> D10]
           /\ digits' \in Nat /\ j' = digits' + 1 /\ digits' + i' <= len - 1
           /\ \A d \in D10 : vh'[d] = A!D5[d][prod']
<1>1. /\ i \in 0 .. len - 1 /\ len \in Nat /\ prod \in D10
      /\ digits \in Nat /\ vh \in [D10 -> D10]
      /\ j = digits + 1 /\ digits + i <= len - 1
      /\ \A d \in D10 : vh[d] = A!D5[d][prod]
  <2>1. /\ A!TypeOK /\ j = digits + 1 /\ digits + i <= len - 1
        /\ \A d \in D10 : vh[d] = A!D5[d][prod]
    BY DEF Folded
  <2>2. len \in Nat /\ prod \in D10 /\ vh \in [D10 -> D10]
    BY <2>1, LengthAssumption DEF A!TypeOK, A!Digit, D10
  <2>3. i \in 0 .. len - 1 /\ digits \in 0 .. len - 1
    BY <2>1 DEF A!TypeOK
  <2> QED
    BY <2>1, <2>2, <2>3
<1>2. i' = i - 1
  BY DEF A!Read
<1>3. CASE c = Space
  BY <1>1, <1>2, <1>3 DEF A!Read
<1>4. CASE c # Space
  <2> DEFINE f == A!Perm[j % 8][c]
  <2>1. /\ c \in D10 /\ j' = j + 1 /\ digits' = digits + 1
        /\ prod' = A!D5[prod][A!Perm[j % 8][c]]
        /\ vh' = [d \in D10 |-> A!D5[vh[d]][A!Perm[(1 + digits) % 8][c]]]
    BY <1>4 DEF A!Read, A!Observe, A!Digit, D10
  <2>2. (1 + digits) % 8 = j % 8 /\ j % 8 \in 0 .. 7
    BY <1>1
  <2>3. f \in D10
    BY <2>1, <2>2, PermTable
  <2>4. prod' = A!D5[prod][f] /\ vh' = [d \in D10 |-> A!D5[vh[d]][f]]
    BY <2>1, <2>2
  <2> HIDE DEF f
  <2>5. prod' = Dihedral(prod, f) /\ prod' \in D10
    BY <1>1, <2>3, <2>4, DihedralTable, DihedralGroup
  <2>6. ASSUME NEW d \in D10
        PROVE  vh'[d] = A!D5[d][prod'] /\ vh'[d] \in D10
    <3>1. vh[d] = Dihedral(d, prod) /\ vh[d] \in D10
      BY <1>1, DihedralTable
    <3>2. vh'[d] = Dihedral(Dihedral(d, prod), f)
      BY <2>3, <2>4, <3>1, DihedralTable
    <3>3. vh'[d] = Dihedral(d, prod')
      BY <1>1, <2>3, <2>5, <3>2, DihedralGroup
    <3>4. A!D5[d][prod'] = Dihedral(d, prod') /\ Dihedral(d, prod') \in D10
      BY <2>5, DihedralTable, DihedralGroup
    <3> QED
      BY <3>3, <3>4
  <2>7. vh' \in [D10 -> D10]
    BY <2>4, <2>6
  <2>8. digits' \in Nat /\ j' = digits' + 1 /\ digits' + i' <= len - 1
    BY <1>1, <1>2, <2>1
  <2> QED
    BY <2>5, <2>6, <2>7, <2>8
<1> QED
  BY <1>3, <1>4

LEMMA Within ==
    ASSUME NEW n \in Nat, NEW a \in 1 .. n - 1, NEW b \in Nat,
           b + (a - 1) <= n - 1
    PROVE  a - 1 \in 0 .. n - 1 /\ b \in 0 .. n - 1 /\ b + 1 \in 1 .. n
  OBVIOUS

LEMMA AadhaarKeeps ==
    ASSUME which = "aadhaar", Folded, A!Next, which' = which
    PROVE  Folded'
<1>1. /\ A!TypeOK /\ j = digits + 1 /\ digits + i <= len - 1
      /\ pc # "done" => ret = 0
      /\ \A d \in D10 : vh[d] = A!D5[d][prod]
      /\ ret > 0 => A!Suggested(ret) = A!Invert(prod)
  BY DEF Folded
<1>2. len \in Nat \ {0} /\ digits \in Nat /\ i \in 0 .. len - 1
  BY <1>1, LengthAssumption DEF A!TypeOK
<1>3. CASE A!Refuse
  <2>1. /\ ret' = -1 /\ pc' = "done" /\ len' = len /\ first' = first /\ i' = i
        /\ j' = j /\ prod' = prod /\ digits' = digits /\ vh' = vh
    BY <1>3 DEF A!Refuse
  <2>2. A!TypeOK'
    BY <1>1, <2>1 DEF A!TypeOK, A!Char, A!Digit
  <2> QED
    BY <1>1, <2>1, <2>2 DEF Folded
<1>4. CASE A!Enter
  <2>1. CASE ~A!Refuse
    <3>1. /\ pc' = "loop" /\ ret' = ret /\ len' = len /\ first' = first
          /\ i' = i /\ j' = j /\ prod' = prod /\ digits' = digits /\ vh' = vh
          /\ pc = "enter"
      BY <1>4, <2>1 DEF A!Enter
    <3>2. A!TypeOK'
      BY <1>1, <3>1 DEF A!TypeOK, A!Char, A!Digit
    <3> QED
      BY <1>1, <3>1, <3>2 DEF Folded
  <2> QED
    BY <1>3, <2>1
<1>5. CASE A!Loop
  <2>1. PICK c \in IF i = 1 THEN {first} ELSE A!Char :
            IF c = Other THEN A!Refuse ELSE A!Read(c)
    BY <1>5 DEF A!Loop
  <2>2. CASE c # Other
    <3>1. c = Space \/ c \in D10
      BY <1>1, <2>1, <2>2 DEF A!TypeOK, A!Char, A!Digit, D10
    <3>2. A!Read(c) /\ pc = "loop" /\ i > 0 /\ ret = 0
      BY <1>1, <1>5, <2>1, <2>2 DEF A!Loop
    <3>3. /\ prod' \in D10 /\ vh' \in [D10 -> D10]
          /\ digits' \in Nat /\ j' = digits' + 1 /\ digits' + i' <= len - 1
          /\ \A d \in D10 : vh'[d] = A!D5[d][prod']
      BY <3>1, <3>2, ReadFolded
    <3>4. /\ i' = i - 1 /\ pc' = pc /\ len' = len /\ first' = first
          /\ ret' = ret
      BY <3>2 DEF A!Read
    <3>5. A!TypeOK'
      <4>1. /\ i' \in 0 .. len - 1 /\ j' \in 1 .. len
            /\ digits' \in 0 .. len - 1
        <5>1. i \in 1 .. len - 1 /\ len \in Nat
          BY <1>2, <3>2
        <5>2. /\ j' = digits' + 1 /\ digits' \in Nat /\ digits' + i' <= len - 1
              /\ i' = i - 1
          BY <3>3, <3>4
        <5> QED
          BY <5>1, <5>2, Within
      <4>2. prod' \in A!Digit /\ vh' \in [A!Digit -> A!Digit]
        BY <3>3 DEF A!Digit, D10
      <4> QED
        BY <1>1, <3>4, <4>1, <4>2 DEF A!TypeOK, A!Char, A!Digit
    <3> QED
      BY <3>2, <3>3, <3>4, <3>5 DEF Folded
  <2> QED
    BY <1>3, <2>1, <2>2
<1>6. CASE A!Return
  <2>1. PICK last \in A!Char :
            ret' = A!Verdict(A!Invert(prod), A!Invert(prod) # last)
    BY <1>6 DEF A!Return
  <2>2. /\ pc' = "done" /\ len' = len /\ first' = first /\ i' = i
        /\ j' = j /\ prod' = prod /\ digits' = digits /\ vh' = vh
    BY <1>6 DEF A!Return
  <2>3. A!Invert(prod) \in D10
    BY <1>1, Inverse5 DEF A!TypeOK, A!Digit, D10
  <2>4. ret' \in 0 .. 115 /\ A!Suggested(ret') = A!Invert(prod)
    BY <2>1, <2>3 DEF A!Verdict, A!Suggested, D10
  <2>5. A!TypeOK'
    BY <1>1, <2>2, <2>4 DEF A!TypeOK, A!Char, A!Digit
  <2> QED
    BY <1>1, <2>2, <2>4, <2>5 DEF Folded, A!Suggested, A!Invert
<1>7. CASE A!Done
  BY <1>1, <1>7 DEF A!Done, A!vars, A!TypeOK, A!Char, A!Digit, Folded
<1> QED
  BY <1>4, <1>5, <1>6, <1>7 DEF A!Next

LEMMA IposanKeeps ==
    ASSUME which = "iposan", Trailing, I!Next, which' = which
    PROVE  Trailing'
<1>1. /\ I!TypeOK /\ damm = prod
      /\ pc # "done" => ret = 0
      /\ pc = "enter" => digits = 0
      /\ pc = "loop" => i = digits + 2
      /\ ret > 0 => digits = 9 /\ I!Suggested(ret) = I!Letter(prod)
  BY DEF Trailing
<1>2. CASE I!Refuse
  <2>1. /\ ret' = -1 /\ pc' = "done" /\ len' = len /\ i' = i
        /\ prod' = prod /\ digits' = digits /\ damm' = damm
    BY <1>2 DEF I!Refuse
  <2>2. I!TypeOK'
    BY <1>1, <2>1 DEF I!TypeOK, I!Digit
  <2> QED
    BY <1>1, <2>1, <2>2 DEF Trailing
<1>3. CASE I!Enter
  <2>1. CASE ~I!Refuse
    <3>1. /\ pc' = "loop" /\ ret' = ret /\ len' = len
          /\ i' = 2 /\ prod' = prod /\ digits' = digits /\ damm' = damm
          /\ pc = "enter"
      BY <1>3, <2>1 DEF I!Enter
    <3>2. I!TypeOK'
      BY <1>1, <3>1 DEF I!TypeOK, I!Digit
    <3> QED
      BY <1>1, <3>1, <3>2 DEF Trailing
  <2> QED
    BY <1>2, <2>1
<1>4. CASE I!Loop
  <2>1. PICK c \in I!Char : IF c = Other THEN I!Refuse ELSE I!Read(c)
    BY <1>4 DEF I!Loop
  <2>2. CASE c # Other
    <3>1. /\ c \in D10 /\ pc = "loop" /\ i < 11 /\ ret = 0
          /\ prod' = I!Damm10[prod][c] /\ i' = i + 1 /\ digits' = digits + 1
          /\ damm' = I!Damm10[damm][c]
          /\ pc' = pc /\ len' = len /\ ret' = ret
      BY <1>1, <1>4, <2>1, <2>2 DEF I!Loop, I!Read, I!Char, I!Digit, D10
    <3>2. prod \in D10 /\ i = digits + 2 /\ digits \in Nat
      BY <1>1, <3>1 DEF I!TypeOK, I!Digit, D10
    <3>3. damm' = prod' /\ prod' \in D10
      BY <1>1, <3>1, <3>2, DammTable
    <3>4. i' \in 0 .. 11 /\ digits' \in 0 .. 9 /\ i' = digits' + 2
      BY <3>1, <3>2
    <3>5. I!TypeOK'
      BY <1>1, <3>1, <3>3, <3>4 DEF I!TypeOK, I!Digit, D10
    <3> QED
      BY <3>1, <3>3, <3>4, <3>5 DEF Trailing
  <2> QED
    BY <1>2, <2>1, <2>2
<1>5. CASE I!Return
  <2>1. PICK c \in I!Letters \cup {Other} :
            ret' = I!Verdict(I!Letter(prod), c # I!Letter(prod))
    BY <1>5 DEF I!Return
  <2>2. /\ pc = "loop" /\ i = 11 /\ pc' = "done" /\ len' = len /\ i' = i
        /\ prod' = prod /\ digits' = digits /\ damm' = damm
    BY <1>5 DEF I!Return
  <2>3. digits = 9
    BY <1>1, <2>2 DEF I!TypeOK
  <2>4. prod \in 0 .. 9
    BY <1>1 DEF I!TypeOK, I!Digit
  <2>5. ret' \in 0 .. 179 /\ I!Suggested(ret') = I!Letter(prod)
    BY <2>1, <2>4 DEF I!Verdict, I!Suggested, I!Letter
  <2>6. I!TypeOK'
    BY <1>1, <2>2, <2>5 DEF I!TypeOK, I!Digit
  <2> QED
    BY <1>1, <2>2, <2>3, <2>5, <2>6 DEF Trailing, I!Suggested, I!Letter
<1>6. CASE I!Done
  BY <1>1, <1>6 DEF I!Done, I!vars, I!TypeOK, I!Digit, Trailing
<1> QED
  BY <1>3, <1>4, <1>5, <1>6 DEF I!Next

LEMMA Inductive == Inv /\ [Next]_vars => Inv'
<1> SUFFICES ASSUME Inv, [Next]_vars PROVE Inv'
  OBVIOUS
<1>1. CASE which = "aadhaar" /\ A!Next /\ UNCHANGED <<which, damm>>
  <2>1. which' = which /\ Folded'
    BY <1>1, AadhaarKeeps DEF Inv
  <2> QED
    BY <1>1, <2>1 DEF Inv, Trailing
<1>2. CASE which = "iposan" /\ I!Next /\ UNCHANGED <<which, first, j, vh>>
  <2>1. which' = which /\ Trailing'
    BY <1>2, IposanKeeps DEF Inv
  <2> QED
    BY <1>2, <2>1 DEF Inv, Folded
<1>3. CASE UNCHANGED vars
  <2>1. which = "aadhaar" => A!Done \/ UNCHANGED A!vars
    BY <1>3 DEF vars, A!vars
  <2>2. which' = which /\ pc' = pc /\ len' = len /\ i' = i /\ prod' = prod
        /\ ret' = ret /\ digits' = digits /\ first' = first /\ j' = j
        /\ vh' = vh /\ damm' = damm
    BY <1>3 DEF vars
  <2> QED
    BY <2>2 DEF Inv, Folded, Trailing, A!TypeOK, I!TypeOK, A!Char, A!Digit,
        I!Digit, A!Suggested, A!Invert, I!Suggested, I!Letter
<1> QED
  BY <1>1, <1>2, <1>3 DEF Next

LEMMA Invariance == Spec => []Inv
<1> QED
  BY Starts, Inductive, PTL DEF Spec

(* For strings of every length, neither call leaves its string, and the    *)
(* verdict is -1 or a character and a bit: TypeOK.                         *)
THEOREM TypesOfSuggestions == Spec => []TypeOK
<1>1. Inv => TypeOK
  BY DEF Inv, Folded, Trailing, TypeOK
<1> QED
  BY <1>1, Invariance, PTL

(* For strings of every length, with blanks wherever they are, the digit   *)
(* that nmck_aadhaar suggests is the one and only digit with which         *)
(* nmck_verhoeff accepts the number.                                       *)
THEOREM SuggestedVerhoeff == Spec => []SuggestsVerhoeff
<1>1. Inv => SuggestsVerhoeff
  <2> SUFFICES ASSUME Inv, which = "aadhaar", ret > 0, NEW c \in D10
               PROVE  vh[c] = 0 <=> c = A!Suggested(ret)
    BY DEF SuggestsVerhoeff, A!SuggestsVerhoeff, A!Digit, D10
  <2>1. prod \in D10 /\ vh[c] = A!D5[c][prod] /\ A!Suggested(ret) = A!Invert(prod)
    BY DEF Inv, Folded, A!TypeOK, A!Digit, D10
  <2> QED
    BY <2>1, DihedralTable, Inverse5
<1> QED
  BY <1>1, Invariance, PTL

(* The letter that nmck_iposan suggests stands for the one and only digit  *)
(* with which nmck_damm10 accepts the application number.                  *)
THEOREM SuggestedDamm == Spec => []SuggestsDamm
<1>1. Inv => SuggestsDamm
  <2> SUFFICES ASSUME Inv, which = "iposan", ret > 0
               PROVE  I!SuggestsDamm
    BY DEF SuggestsDamm, I!SuggestsDamm
  <2>1. /\ prod \in D10 /\ damm = prod
        /\ digits = 9 /\ I!Suggested(ret) = I!Letter(prod)
    BY DEF Inv, Trailing, I!TypeOK, I!Digit, D10
  <2>2. ASSUME NEW d \in D10
        PROVE  I!Damm10[damm][d] = 0 <=> I!Suggested(ret) = I!Letter(d)
    <3>1. I!Damm10[damm][d] = 0 <=> d = prod
      BY <2>1, DammTable
    <3>2. I!Letter(prod) = I!Letter(d) <=> d = prod
      BY <2>1 DEF I!Letter, D10
    <3> QED
      BY <2>1, <3>1, <3>2
  <2> QED
    BY <2>1, <2>2 DEF I!SuggestsDamm, I!Digit, D10
<1> QED
  BY <1>1, Invariance, PTL

=============================================================================
