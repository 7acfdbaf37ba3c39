-------------------------- MODULE RemainderProofs --------------------------
(***************************************************************************)
(* Proofs about Remainder, for every scheme, every length and every string:*)
(* it does not matter when the sum is reduced, no sum leaves its word and  *)
(* no digit its buffer.  TLC evaluates the assumptions on the schemes of   *)
(* the sources (MCRemainder).                                              *)
(***************************************************************************)
EXTENDS Remainder, TLAPS

-----------------------------------------------------------------------------
(* Arithmetic *)

(* Quotient and remainder are unique. *)
LEMMA Unique ==
    ASSUME NEW m \in Nat \ {0}, NEW q \in Int, NEW c \in 0 .. m - 1
    PROVE  (m * q + c) % m = c
OBVIOUS

(* Multiples of the modulus do not matter. *)
LEMMA Multiples ==
    ASSUME NEW m \in Nat \ {0}, NEW k \in Int, NEW a \in Int
    PROVE  (m * k + a) % m = a % m
<1> DEFINE b == a \div m
           c == a % m
<1>1. b \in Int /\ c \in 0 .. m - 1 /\ a = m * b + c
  OBVIOUS
<1> HIDE DEF b, c
<1>2. m * k + a = m * (k + b) + c
  <2>1. m * (k + b) = m * k + m * b
    BY <1>1
  <2> QED BY <1>1, <2>1
<1>3. (m * (k + b) + c) % m = c
  BY <1>1, Unique
<1> QED BY <1>2, <1>3 DEF c

-----------------------------------------------------------------------------
(* The operators of the checkers *)

(* What a reduction drops is a multiple of the modulus and stays one.      *)
LEMMA AccumulateRemainder ==
    ASSUME NEW n \in Use, NEW x \in Nat, NEW d \in Nat
    PROVE  /\ Accumulate(n, x, d) \in Nat
           /\ Accumulate(n, x % S(n).mod, d) % S(n).mod
                 = Accumulate(n, x, d) % S(n).mod
<1> DEFINE m == S(n).mod
           r == S(n).radix
           q == x \div m
           z == x % m
           f(a) == Accumulate(n, a, d)
<1>1. m \in Nat \ {0} /\ r \in Nat /\ S(n).before \in BOOLEAN
  BY SchemeAssumption
<1>2. q \in Int /\ z \in Nat /\ x = m * q + z
  BY <1>1
<1>3. q * r \in Int
  BY <1>1, <1>2
<1>4. \A a \in Nat : f(a) \in Nat
                     /\ f(a) = IF S(n).before THEN (a + d) * r ELSE a * r + d
  BY <1>1 DEF Accumulate
<1> HIDE DEF m, r, q, z, f
<1>5. f(x) = m * (q * r) + f(z)
  <2>1. x * r = m * (q * r) + z * r
    BY <1>1, <1>2
  <2>2. CASE S(n).before
    <3>1. (x + d) * r = x * r + d * r /\ (z + d) * r = z * r + d * r
      BY <1>1, <1>2
    <3> QED BY <1>1, <1>2, <1>3, <1>4, <2>1, <2>2, <3>1
  <2>3. CASE ~S(n).before
    BY <1>1, <1>2, <1>3, <1>4, <2>1, <2>3
  <2> QED BY <2>2, <2>3
<1>6. f(z) \in Int
  BY <1>2, <1>4
<1>7. (m * (q * r) + f(z)) % m = f(z) % m
  BY <1>1, <1>3, <1>6, Multiples
<1>8. f(z) % m = f(x) % m
  BY <1>5, <1>7
<1>9. f(x) \in Nat
  BY <1>4
<1> QED BY <1>8, <1>9 DEF f, m, z

LEMMA Zero ==
    ASSUME NEW m \in Nat \ {0}
    PROVE  0 % m = 0
<1>1. (m * 0 + 0) % m = 0
  BY Unique
<1>2. m * 0 + 0 = 0
  OBVIOUS
<1> QED BY <1>1, <1>2

(* A remainder is its own remainder. *)
LEMMA Idempotent ==
    ASSUME NEW m \in Nat \ {0}, NEW x \in Nat
    PROVE  x % m \in 0 .. m - 1 /\ (x % m) % m = x % m
<1>1. x % m \in 0 .. m - 1
  OBVIOUS
<1>2. (m * 0 + (x % m)) % m = x % m
  BY <1>1, Unique
<1>3. m * 0 + (x % m) = x % m
  BY <1>1
<1> QED BY <1>1, <1>2, <1>3

(* The check characters depend on the remainder only. *)
LEMMA SettledRemainder ==
    ASSUME NEW n \in Use, NEW x \in Nat
    PROVE  Settled(n, x) = Settled(n, x % S(n).mod)
<1> DEFINE m == S(n).mod
           B == S(n).bias
           q == x \div m
           z == x % m
<1>1. m \in Nat \ {0} /\ B \in Nat
  BY SchemeAssumption
<1>2. q \in Int /\ z \in Nat /\ x = m * q + z
  BY <1>1
<1>3. z % m = z
  BY <1>1, Idempotent
<1>4. /\ Settled(n, x) = IF B = 0 THEN x % m ELSE (B - x) % m
      /\ Settled(n, x % S(n).mod) = IF B = 0 THEN z % m ELSE (B - z) % m
  BY DEF Settled
<1>5. x % m = z
  OBVIOUS
<1> HIDE DEF m, B, q, z
<1>6. (m * (-q) + (B - z)) % m = (B - z) % m
  <2>1. -q \in Int /\ B - z \in Int
    BY <1>1, <1>2
  <2> QED BY <1>1, <2>1, Multiples
<1>7. B - x = m * (-q) + (B - z)
  BY <1>1, <1>2
<1> QED BY <1>3, <1>4, <1>5, <1>6, <1>7

-----------------------------------------------------------------------------
(* The remainder *)

LEMMA InitRemainder == Init => SumIsRemainder
<1> SUFFICES ASSUME Init PROVE SumIsRemainder
  OBVIOUS
<1>1. S(scheme).mod \in Nat \ {0}
  BY SchemeAssumption DEF Init
<1>2. 0 % S(scheme).mod = 0
  BY <1>1, Zero, Zenon
<1>3. count \in 0 .. Len(S(scheme).val) /\ scheme \in Use
  BY SchemeAssumption DEF Init
<1>4. j = 0 /\ j \in 0 .. count
  BY <1>3 DEF Init
<1>5. sum \in Nat /\ pend \in Seq(Nat) /\ ref = sum % S(scheme).mod
  BY <1>2 DEF Init
<1> QED BY <1>3, <1>4, <1>5 DEF Init, SumIsRemainder

LEMMA ReadRemainder == SumIsRemainder /\ Read => SumIsRemainder'
<1> SUFFICES ASSUME SumIsRemainder, Read PROVE SumIsRemainder'
  OBVIOUS
<1>1. UNCHANGED <<scheme, sum, tail, count, ref>> /\ j' = j + 1 /\ j < count
  BY DEF Read
<1>2. PICK c \in Typed(j + 1, DOMAIN S(scheme).val[j + 1]) :
         pend' = S(scheme).val[j + 1][c]
  BY DEF Read
<1>3. scheme \in Use /\ count \in 0 .. Len(S(scheme).val) /\ j \in 0 .. count
  BY SchemeAssumption DEF SumIsRemainder
<1>4. j + 1 \in 1 .. Len(S(scheme).val) /\ j + 1 \in 0 .. count
  BY <1>1, <1>3
<1>5. c \in DOMAIN S(scheme).val[j + 1]
  BY <1>2, <1>3, <1>4, SchemeAssumption
<1>6. pend' \in Seq(Nat)
  BY <1>2, <1>3, <1>4, <1>5, SchemeAssumption
<1> QED BY <1>1, <1>4, <1>6 DEF SumIsRemainder

LEMMA AddRemainder == SumIsRemainder /\ Add => SumIsRemainder'
<1> SUFFICES ASSUME SumIsRemainder, Add PROVE SumIsRemainder'
  OBVIOUS
<1> DEFINE m == S(scheme).mod
           d == Head(pend)
           x == Accumulate(scheme, sum, d)
<1>1. /\ UNCHANGED <<scheme, tail, count, j>> /\ pend # <<>>
      /\ pend' = Tail(pend)
      /\ sum' = IF bsz' \in S(scheme).reduced THEN x % m ELSE x
      /\ ref' = Accumulate(scheme, ref, d) % m
  BY DEF Add
<1>2. /\ scheme \in Use /\ sum \in Nat /\ pend \in Seq(Nat) /\ ref = sum % m
      /\ tail \in DOMAIN S(scheme).tails /\ count \in Counts(scheme)
      /\ j \in 0 .. count
  BY DEF SumIsRemainder
<1>3. m \in Nat \ {0}
  BY <1>2, SchemeAssumption
<1>4. d \in Nat /\ pend' \in Seq(Nat)
  BY <1>1, <1>2
<1> HIDE DEF d
<1>5. x \in Nat /\ ref' = x % m
  BY <1>1, <1>2, <1>4, AccumulateRemainder
<1> HIDE DEF x, m
<1>6. x % m \in 0 .. m - 1 /\ (x % m) % m = x % m
  BY <1>3, <1>5, Idempotent, Zenon
<1>7. sum' \in Nat /\ ref' = sum' % m
  <2>1. CASE bsz' \in S(scheme).reduced
    <3>1. sum' = x % m
      BY <1>1, <2>1
    <3>2. x % m \in Nat
      BY <1>3, <1>6
    <3> QED
      BY <1>5, <1>6, <3>1, <3>2
  <2>2. CASE bsz' \notin S(scheme).reduced
    <3>1. sum' = x
      BY <1>1, <2>2
    <3> QED
      BY <1>5, <3>1
  <2> QED
    BY <2>1, <2>2
<1>8. ref' = sum' % S(scheme').mod
  BY <1>1, <1>7 DEF m
<1> QED BY <1>1, <1>2, <1>4, <1>7, <1>8 DEF SumIsRemainder

LEMMA AppendRemainder == SumIsRemainder /\ Append00 => SumIsRemainder'
<1> SUFFICES ASSUME SumIsRemainder, Append00 PROVE SumIsRemainder'
  OBVIOUS
<1>1. tail \in Seq(Nat)
  BY SchemeAssumption DEF SumIsRemainder
<1> QED BY <1>1 DEF SumIsRemainder, Append00, S, Counts

LEMMA OtherRemainder ==
    SumIsRemainder
      /\ (Enter \/ Foreign \/ CheckLength \/ Compare \/ UNCHANGED vars)
        => SumIsRemainder'
<1> SUFFICES ASSUME SumIsRemainder,
                    Enter \/ Foreign \/ CheckLength \/ Compare \/ UNCHANGED vars
             PROVE  SumIsRemainder'
  OBVIOUS
<1>1. UNCHANGED <<scheme, sum, pend, tail, count, j, ref>>
  BY DEF Enter, Foreign, CheckLength, Compare, Refuse, vars
<1> QED BY <1>1 DEF SumIsRemainder, S, Counts

(* Wherever a checker reduces its sum, however long the number: what it    *)
(* compares in the end is the number's remainder (the loops of nmck_iban,  *)
(* nmck_credref and nmck_lei over buf, of nmck_istc over its parts).       *)
THEOREM KeepsRemainder == Spec => []SumIsRemainder
<1>1. Init => SumIsRemainder
  BY InitRemainder
<1>2. SumIsRemainder /\ [Next]_vars => SumIsRemainder'
  BY ReadRemainder, AddRemainder, AppendRemainder, OtherRemainder
     DEF Next, Returned
<1> QED BY <1>1, <1>2, PTL DEF Spec

-----------------------------------------------------------------------------
(* The verdict *)

LEMMA CompareRight == SumIsRemainder /\ Compare => AcceptsDocumented'
<1> SUFFICES ASSUME SumIsRemainder, Compare PROVE AcceptsDocumented'
  OBVIOUS
<1> DEFINE c == S(scheme).answer[Settled(scheme, sum)]
<1>1. /\ UNCHANGED <<scheme, sum, ref>> /\ pc' = "done"
      /\ last' \in S(scheme).check
      /\ ret' = [neg |-> FALSE, chars |-> c, wrong |-> c # last']
  BY DEF Compare
<1>2. scheme \in Use /\ sum \in Nat /\ ref = sum % S(scheme).mod
  BY DEF SumIsRemainder
<1>3. ref \in 0 .. S(scheme).mod - 1
  <2> DEFINE m == S(scheme).mod
  <2>1. m \in Nat \ {0}
    BY <1>2, SchemeAssumption
  <2> HIDE DEF m
  <2>2. sum % m \in 0 .. m - 1
    BY <1>2, <2>1, Idempotent, Zenon
  <2> QED BY <1>2, <2>2 DEF m
<1>4. c = S(scheme).answer[Settled(scheme, ref)]
  BY <1>2, SettledRemainder
<1>5. last' = S(scheme).answer[Settled(scheme, ref)]
        <=> last' \in S(scheme).documented[ref]
  BY <1>1, <1>2, <1>3, AnswerAssumption
<1>6. Conformant' <=> c = last'
  BY <1>1 DEF Conformant
<1> QED BY <1>1, <1>4, <1>5, <1>6 DEF AcceptsDocumented

LEMMA OtherRight ==
    AcceptsDocumented
      /\ (\/ Enter \/ Foreign \/ Read \/ Append00 \/ CheckLength \/ Add
          \/ UNCHANGED vars)
        => AcceptsDocumented'
<1> SUFFICES ASSUME AcceptsDocumented,
                    \/ Enter \/ Foreign \/ Read \/ Append00 \/ CheckLength \/ Add
                    \/ UNCHANGED vars
             PROVE  AcceptsDocumented'
  OBVIOUS
<1>1. CASE UNCHANGED vars
  BY <1>1 DEF AcceptsDocumented, Conformant, vars, S
<1>2. CASE Enter \/ Foreign \/ CheckLength
  BY <1>2 DEF AcceptsDocumented, Enter, Foreign, CheckLength, Refuse, Refusal
<1>3. CASE Read \/ Append00 \/ Add
  BY <1>3 DEF AcceptsDocumented, Read, Append00, Add
<1> QED BY <1>1, <1>2, <1>3

(* A string is found conformant if and only if its check characters are    *)
(* the ones documented for its remainder, however long it is (the last     *)
(* lines of nmck_iban, nmck_isni and the others), given that they are the  *)
(* right ones remainder by remainder, which TLC evaluates for each scheme. *)
THEOREM RightVerdicts == Spec => []AcceptsDocumented
<1>1. Init => AcceptsDocumented
  BY DEF Init, AcceptsDocumented
<1>2. SumIsRemainder /\ AcceptsDocumented /\ [Next]_vars
        => AcceptsDocumented'
  BY OtherRight, CompareRight DEF Next, Returned
<1> QED BY <1>1, <1>2, KeepsRemainder, PTL DEF Spec

-----------------------------------------------------------------------------
(* Room for the digits and for the sum *)

(* A multiplier keeps the order. *)
LEMMA Times ==
    ASSUME NEW a \in Nat, NEW b \in Nat, NEW r \in Nat, a <= b
    PROVE  a * r <= b * r /\ a * r \in Nat /\ b * r \in Nat
<1>1. b - a \in Nat /\ b = a + (b - a)
  OBVIOUS
<1>2. b * r = a * r + (b - a) * r
  BY <1>1
<1>3. a * r \in Nat /\ (b - a) * r \in Nat
  BY <1>1
<1> QED BY <1>2, <1>3

(* Greater sums and digits make greater sums. *)
LEMMA AccumulateMonotone ==
    ASSUME NEW n \in Use, NEW x \in Nat, NEW y \in Nat, x <= y,
           NEW d \in Nat, NEW e \in Nat, d <= e
    PROVE  Accumulate(n, x, d) <= Accumulate(n, y, e)
<1> DEFINE r == S(n).radix
<1>1. r \in Nat
  BY SchemeAssumption
<1> HIDE DEF r
<1>2. (x + d) * r <= (y + e) * r
  BY <1>1, Times
<1>3. x * r + d <= y * r + e
  BY <1>1, Times
<1> QED BY <1>2, <1>3 DEF Accumulate, r

(* What TLC evaluates of the bounds, for one number of characters, what is *)
(* put behind them, and one number of digits.                              *)
LEMMA Bounds ==
    ASSUME NEW n \in Use, NEW m \in Counts(n), Enters(n, m),
           NEW t \in DOMAIN S(n).tails, NEW b \in Nat, b <= Wide(n) * m + Len(t)
    PROVE  /\ Most(n, b) \in Nat /\ Most(n, b) < Word
           /\ S(n).bias > 0 => Most(n, b) <= S(n).bias
           /\ b > 0 =>
                LET x == Accumulate(n, Most(n, b - 1), Peak(n))
                IN  /\ x < Word
                    /\ b \in S(n).reduced => S(n).mod - 1 <= Most(n, b)
                    /\ b \notin S(n).reduced => x <= Most(n, b)
<1> DEFINE all == Wide(n) * m + Len(t)
<1>1. Bounded(n) /\ Wide(n) \in Nat
  BY BoundAssumption
<1>2. m \in Nat /\ Len(t) \in Nat
  BY SchemeAssumption
<1>3. all \in Nat
  BY <1>1, <1>2
<1>4. /\ \A i \in 0 .. all :
          /\ Most(n, i) \in Nat /\ Most(n, i) < Word
          /\ S(n).bias > 0 => Most(n, i) <= S(n).bias
      /\ \A i \in 1 .. all :
          LET x == Accumulate(n, Most(n, i - 1), Peak(n))
          IN  /\ x < Word
              /\ Most(n, i) >= IF i \in S(n).reduced THEN S(n).mod - 1
                               ELSE x
  BY <1>1 DEF Bounded
<1> HIDE DEF all
<1>5. b \in 0 .. all /\ (b > 0 => b \in 1 .. all /\ b - 1 \in 0 .. all)
  BY <1>3 DEF all
<1>6. S(n).mod \in Nat
  BY SchemeAssumption
<1>7. Peak(n) \in Nat
  BY BoundAssumption
<1>8. b > 0 => Accumulate(n, Most(n, b - 1), Peak(n)) \in Nat
  BY <1>4, <1>5, <1>7, AccumulateRemainder
<1> QED BY <1>4, <1>5, <1>6, <1>8

(* Until the length is looked at it is one of those the pattern lets pass. *)
Matched ==
    /\ scheme \in Use /\ count \in Counts(scheme)
    /\ len \in {count + e : e \in S(scheme).extra[count]}

LEMMA MatchedInvariant == Spec => []Matched
<1>1. Init => Matched
  BY DEF Init, Matched
<1>2. Matched /\ [Next]_vars => Matched'
  <2> SUFFICES ASSUME Matched, [Next]_vars PROVE Matched'
    OBVIOUS
  <2>1. UNCHANGED <<scheme, count, len>>
    BY DEF Next, Enter, Foreign, Refuse, Read, Append00, CheckLength, Add,
           Compare, Returned, vars
  <2> QED BY <2>1 DEF Matched, S, Counts
<1> QED BY <1>1, <1>2, PTL DEF Spec

(* A character read is not more digits than it may be; the digits not yet  *)
(* added up are no greater than the greatest, nor is the sum.  What is     *)
(* refused at once has none.                                               *)
Room ==
    /\ bsz \in Nat
    /\ \/ pc \in {"enter", "done"} /\ bsz = 0 /\ pend = <<>> /\ sum = 0
       \/ pc # "enter" /\ Enters(scheme, count)
    /\ pc \in {"enter", "string"} =>
          bsz + Len(pend) <= Wide(scheme) * j
    /\ bsz + Len(pend) <= Wide(scheme) * count + Len(tail)
    /\ \A i \in DOMAIN pend : pend[i] <= Peak(scheme)
    /\ sum <= Most(scheme, bsz)

(* The types that the steps below rely on. *)
LEMMA Types ==
    ASSUME SumIsRemainder
    PROVE  /\ scheme \in Use /\ sum \in Nat /\ pend \in Seq(Nat)
           /\ tail \in DOMAIN S(scheme).tails /\ tail \in Seq(Nat)
           /\ count \in Counts(scheme) /\ count \in Nat
           /\ j \in Nat /\ j <= count
           /\ Wide(scheme) \in Nat /\ Peak(scheme) \in Nat
           /\ Len(pend) \in Nat /\ Len(tail) \in Nat
           /\ Wide(scheme) * j \in Nat /\ Wide(scheme) * count \in Nat
           /\ Wide(scheme) * j <= Wide(scheme) * count
<1>1. /\ scheme \in Use /\ sum \in Nat /\ pend \in Seq(Nat)
      /\ tail \in DOMAIN S(scheme).tails /\ count \in Counts(scheme)
      /\ j \in 0 .. count
  BY DEF SumIsRemainder
<1>2. tail \in Seq(Nat) /\ count \in Nat
  BY <1>1, SchemeAssumption
<1>3. Wide(scheme) \in Nat /\ Peak(scheme) \in Nat
  BY <1>1, BoundAssumption
<1>4. j \in Nat /\ j <= count
  BY <1>1, <1>2
<1> DEFINE W == Wide(scheme)
<1>5. W \in Nat
  BY <1>3
<1> HIDE DEF W
<1>6. W * j \in Nat /\ W * count \in Nat /\ W * j <= W * count
  BY <1>2, <1>4, <1>5, Times
<1> QED BY <1>1, <1>2, <1>3, <1>4, <1>6 DEF W

LEMMA InitRoom == Init => Room
<1> SUFFICES ASSUME Init PROVE Room
  OBVIOUS
<1>1. SumIsRemainder
  BY InitRemainder
<1>2. bsz = 0 /\ pend = <<>> /\ j = 0 /\ sum = 0
  BY DEF Init
<1>3. bsz + Len(pend) = 0
  BY <1>2
<1>4. Most(scheme, 0) \in Nat
  BY <1>1, Types, BoundAssumption
<1>5. 0 <= Wide(scheme) * j /\ 0 <= Wide(scheme) * count + Len(tail)
  BY <1>1, Types
<1>6. pc = "enter"
  BY DEF Init
<1> QED BY <1>2, <1>3, <1>4, <1>5, <1>6 DEF Room

LEMMA ReadRoom == SumIsRemainder /\ Room /\ Read => Room'
<1> SUFFICES ASSUME SumIsRemainder, Room, Read PROVE Room'
  OBVIOUS
<1> DEFINE W == Wide(scheme)
<1>1. /\ UNCHANGED <<scheme, pc, sum, tail, count, bsz>> /\ pc = "string"
      /\ j' = j + 1 /\ j < count /\ pend = <<>>
  BY DEF Read
<1>2. PICK c \in Typed(j + 1, DOMAIN S(scheme).val[j + 1]) :
         pend' = S(scheme).val[j + 1][c]
  BY DEF Read
<1>3. scheme \in Use /\ count \in 0 .. Len(S(scheme).val) /\ j \in Nat
  BY SchemeAssumption, Types DEF SumIsRemainder
<1>4. j + 1 \in 1 .. Len(S(scheme).val)
  BY <1>1, <1>3
<1>5. c \in DOMAIN S(scheme).val[j + 1]
  BY <1>2, <1>3, <1>4, SchemeAssumption
<1>6. pend' \in Seq(Nat) /\ Len(pend') <= Wide(scheme)
      /\ \A i \in DOMAIN pend' : pend'[i] <= Peak(scheme)
  BY <1>2, <1>3, <1>4, <1>5, SchemeAssumption, BoundAssumption
<1>7. bsz \in Nat /\ bsz <= W * j
  BY <1>1 DEF Room
<1>8. W \in Nat /\ W * j \in Nat /\ Len(pend') \in Nat /\ Len(pend') <= W
  BY <1>6, Types
<1> HIDE DEF W
<1>9. W * (j + 1) = W * j + W
  BY <1>3, <1>8
<1>10. bsz + Len(pend') <= W * (j + 1)
  BY <1>7, <1>8, <1>9
<1>11. W * (j + 1) <= W * count /\ W * (j + 1) \in Nat /\ W * count \in Nat
  BY <1>1, <1>3, <1>8, Times
<1>12. bsz + Len(pend') <= W * count + Len(tail)
  <2>1. Len(tail) \in Nat
    BY Types
  <2> DEFINE k == Len(tail)
             l == Len(pend')
             a == W * (j + 1)
             b == W * count
  <2>2. k \in Nat /\ l \in Nat /\ a \in Nat /\ b \in Nat /\ a <= b
        /\ bsz \in Nat /\ bsz + l <= a
    BY <1>7, <1>8, <1>10, <1>11, <2>1
  <2> HIDE DEF k, l, a, b
  <2>3. bsz + l <= b + k
    BY <2>2
  <2> QED BY <2>3 DEF k, l, b
<1>13. sum <= Most(scheme, bsz) /\ Enters(scheme, count)
  BY <1>1 DEF Room
<1> QED BY <1>1, <1>6, <1>7, <1>10, <1>12, <1>13
        DEF Room, W, Enters, S

LEMMA AppendRoom == SumIsRemainder /\ Room /\ Append00 => Room'
<1> SUFFICES ASSUME SumIsRemainder, Room, Append00 PROVE Room'
  OBVIOUS
<1>1. /\ UNCHANGED <<scheme, sum, tail, count, bsz, j>> /\ pc = "string"
      /\ pc' = "length" /\ pend' = tail /\ pend = <<>> /\ j = count
  BY DEF Append00
<1>2. bsz \in Nat /\ bsz <= Wide(scheme) * count
  BY <1>1 DEF Room
<1>3. bsz + Len(tail) <= Wide(scheme) * count + Len(tail)
  BY <1>2, Types
<1>4. \A i \in DOMAIN tail : tail[i] <= Peak(scheme)
  BY Types, BoundAssumption
<1>5. Enters(scheme, count) /\ sum <= Most(scheme, bsz)
  BY <1>1 DEF Room
<1> QED BY <1>1, <1>2, <1>3, <1>4, <1>5 DEF Room, Enters, S

(* One digit more, reduced or not, keeps the sum below its next bound. *)
LEMMA AddRoom == SumIsRemainder /\ Room /\ Add => Room'
<1> SUFFICES ASSUME SumIsRemainder, Room, Add PROVE Room'
  OBVIOUS
<1> DEFINE m == S(scheme).mod
           d == Head(pend)
           x == Accumulate(scheme, sum, d)
           y == Accumulate(scheme, Most(scheme, bsz), Peak(scheme))
<1>1. /\ UNCHANGED <<scheme, pc, tail, count, j>> /\ pend # <<>>
      /\ pend' = Tail(pend) /\ bsz' = bsz + 1
      /\ sum' = IF bsz' \in S(scheme).reduced THEN x % m ELSE x
  BY DEF Add
<1>2. /\ scheme \in Use /\ sum \in Nat /\ pend \in Seq(Nat)
      /\ Len(pend) \in Nat /\ bsz \in Nat
      /\ tail \in DOMAIN S(scheme).tails /\ count \in Counts(scheme)
      /\ Wide(scheme) * count \in Nat /\ Len(tail) \in Nat
      /\ Wide(scheme) * j \in Nat
  BY Types DEF Room
<1>3. /\ Len(pend) > 0 /\ Len(pend') = Len(pend) - 1 /\ d \in Nat
      /\ d = pend[1] /\ 1 \in DOMAIN pend
      /\ \A i \in DOMAIN pend' : i + 1 \in DOMAIN pend /\ pend'[i] = pend[i + 1]
  BY <1>1, <1>2
<1>4. bsz' + Len(pend') = bsz + Len(pend)
  BY <1>1, <1>2, <1>3
<1>5. d <= Peak(scheme) /\ \A i \in DOMAIN pend' : pend'[i] <= Peak(scheme)
  BY <1>3 DEF Room
<1>6. bsz + 1 <= Wide(scheme) * count + Len(tail)
  BY <1>2, <1>3 DEF Room
<1>7. Enters(scheme, count) /\ pc # "enter"
  BY <1>1 DEF Room
<1>8. /\ Most(scheme, bsz) \in Nat /\ Most(scheme, bsz + 1) \in Nat
      /\ bsz + 1 \in S(scheme).reduced => m - 1 <= Most(scheme, bsz + 1)
      /\ bsz + 1 \notin S(scheme).reduced => y <= Most(scheme, bsz + 1)
  <2>1. bsz + 1 \in Nat /\ bsz + 1 > 0 /\ (bsz + 1) - 1 = bsz
        /\ bsz <= Wide(scheme) * count + Len(tail)
    BY <1>2, <1>6
  <2> QED BY <1>2, <1>6, <1>7, <2>1, Bounds
<1>9. sum <= Most(scheme, bsz) /\ Peak(scheme) \in Nat
  BY Types DEF Room
<1>10. x <= y /\ x \in Nat /\ y \in Nat
  BY <1>2, <1>3, <1>5, <1>8, <1>9, AccumulateMonotone, AccumulateRemainder
<1>11. m \in Nat \ {0}
  BY <1>2, SchemeAssumption
<1> HIDE DEF m, d, x, y
<1>12. sum' <= Most(scheme, bsz + 1)
  <2>1. x % m <= m - 1 /\ x % m \in Nat
    BY <1>10, <1>11
  <2> QED BY <1>1, <1>8, <1>10, <1>11, <2>1
<1>13. bsz' \in Nat
  BY <1>1, <1>2
<1>14. /\ bsz' + Len(pend') <= Wide(scheme) * count + Len(tail)
      /\ pc \in {"enter", "string"} =>
            bsz' + Len(pend') <= Wide(scheme) * j
  BY <1>4 DEF Room
<1> QED BY <1>1, <1>5, <1>7, <1>12, <1>13, <1>14 DEF Room, Enters, S

LEMMA OtherRoom ==
    Matched /\ Room
      /\ (Enter \/ Foreign \/ CheckLength \/ Compare \/ UNCHANGED vars) => Room'
<1> SUFFICES ASSUME Matched, Room,
                    Enter \/ Foreign \/ CheckLength \/ Compare \/ UNCHANGED vars
             PROVE  Room'
  OBVIOUS
<1>1. UNCHANGED <<scheme, sum, pend, tail, count, j, bsz>>
  BY DEF Enter, Foreign, CheckLength, Compare, Refuse, vars
<1>2. pc' \in {"enter", "string"} => pc \in {"enter", "string"}
  BY DEF Enter, Foreign, CheckLength, Compare, Refuse, vars
<1>3. \/ pc' \in {"enter", "done"} /\ bsz = 0 /\ pend = <<>> /\ sum = 0
      \/ pc' # "enter" /\ Enters(scheme, count)
  <2>1. CASE Enter
    <3>1. CASE len \in S(scheme).lens
      <4>1. Enters(scheme, count) /\ pc' # "enter"
        BY <2>1, <3>1 DEF Matched, Enters, Enter, Refuse
      <4> QED BY <4>1
    <3>2. CASE len \notin S(scheme).lens
      <4>1. pc = "enter" /\ pc' = "done"
        BY <2>1, <3>2 DEF Enter, Refuse
      <4> QED BY <4>1 DEF Room
    <3> QED BY <3>1, <3>2
  <2>2. CASE Foreign \/ CheckLength \/ Compare
    BY <2>2 DEF Room, Foreign, CheckLength, Compare, Refuse
  <2>3. CASE UNCHANGED vars
    BY <2>3 DEF Room, vars
  <2> QED BY <2>1, <2>2, <2>3
<1> QED BY <1>1, <1>2, <1>3 DEF Room, Enters, S

LEMMA RoomInvariant == Spec => []Room
<1>1. Matched /\ SumIsRemainder /\ Room /\ [Next]_vars => Room'
  BY ReadRoom, AppendRoom, AddRoom, OtherRoom DEF Next, Returned
<1> QED BY InitRoom, <1>1, KeepsRemainder, MatchedInvariant, PTL DEF Spec

(* The loops of nmck_iban, nmck_credref and nmck_lei never expand a string *)
(* beyond the end of buf, whatever characters the recogniser and the first *)
(* test of the length let through, and whether the country's length fits   *)
(* or not, if there is room for the greatest number of digits of each      *)
(* length.                                                                 *)
THEOREM NoOverrun == Spec => []BufferFits
<1>1. SumIsRemainder /\ Room => BufferFits
  <2> SUFFICES ASSUME SumIsRemainder, Room, S(scheme).buf > 0
               PROVE  bsz + Len(pend) <= S(scheme).buf
    BY DEF BufferFits
  <2>1. Bounded(scheme) /\ S(scheme).buf \in Nat
    BY Types, BoundAssumption
  <2>2. CASE bsz = 0 /\ pend = <<>>
    BY <2>1, <2>2
  <2>3. CASE Enters(scheme, count)
    <3>1. Wide(scheme) * count + Len(tail) <= S(scheme).buf
      BY <2>1, <2>3, Types DEF Bounded
    <3>2. bsz + Len(pend) <= Wide(scheme) * count + Len(tail)
      BY DEF Room
    <3>3. bsz \in Nat /\ Len(pend) \in Nat /\ Wide(scheme) * count \in Nat
          /\ Len(tail) \in Nat
      BY Types DEF Room
    <3> QED BY <2>1, <3>1, <3>2, <3>3
  <2> QED BY <2>2, <2>3 DEF Room
<1> QED BY <1>1, KeepsRemainder, RoomInvariant, PTL

(* However long a number is, its sum stays within the word it is kept in,  *)
(* before each reduction too, and below the constant that it is subtracted *)
(* from in the end.                                                        *)
THEOREM NoOverflow == Spec => []SumFits
<1>1. SumIsRemainder /\ Room => SumFits
  <2> SUFFICES ASSUME SumIsRemainder, Room PROVE SumFits
    OBVIOUS
  <2>1. bsz \in Nat /\ sum \in Nat /\ scheme \in Use
        /\ Wide(scheme) * count + Len(tail) \in Nat /\ Len(pend) \in Nat
    <3>1. bsz \in Nat
      BY DEF Room
    <3>2. sum \in Nat /\ scheme \in Use /\ Len(pend) \in Nat
          /\ Wide(scheme) * count \in Nat /\ Len(tail) \in Nat
      BY Types
    <3> QED BY <3>1, <3>2
  <2>2. bsz + Len(pend) <= Wide(scheme) * count + Len(tail)
    BY DEF Room
  <2>3. CASE sum = 0 /\ pend = <<>>
    BY <2>3, <2>1, SchemeAssumption DEF SumFits, Word
  <2>4. SUFFICES ASSUME Enters(scheme, count) PROVE SumFits
    BY <2>3 DEF Room
  <2>5. bsz <= Wide(scheme) * count + Len(tail)
    BY <2>1, <2>2
  <2>6. /\ Most(scheme, bsz) \in Nat /\ Most(scheme, bsz) < Word
        /\ S(scheme).bias > 0 => Most(scheme, bsz) <= S(scheme).bias
    BY <2>1, <2>5, <2>4, Types, Bounds
  <2>7. sum <= Most(scheme, bsz) /\ S(scheme).bias \in Nat
    BY <2>1, SchemeAssumption DEF Room
  <2>8. sum < Word /\ (S(scheme).bias > 0 => sum <= S(scheme).bias)
    BY <2>1, <2>6, <2>7 DEF Word
  <2>9. ASSUME pend # <<>> PROVE Accumulate(scheme, sum, Head(pend)) < Word
    <3> DEFINE d == Head(pend)
               y == Accumulate(scheme, Most(scheme, bsz), Peak(scheme))
    <3>1. d \in Nat /\ d <= Peak(scheme) /\ Len(pend) > 0
      <4>1. pend \in Seq(Nat) /\ pend # <<>>
        BY <2>9, Types
      <4>2. Len(pend) > 0 /\ 1 \in DOMAIN pend /\ d = pend[1] /\ d \in Nat
        BY <4>1
      <4>3. pend[1] <= Peak(scheme)
        BY <4>2 DEF Room
      <4> QED
        BY <4>2, <4>3
    <3>2. bsz + 1 \in Nat /\ bsz + 1 > 0 /\ (bsz + 1) - 1 = bsz
          /\ bsz + 1 <= Wide(scheme) * count + Len(tail)
      BY <2>1, <2>2, <3>1
    <3>3. y < Word
      BY <2>1, <2>4, <3>2, Types, Bounds
    <3> HIDE DEF d
    <3>4. Accumulate(scheme, sum, d) <= y /\ y \in Nat
          /\ Accumulate(scheme, sum, d) \in Nat
      BY <2>1, <2>6, <2>7, <3>1, Types, AccumulateMonotone,
         AccumulateRemainder
    <3> HIDE DEF y
    <3> QED BY <3>3, <3>4 DEF Word, d
  <2> QED BY <2>8, <2>9 DEF SumFits
<1> QED BY <1>1, KeepsRemainder, RoomInvariant, PTL

-----------------------------------------------------------------------------
(* Types and lengths *)

(* What goes round the digits: where the checker is and what it returns. *)
Answered ==
    /\ pc \in {"enter", "string", "length", "tail", "done"}
    /\ ret.neg \in BOOLEAN /\ ret.wrong \in BOOLEAN

LEMMA NextAnswered == Answered /\ [Next]_vars => Answered'
<1> SUFFICES ASSUME Answered, [Next]_vars PROVE Answered'
  OBVIOUS
<1>1. CASE Refuse
  BY <1>1 DEF Answered, Refuse, Refusal
<1>2. CASE Compare
  <2>1. PICK c, w : w \in BOOLEAN
                    /\ ret' = [neg |-> FALSE, chars |-> c, wrong |-> w]
    BY <1>2 DEF Compare
  <2> QED BY <1>2, <2>1 DEF Answered, Compare
<1>3. CASE ret' = ret /\ pc' \in {pc, "string", "length", "tail"}
  BY <1>3 DEF Answered
<1> QED BY <1>1, <1>2, <1>3 DEF Next, Enter, Foreign, Read, Append00,
                                CheckLength, Add, Returned, vars

(* The types of all that a checker keeps; it never reads on past the       *)
(* characters there are.                                                   *)
THEOREM TypesOfRemainders == Spec => []TypeOK
<1>1. Init => Answered
  BY DEF Init, Answered, Running
<1>2. ASSUME SumIsRemainder, Room, Answered PROVE TypeOK
  <2>1. ref \in Nat
    <3> DEFINE m == S(scheme).mod
    <3>1. m \in Nat \ {0} /\ sum \in Nat /\ ref = sum % m
      BY <1>2, SchemeAssumption DEF SumIsRemainder
    <3> HIDE DEF m
    <3> QED BY <3>1
  <2> QED BY <1>2, <2>1 DEF TypeOK, SumIsRemainder, Room, Answered
<1> QED BY <1>1, <1>2, NextAnswered, KeepsRemainder, RoomInvariant, PTL
        DEF Spec

(* No checker turns a string down at once that its pattern lets pass and   *)
(* whose country is listed, the longest ones of the misfits apart.         *)
THEOREM LengthsFit == Spec => LengthsAgree
<1> DEFINE Reason == \/ S(scheme).tails[tail] = {}
                     \/ scheme \in Misfit /\ \A l \in S(scheme).lens : len > l
<1>1. Matched /\ [Next]_vars => (pc = "enter" /\ pc' = "done" => Reason)
  <2> SUFFICES ASSUME Matched, [Next]_vars, pc = "enter", pc' = "done"
               PROVE  Reason
    OBVIOUS
  <2>1. \/ len \in S(scheme).lens
        \/ scheme \in Misfit /\ \A l \in S(scheme).lens : len > l
    BY LengthAssumption DEF Matched
  <2>2. Enter
    BY DEF Next, Foreign, Read, Append00, CheckLength, Add, Compare, Returned,
           vars
  <2> QED BY <2>1, <2>2 DEF Enter
<1>2. Matched /\ [Next]_vars =>
        [pc = "enter" /\ pc' = "done" => Reason]_vars
  BY <1>1
<1> QED BY <1>2, MatchedInvariant, PTL DEF Spec, LengthsAgree
=============================================================================
