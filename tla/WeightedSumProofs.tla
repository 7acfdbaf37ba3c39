------------------------- MODULE WeightedSumProofs -------------------------
(***************************************************************************)
(* A weighted sum shows a slip if its weights tell the two characters, or  *)
(* the two orders, apart modulo the modulus; whatever the other characters *)
(* are, and for every scheme with the properties assumed.  And a string is *)
(* conformant just if its documented sum is right, for every scheme whose  *)
(* weights and answers are the documented ones, place by place and residue *)
(* by residue.  TLC evaluates the assumptions on the schemes of the        *)
(* sources (MCSums).  SumsStayApart and SlipDetection do without           *)
(* StandardAssumption.                                                     *)
(***************************************************************************)
EXTENDS WeightedStandard, TLAPS

-----------------------------------------------------------------------------
(* Residues. *)

(* A multiple leaves no rest. *)
LEMMA Multiple ==
    ASSUME NEW m \in Nat \ {0}, NEW q \in Int
    PROVE  (m * q) % m = 0
OBVIOUS

(* Numbers with the same rest differ by a multiple. *)
LEMMA SameRest ==
    ASSUME NEW m \in Nat \ {0}, NEW a \in Int, NEW b \in Int, a % m = b % m
    PROVE  (a - b) % m = 0
<1> DEFINE q == a \div m
           r == b \div m
<1>1. q \in Int /\ r \in Int
  OBVIOUS
<1>2. a = (m * q) + (a % m) /\ b = (m * r) + (b % m)
  OBVIOUS
<1>3. a % m \in Int
  OBVIOUS
<1>4. a - b = (m * q) - (m * r)
  BY <1>1, <1>2, <1>3
<1>5. (m * q) - (m * r) = m * (q - r)
  BY <1>1
<1>6. (m * (q - r)) % m = 0
  BY <1>1, Multiple
<1> QED BY <1>4, <1>5, <1>6

(* What leaves no rest is a multiple. *)
LEMMA NoRest ==
    ASSUME NEW m \in Nat \ {0}, NEW a \in Int, a % m = 0
    PROVE  a \div m \in Int /\ a = m * (a \div m)
OBVIOUS

(* Multiples add up to multiples. *)
LEMMA RestOfSum ==
    ASSUME NEW m \in Nat \ {0}, NEW a \in Int, NEW b \in Int,
           a % m = 0, b % m = 0
    PROVE  (a + b) % m = 0 /\ (a - b) % m = 0
<1> DEFINE q == a \div m
           r == b \div m
<1>1. q \in Int /\ r \in Int /\ a = m * q /\ b = m * r
  BY NoRest
<1>2. a + b = m * (q + r) /\ a - b = m * (q - r)
  BY <1>1
<1>3. q + r \in Int /\ q - r \in Int
  BY <1>1
<1> QED BY <1>2, <1>3, Multiple

(* A number less its rest is a multiple. *)
LEMMA LessRest ==
    ASSUME NEW m \in Nat \ {0}, NEW a \in Int
    PROVE  (a - (a % m)) % m = 0
<1>1. a \div m \in Int /\ a - (a % m) = m * (a \div m)
  OBVIOUS
<1> QED BY <1>1, Multiple

(* Between -m and m only zero is a multiple of m. *)
LEMMA Small ==
    ASSUME NEW m \in Nat \ {0}, NEW d \in Int, -m < d, d < m, d % m = 0
    PROVE  d = 0
<1>1. CASE d >= 0
  <2>1. d % m = d
    BY <1>1
  <2> QED BY <2>1
<1>2. CASE d < 0
  <2>1. d % m = d + m
    BY <1>2
  <2> QED BY <2>1
<1> QED BY <1>1, <1>2

(* Numbers that differ by a multiple have the same rest. *)
LEMMA SameResidue ==
    ASSUME NEW m \in Nat \ {0}, NEW a \in Int, NEW b \in Int,
           (a - b) % m = 0
    PROVE  a % m = b % m
<1> DEFINE u == a % m
           v == b % m
           d == u - v
<1>1. u \in 0 .. m - 1 /\ v \in 0 .. m - 1
  OBVIOUS
<1>2. (a - u) % m = 0 /\ (b - v) % m = 0
  BY LessRest
<1> HIDE DEF u, v
<1> DEFINE e == a - b
           g == a - u
           h == b - v
           k == e - g
<1>3. e \in Int /\ g \in Int /\ h \in Int /\ k \in Int
  BY <1>1
<1>4. e % m = 0 /\ g % m = 0 /\ h % m = 0
  BY <1>2
<1>5. k + h = u - v
  BY <1>1
<1> HIDE DEF e, g, h
<1>6. k % m = 0
  BY <1>3, <1>4, RestOfSum
<1> HIDE DEF k
<1>7. (k + h) % m = 0
  BY <1>3, <1>4, <1>6, RestOfSum
<1>8. u - v = 0
  BY <1>1, <1>5, <1>7, Small
<1> QED BY <1>1, <1>8 DEF u, v

(* Sums that differ have different residues, complemented or not. *)
LEMMA Residues ==
    ASSUME NEW n \in Use, NEW a \in Int, NEW b \in Int, Differs(n, a, b)
    PROVE  /\ Residue(n, a) # Residue(n, b)
           /\ Residue(n, a) \in 0 .. S(n).mod - 1
           /\ Residue(n, b) \in 0 .. S(n).mod - 1
<1> DEFINE m == S(n).mod
           B == S(n).bias
<1>1. m \in Nat \ {0} /\ B \in Nat
  BY SchemeAssumption
<1> HIDE DEF m, B
<1>2. (a - b) % m # 0
  BY DEF Differs, m
<1>3. CASE B = 0
  <2>1. Residue(n, a) = a % m /\ Residue(n, b) = b % m
    BY <1>3 DEF Residue, m, B
  <2>2. a % m # b % m
    BY <1>1, <1>2, SameRest
  <2>3. a % m \in 0 .. m - 1 /\ b % m \in 0 .. m - 1
    BY <1>1
  <2> QED BY <2>1, <2>2, <2>3 DEF m
<1>4. CASE B # 0
  <2>1. Residue(n, a) = (B - a) % m /\ Residue(n, b) = (B - b) % m
    BY <1>4 DEF Residue, m, B
  <2>2. B - a \in Int /\ B - b \in Int /\ (B - b) - (B - a) = a - b
    BY <1>1
  <2>3. (B - a) % m # (B - b) % m
    <3> SUFFICES ASSUME (B - b) % m = (B - a) % m PROVE FALSE
      OBVIOUS
    <3>1. ((B - b) - (B - a)) % m = 0
      BY <1>1, <2>2, SameRest
    <3> QED BY <3>1, <2>2, <1>2
  <2>4. (B - a) % m \in 0 .. m - 1 /\ (B - b) % m \in 0 .. m - 1
    BY <1>1, <2>2
  <2> QED BY <2>1, <2>3, <2>4 DEF m
<1> QED BY <1>3, <1>4

(* A character adds a natural number. *)
LEMMA AddsType ==
    ASSUME NEW n \in Use, NEW q \in Places(n), NEW c \in Accepted(n, q)
    PROVE  Adds(n, q, c) \in Nat
<1> DEFINE x == S(n).w[q] * S(n).val[q][c]
<1>1. S(n).w[q] \in Nat /\ S(n).val[q][c] \in Nat
  BY SchemeAssumption
<1>2. x \in Nat
  BY <1>1
<1>3. S(n).style \in {"linear", "carry", "digits"}
  BY SchemeAssumption
<1> HIDE DEF x
<1>4. Adds(n, q, c) = CASE S(n).style = "linear" -> x
          [] S(n).style = "carry" -> x + (IF x >= 10 THEN 1 ELSE 0)
          [] S(n).style = "digits" -> (x \div 10) + (x % 10)
  BY DEF Adds, x
<1>5. CASE S(n).style = "linear"
  BY <1>2, <1>4, <1>5
<1>6. CASE S(n).style = "carry"
  BY <1>2, <1>4, <1>6
<1>7. CASE S(n).style = "digits"
  BY <1>2, <1>4, <1>7
<1> QED BY <1>3, <1>5, <1>6, <1>7

-----------------------------------------------------------------------------
(* The invariant. *)

(* Both calls start from the same sum. *)
LEMMA InitSumsApart == Init => SumsApart
<1> SUFFICES ASSUME Init PROVE SumsApart
  OBVIOUS
<1>1. S(scheme).start \in Int
  BY SchemeAssumption DEF Init
<1> QED BY <1>1 DEF Init, SumsApart, Call

(* Refusals and length tests leave the sums alone. *)
LEMMA OtherSumsApart ==
    SumsApart /\ (Enter \/ Foreign \/ UNCHANGED vars) => SumsApart'
<1> SUFFICES ASSUME SumsApart, Enter \/ Foreign \/ UNCHANGED vars
             PROVE  SumsApart'
  OBVIOUS
<1>1. UNCHANGED <<scheme, p, sum, slip, due>> /\ (pc' = pc \/ pc' \in {"loop", "done"})
  BY DEF Enter, Foreign, Refuse, vars
<1>2. pc' # "done" => pc # "done"
  BY DEF Enter, Foreign, Refuse, vars, SumsApart
<1> QED BY <1>1, <1>2 DEF SumsApart, S, Places, Accepted, Adds, Differs

(* The next pair of characters keeps the sums as they are to each other,   *)
(* or is the slip.                                                         *)
LEMMA ReadSumsApart == SumsApart /\ Read => SumsApart'
<1> SUFFICES ASSUME SumsApart, Read PROVE SumsApart'
  OBVIOUS
<1> DEFINE A == Accepted(scheme, p)
           W == sum["written"]
           T == sum["typed"]
<1>1. PICK w \in A : \E t \in (IF slip = "never" THEN {w} ELSE A) :
        /\ Types(w, t)
        /\ sum' = [x \in Call |-> sum[x] + Adds(scheme, p, Chars(w, t)[x])]
  BY DEF Read
<1>2. PICK t \in (IF slip = "never" THEN {w} ELSE A) :
        /\ Types(w, t)
        /\ sum' = [x \in Call |-> sum[x] + Adds(scheme, p, Chars(w, t)[x])]
  BY <1>1
<1> DEFINE a == Adds(scheme, p, w)
           b == Adds(scheme, p, t)
<1>3. w \in A /\ t \in A
  OBVIOUS
<1>4. /\ scheme \in Use /\ p \in Nat /\ p \in Places(scheme) /\ pc = "loop"
      /\ p' = p + 1 /\ UNCHANGED <<scheme, pc>>
      /\ W \in Int /\ T \in Int
  BY DEF Read, SumsApart, Call
<1>5. a \in Int /\ b \in Int
  BY <1>3, <1>4, AddsType
<1>6. sum'["written"] = W + a /\ sum'["typed"] = T + b /\ sum' \in [Call -> Int]
  BY <1>2, <1>4, <1>5 DEF Call, Chars, SumsApart
<1>7. CASE slip # "half" /\ w = t /\ UNCHANGED <<slip, due>>
  <2>1. (W + a) - (T + a) = W - T
    BY <1>4, <1>5
  <2>2. slip \in {"never", "none"} => W + a = T + b
    BY <1>4, <1>5, <1>7 DEF SumsApart
  <2>3. slip = "full" => Differs(scheme, W + a, T + b)
    BY <2>1, <1>4, <1>7 DEF SumsApart, Differs
  <2> QED BY <1>4, <1>6, <1>7, <2>2, <2>3 DEF SumsApart, Differs, S
<1>8. CASE /\ slip = "none" /\ "wrong" \in S(scheme).catches
           /\ w # t /\ slip' = "full"
  <2>1. W = T
    BY <1>4, <1>8 DEF SumsApart
  <2>2. Differs(scheme, a, b)
    BY <1>3, <1>4, <1>8, Separation DEF Separates
  <2>3. (W + a) - (T + b) = a - b
    BY <2>1, <1>4, <1>5
  <2>4. Differs(scheme, W + a, T + b)
    BY <2>2, <2>3 DEF Differs
  <2> QED BY <1>4, <1>6, <1>8, <2>4 DEF SumsApart, Differs, S
<1>9. CASE /\ slip = "none" /\ "swap" \in S(scheme).catches
           /\ p + 1 \in Places(scheme)
           /\ w \in Accepted(scheme, p + 1) /\ t \in Accepted(scheme, p + 1)
           /\ w # t /\ {w, t} \notin S(scheme).blind
           /\ slip' = "half" /\ due' = <<t, w>>
  <2>1. W = T
    BY <1>4, <1>9 DEF SumsApart
  <2>2. (W + a) - (T + b) = a - b
    BY <2>1, <1>4, <1>5
  <2>3. p' - 1 = p
    BY <1>4
  <2>4. due'[1] = t /\ due'[2] = w
    BY <1>9
  <2>5. \A k \in {1, 2} :
            due'[k] \in Accepted(scheme, p) \cap Accepted(scheme, p + 1)
    BY <1>3, <1>9, <2>4
  <2>6. due'[1] # due'[2] /\ {due'[2], due'[1]} \notin S(scheme).blind
    BY <1>9, <2>4
  <2>7. sum'["written"] - sum'["typed"]
          = Adds(scheme, p, due'[2]) - Adds(scheme, p, due'[1])
    BY <1>6, <2>2, <2>4
  <2>8. /\ scheme' = scheme /\ p' = p + 1 /\ p' \in Nat /\ pc' = "loop"
        /\ slip' = "half" /\ scheme \in Use /\ sum' \in [Call -> Int]
    BY <1>4, <1>6, <1>9
  <2>9. /\ "swap" \in S(scheme).catches
        /\ p' \in Places(scheme) /\ p \in Places(scheme)
    BY <1>4, <1>9
  <2>10. (/\ p' \in Places(scheme) /\ p' - 1 \in Places(scheme)
          /\ \A k \in {1, 2} :
              due'[k] \in Accepted(scheme, p' - 1) \cap Accepted(scheme, p')
          /\ sum'["written"] - sum'["typed"]
              = Adds(scheme, p' - 1, due'[2]) - Adds(scheme, p' - 1, due'[1]))
    BY <2>3, <2>5, <2>7, <2>8, <2>9
  <2> HIDE DEF A, W, T, a, b
  <2> QED
    BY <1>9, <2>6, <2>8, <2>9, <2>10 DEF SumsApart, S, Places, Accepted, Adds
<1>10. CASE slip = "half" /\ due = <<w, t>> /\ slip' = "full"
  <2> DEFINE q == p - 1
             c == Adds(scheme, q, t)
             d == Adds(scheme, q, w)
  <2>1. /\ "swap" \in S(scheme).catches
        /\ q \in Places(scheme) /\ q + 1 = p
        /\ w \in Accepted(scheme, q) /\ t \in Accepted(scheme, q)
        /\ w # t /\ {t, w} \notin S(scheme).blind
        /\ W - T = c - d
    BY <1>4, <1>10 DEF SumsApart
  <2>2. c \in Int /\ d \in Int
    BY <1>4, <2>1, AddsType
  <2>3. Differs(scheme, c + a, d + b)
    BY <1>3, <1>4, <2>1, Separation DEF Separates
  <2>4. (W + a) - (T + b) = (c + a) - (d + b)
    BY <1>4, <1>5, <2>1, <2>2
  <2>5. Differs(scheme, W + a, T + b)
    BY <2>3, <2>4 DEF Differs
  <2>6. S(scheme).catches # {}
    BY <2>1
  <2> QED BY <1>4, <1>6, <1>10, <2>1, <2>5, <2>6 DEF SumsApart, Differs, S
<1> QED BY <1>2, <1>7, <1>8, <1>9, <1>10 DEF Types

(* The check character is the end of it. *)
LEMMA CompareSumsApart == SumsApart /\ Compare => SumsApart'
  BY DEF SumsApart, Compare

-----------------------------------------------------------------------------
(* The check characters of sums that differ are not both equal to the one  *)
(* typed.                                                                  *)
LEMMA CompareCaught ==
    SumsApart /\ Compare => SlipCaught'
<1> SUFFICES ASSUME SumsApart, Compare, slip' \in {"half", "full"},
                    \A x \in Call : Conformant(x)'
             PROVE  FALSE
  BY DEF SlipCaught
<1> DEFINE E(x) == Expected(scheme, sum[x])
<1>1. PICK w, t \in S(scheme).check \cup {Placeholder} :
        /\ w # t => slip = "none"
        /\ slip' = IF w # t THEN "full" ELSE slip
        /\ ret' = [x \in Call |->
              LET c == Expected(scheme, sum[x])
              IN  IF c = Refused THEN Refusal
                  ELSE Verdict(FALSE, c, c # Chars(w, t)[x])]
  BY DEF Compare
<1>2. \A x \in Call : E(x) # Refused /\ E(x) = Chars(w, t)[x]
  BY <1>1 DEF Conformant, Refusal, Verdict
<1>3. E("written") = w /\ E("typed") = t /\ w # Refused
  BY <1>2 DEF Call, Chars
<1>4. /\ scheme \in Use /\ pc = "loop" /\ p \notin Places(scheme)
      /\ sum["written"] \in Int /\ sum["typed"] \in Int
  BY SchemeAssumption DEF Compare, SumsApart, Call
<1>5. CASE w # t
  <2>1. sum["written"] = sum["typed"]
    BY <1>1, <1>4, <1>5 DEF SumsApart
  <2> QED BY <2>1, <1>3, <1>5
<1>6. CASE w = t
  <2>1. slip = "full"
    BY <1>1, <1>4, <1>6 DEF SumsApart
  <2>2. /\ S(scheme).catches # {}
        /\ Differs(scheme, sum["written"], sum["typed"])
    BY <1>4, <2>1 DEF SumsApart
  <2> DEFINE r == Residue(scheme, sum["written"])
             s == Residue(scheme, sum["typed"])
  <2>3. r # s /\ r \in 0 .. S(scheme).mod - 1 /\ s \in 0 .. S(scheme).mod - 1
    BY <1>4, <2>2, Residues
  <2>4. S(scheme).glyph[r] = S(scheme).glyph[s] /\ S(scheme).glyph[r] # Refused
    BY <1>3, <1>6 DEF Expected
  <2> QED BY <1>4, <2>2, <2>3, <2>4, Separation DEF Separates
<1> QED BY <1>5, <1>6

(* Nothing but the comparison makes a string conformant. *)
LEMMA OtherCaught ==
    SlipCaught /\ (Enter \/ Foreign \/ Read \/ UNCHANGED vars) => SlipCaught'
<1> SUFFICES ASSUME SlipCaught, Enter \/ Foreign \/ Read \/ UNCHANGED vars
             PROVE  SlipCaught'
  OBVIOUS
<1>1. CASE Read
  BY <1>1 DEF Read, SlipCaught, Conformant, Call
<1>2. CASE Enter \/ Foreign
  BY <1>2 DEF Enter, Foreign, Refuse, SlipCaught, Conformant, Call, Refusal, Verdict
<1>3. CASE UNCHANGED vars
  BY <1>3 DEF vars, SlipCaught, Conformant
<1> QED BY <1>1, <1>2, <1>3

-----------------------------------------------------------------------------
(* The sums of nmck_nhs, nmck_gtin, ... keep apart from the slip on.       *)
THEOREM SumsStayApart == Spec => []SumsApart
<1>1. Init => SumsApart
  BY InitSumsApart
<1>2. SumsApart /\ [Next]_vars => SumsApart'
  BY OtherSumsApart, ReadSumsApart, CompareSumsApart DEF Next, Returned
<1> QED BY <1>1, <1>2, PTL DEF Spec

(* A number as issued and the same number after one slip its scheme is     *)
(* made to detect are not both found conformant, whatever the rest of the  *)
(* number is and wherever the slip happens.                                *)
THEOREM SlipDetection == Spec => []SlipCaught
<1>1. Init => SlipCaught
  BY DEF Init, SlipCaught
<1>2. SumsApart /\ SlipCaught /\ [Next]_vars => SlipCaught'
  BY OtherCaught, CompareCaught DEF Next, Returned
<1> QED BY <1>1, <1>2, SumsStayApart, PTL DEF Spec

-----------------------------------------------------------------------------
(* The sum and the documented one. *)

(* What StandardAssumption says of a scheme's numbers. *)
LEMMA Standard ==
    ASSUME NEW n \in Use
    PROVE  /\ S(n).mod \in Nat \ {0} /\ S(n).base = S(n).mod
           /\ Sign(n) \in {1, -1} /\ Parallel(n, Sign(n))
           /\ S(n).start \in Nat
           /\ \A r \in 0 .. S(n).mod - 1 : Answers(n, r)
           /\ S(n).check \subseteq Nat
           /\ Places(n) = 1 .. Len(S(n).val) /\ Len(S(n).val) \in Nat
  BY SchemeAssumption, StandardAssumption DEF Sign, Signs

(* One character more leaves the sums congruent. *)
LEMMA CharacterCongruent ==
    ASSUME NEW n \in Use, NEW q \in Places(n), NEW c \in Accepted(n, q),
           NEW a \in Nat, NEW s \in 0 .. S(n).mod - 1,
           Congruent(n, a, S(n).start + Sign(n) * s)
    PROVE  LET t == (s + Counts(n, q, Value(n, q, c))) % S(n).base
           IN  /\ Congruent(n, a + Adds(n, q, c), S(n).start + Sign(n) * t)
               /\ t \in 0 .. S(n).mod - 1
<1> DEFINE m == S(n).mod
           f == Sign(n)
           b == S(n).start
           A == Adds(n, q, c)
           C == Counts(n, q, Value(n, q, c))
           t == (s + C) % m
<1>1. m \in Nat \ {0} /\ S(n).base = m /\ f \in {1, -1} /\ b \in Nat
  BY Standard
<1>2. A \in Nat /\ C \in Int
  BY AddsType, StandardAssumption
<1>3. (a - (b + f * s)) % m = 0
  BY DEF Congruent
<1>4. (A - f * C) % m = 0
  BY Standard DEF Parallel, Congruent
<1> HIDE DEF m, f, b, A, C
<1>5. t \in 0 .. m - 1 /\ ((s + C) - t) % m = 0
  <2> DEFINE z == s + C
  <2>1. z \in Int
    BY <1>1, <1>2 DEF m
  <2> HIDE DEF z
  <2>2. z % m \in 0 .. m - 1 /\ (z - (z % m)) % m = 0
    BY <1>1, <2>1, LessRest
  <2> QED BY <2>2 DEF z
<1>6. s \in Int /\ t \in Int
  BY <1>1, <1>5 DEF m
<1> HIDE DEF t
<1>7. ASSUME f = 1
      PROVE  ((a + A) - (b + f * t)) % m = 0
  <2> DEFINE u == a - (b + s)
             v == A - C
             w == (s + C) - t
             x == u + v
  <2>1. u \in Int /\ v \in Int /\ w \in Int /\ x \in Int
    BY <1>1, <1>2, <1>6
  <2>2. u % m = 0 /\ v % m = 0 /\ w % m = 0
    BY <1>1, <1>2, <1>3, <1>4, <1>5, <1>6, <1>7
  <2>3. x + w = (a + A) - (b + f * t)
    BY <1>1, <1>2, <1>6, <1>7
  <2> HIDE DEF u, v, w
  <2>4. x % m = 0
    BY <1>1, <2>1, <2>2, RestOfSum
  <2> HIDE DEF x
  <2>5. (x + w) % m = 0
    BY <1>1, <2>1, <2>2, <2>4, RestOfSum
  <2> QED BY <2>3, <2>5
<1>8. ASSUME f = -1
      PROVE  ((a + A) - (b + f * t)) % m = 0
  <2> DEFINE u == a - (b - s)
             v == A + C
             w == (s + C) - t
             x == u + v
  <2>1. u \in Int /\ v \in Int /\ w \in Int /\ x \in Int
    BY <1>1, <1>2, <1>6
  <2>2. u % m = 0 /\ v % m = 0 /\ w % m = 0
    BY <1>1, <1>2, <1>3, <1>4, <1>5, <1>6, <1>8
  <2>3. x - w = (a + A) - (b + f * t)
    BY <1>1, <1>2, <1>6, <1>8
  <2> HIDE DEF u, v, w
  <2>4. x % m = 0
    BY <1>1, <2>1, <2>2, RestOfSum
  <2> HIDE DEF x
  <2>5. (x - w) % m = 0
    BY <1>1, <2>1, <2>2, <2>4, RestOfSum
  <2> QED BY <2>3, <2>5
<1>9. ((a + A) - (b + f * t)) % m = 0
  BY <1>1, <1>7, <1>8
<1> QED BY <1>1, <1>5, <1>9 DEF Congruent, m, f, b, A, C, t

(* Congruent sums have the same check character. *)
LEMMA SameAnswer ==
    ASSUME NEW n \in Use, NEW a \in Int, NEW b \in Int, Congruent(n, a, b)
    PROVE  Expected(n, a) = Expected(n, b)
<1> DEFINE m == S(n).mod
           B == S(n).bias
<1>1. m \in Nat \ {0} /\ B \in Nat
  BY SchemeAssumption
<1>2. (a - b) % m = 0
  BY DEF Congruent
<1> HIDE DEF m, B
<1>3. a % m = b % m
  BY <1>1, <1>2, SameResidue
<1>4. (B - a) % m = (B - b) % m
  <2> DEFINE u == B - b
             v == B - a
  <2>1. u \in Int /\ v \in Int /\ u - v = a - b
    BY <1>1
  <2> HIDE DEF u, v
  <2>2. u % m = v % m
    BY <1>1, <1>2, <2>1, SameResidue
  <2> QED BY <2>2 DEF u, v
<1> QED BY <1>3, <1>4 DEF Expected, Residue, m, B

(* What a step of the loop does to the sums of one call. *)
LEMMA ReadCall ==
    ASSUME Read, NEW x \in Call
    PROVE  \E c \in Accepted(scheme, p) :
              /\ sum'[x] = sum[x] + Adds(scheme, p, c)
              /\ std'[x] = (std[x] + Counts(scheme, p, Value(scheme, p, c)))
                              % S(scheme).base
<1>1. PICK w \in Accepted(scheme, p) :
      \E t \in IF slip = "never" THEN {w} ELSE Accepted(scheme, p) :
        /\ sum' = [y \in Call |-> sum[y] + Adds(scheme, p, Chars(w, t)[y])]
        /\ std' = [y \in Call |->
              (std[y] + Counts(scheme, p, Value(scheme, p, Chars(w, t)[y])))
                  % S(scheme).base]
  BY DEF Read, Observes
<1>2. PICK t \in IF slip = "never" THEN {w} ELSE Accepted(scheme, p) :
        /\ sum' = [y \in Call |-> sum[y] + Adds(scheme, p, Chars(w, t)[y])]
        /\ std' = [y \in Call |->
              (std[y] + Counts(scheme, p, Value(scheme, p, Chars(w, t)[y])))
                  % S(scheme).base]
  BY <1>1
<1>3. Chars(w, t)[x] \in Accepted(scheme, p)
  BY DEF Chars
<1> QED BY <1>2, <1>3

LEMMA ReadInStep == InStep /\ Read => InStep'
<1> SUFFICES ASSUME InStep, Read PROVE InStep'
  OBVIOUS
<1>1. /\ scheme' = scheme /\ scheme \in Use /\ p \in Places(scheme)
      /\ p' = p + 1 /\ p' \in 1 .. Len(S(scheme).val) + 1 /\ p \in Nat
      /\ pc # "done" /\ pc' # "done" /\ last' = last
  BY Standard DEF InStep, Read
<1>2. sum' = [x \in Call |-> sum'[x]] /\ std' = [x \in Call |-> std'[x]]
  BY DEF Read, Observes
<1>3. ASSUME NEW x \in Call
      PROVE  /\ sum'[x] \in Nat /\ std'[x] \in 0 .. S(scheme).mod - 1
             /\ Congruent(scheme, sum'[x],
                          S(scheme).start + Sign(scheme) * std'[x])
             /\ sum'[x] <= Most(scheme, p + 1)
  <2>1. PICK c \in Accepted(scheme, p) :
          /\ sum'[x] = sum[x] + Adds(scheme, p, c)
          /\ std'[x] = (std[x] + Counts(scheme, p, Value(scheme, p, c)))
                          % S(scheme).base
    BY ReadCall
  <2>2. /\ sum[x] \in Nat /\ std[x] \in 0 .. S(scheme).mod - 1
        /\ Congruent(scheme, sum[x],
                     S(scheme).start + Sign(scheme) * std[x])
        /\ sum[x] <= Most(scheme, p)
    BY DEF InStep
  <2>3. Adds(scheme, p, c) \in Nat
    BY <1>1, AddsType
  <2>4. /\ Most(scheme, p) \in Nat /\ Most(scheme, p + 1) \in Nat
        /\ Most(scheme, p) + Adds(scheme, p, c) <= Most(scheme, p + 1)
    BY <1>1, StandardAssumption DEF Bounded, InStep
  <2>5. sum'[x] \in Nat /\ sum'[x] <= Most(scheme, p + 1)
    BY <2>1, <2>2, <2>3, <2>4
  <2> QED BY <1>1, <2>1, <2>2, <2>5, CharacterCongruent
<1>4. sum' \in [Call -> Nat] /\ std' \in [Call -> 0 .. S(scheme).mod - 1]
  BY <1>2, <1>3
<1> QED BY <1>1, <1>3, <1>4 DEF InStep, Congruent, S, Sign, Signs

LEMMA InitInStep == Init => InStep
<1> SUFFICES ASSUME Init PROVE InStep
  OBVIOUS
<1>1. scheme \in Use /\ p = 1 /\ pc = "enter"
  BY DEF Init
<1>2. /\ S(scheme).mod \in Nat \ {0} /\ S(scheme).start \in Nat
      /\ Sign(scheme) \in {1, -1} /\ Len(S(scheme).val) \in Nat
  BY <1>1, Standard
<1>3. S(scheme).start <= Most(scheme, 1)
  BY <1>1, StandardAssumption DEF Bounded
<1>4. S(scheme).start - (S(scheme).start + Sign(scheme) * 0) = 0
  BY <1>2
<1>5. Congruent(scheme, S(scheme).start, S(scheme).start + Sign(scheme) * 0)
  BY <1>2, <1>4 DEF Congruent
<1> QED BY <1>1, <1>2, <1>3, <1>5 DEF Init, InStep, Call

LEMMA OtherInStep ==
    InStep /\ (Enter \/ Foreign \/ Compare \/ UNCHANGED vars) => InStep'
<1> SUFFICES ASSUME InStep, Enter \/ Foreign \/ Compare \/ UNCHANGED vars
             PROVE  InStep'
  OBVIOUS
<1>1. UNCHANGED <<scheme, p, sum, std>>
  BY DEF Enter, Foreign, Refuse, Compare, vars
<1>2. pc' # "done" => pc # "done" /\ last' = last
  BY DEF Enter, Foreign, Refuse, Compare, vars
<1> QED BY <1>1, <1>2 DEF InStep, Congruent, S, Sign, Signs

(* Wherever the loop stands, the sum is congruent to the documented one,   *)
(* or to its complement, and within its bound.                             *)
THEOREM SumsInStep == Spec => []InStep
<1>1. InStep /\ [Next]_vars => InStep'
  BY ReadInStep, OtherInStep DEF Next, Returned
<1> QED BY InitInStep, <1>1, PTL DEF Spec

(* Where nmck_sedol, nmck_cusip, ... take the sum from a constant, the     *)
(* constant is large enough for every string: no difference wraps around.  *)
THEOREM NoWrap == Spec => []NoWraparound
<1>1. InStep => NoWraparound
  <2> SUFFICES ASSUME InStep, NEW x \in Call, S(scheme).bias > 0
               PROVE  sum[x] <= S(scheme).bias
    BY DEF NoWraparound
  <2>1. scheme \in Use /\ p \in 1 .. Len(S(scheme).val) + 1
    BY DEF InStep
  <2>2. Most(scheme, p) \in Nat /\ Most(scheme, p) <= S(scheme).bias
    BY <2>1, StandardAssumption DEF Bounded
  <2>3. sum[x] \in Nat /\ sum[x] <= Most(scheme, p)
    BY DEF InStep
  <2>4. S(scheme).bias \in Nat
    BY <2>1, SchemeAssumption
  <2> QED BY <2>2, <2>3, <2>4
<1> QED BY <1>1, SumsInStep, PTL

-----------------------------------------------------------------------------
(* The comparison. *)

(* The parts of what is returned. *)
LEMMA VerdictParts ==
    /\ \A n, c, w : /\ Verdict(n, c, w).neg = n /\ Verdict(n, c, w).char = c
                    /\ Verdict(n, c, w).wrong = w
    /\ Refusal.neg = TRUE /\ Refusal.char = 0 /\ Refusal.wrong = TRUE
    /\ Running.neg = FALSE /\ Running.char = 0 /\ Running.wrong = FALSE
  BY DEF Verdict, Refusal, Running

LEMMA RefusalType ==
    Refusal.neg \in BOOLEAN /\ Refusal.char \in Nat /\ Refusal.wrong \in BOOLEAN
  BY DEF Refusal, Verdict

(* The check character computed of either sum is the one that belongs to   *)
(* the documented residue.                                                 *)
LEMMA CompareCall ==
    ASSUME InStep, Compare, NEW x \in Call
    PROVE  LET e == Expected(scheme, S(scheme).start + Sign(scheme) * std[x])
           IN  /\ e \in S(scheme).check \cup {Refused}
               /\ last'[x] \in S(scheme).check \cup {Placeholder}
               /\ (e # Refused /\ e = last'[x])
                      <=> \/ Documents(scheme, std[x], last'[x])
                          \/ Tolerates(scheme, std[x], last'[x])
               /\ ~(/\ Documents(scheme, std[x], last'[x])
                    /\ Tolerates(scheme, std[x], last'[x]))
               /\ ret'[x] = IF e = Refused THEN Refusal
                            ELSE Verdict(FALSE, e, e # last'[x])
<1> DEFINE b == S(scheme).start + Sign(scheme) * std[x]
           e == Expected(scheme, b)
           C == S(scheme).check \cup {Placeholder}
<1>1. PICK w, t \in C :
        /\ last' = Chars(w, t)
        /\ ret' = [y \in Call |->
              LET c == Expected(scheme, sum[y])
              IN  IF c = Refused THEN Refusal
                  ELSE Verdict(FALSE, c, c # Chars(w, t)[y])]
  BY DEF Compare
<1>2. /\ scheme \in Use /\ sum[x] \in Nat /\ std[x] \in 0 .. S(scheme).mod - 1
      /\ Congruent(scheme, sum[x], b)
  BY DEF InStep
<1>3. b \in Int
  BY <1>2, Standard
<1>4. Expected(scheme, sum[x]) = e
  <2> HIDE DEF b
  <2> QED BY <1>2, <1>3, SameAnswer
<1>5. last'[x] \in C
  BY <1>1 DEF Chars
<1>6. ret'[x] = IF e = Refused THEN Refusal
                ELSE Verdict(FALSE, e, e # last'[x])
  BY <1>1, <1>4
<1>7. /\ e \in S(scheme).check \cup {Refused}
      /\ \A c \in C :
            /\ (e # Refused /\ e = c)
                  <=> Documents(scheme, std[x], c) \/ Tolerates(scheme, std[x], c)
            /\ ~(Documents(scheme, std[x], c) /\ Tolerates(scheme, std[x], c))
  BY <1>2, Standard DEF Answers
<1> QED BY <1>5, <1>6, <1>7

(* The steps that do not compare: what is done stays, and what is not done *)
(* is at most refused.                                                     *)
LEMMA OtherSteps ==
    ASSUME InStep,
           Enter \/ Foreign \/ Read \/ UNCHANGED vars
    PROVE  \/ UNCHANGED vars
           \/ /\ pc # "done" /\ scheme' = scheme /\ last' = last
              /\ \/ pc' # "done" /\ ret' = ret
                 \/ pc' = "done" /\ ret' = [x \in Call |-> Refusal]
  BY DEF Enter, Foreign, Read, Refuse

(* nmck_nhs, nmck_gtin, ... find a string conformant if and only if it has *)
(* nothing foreign to the scheme and the weighted sum their documentation  *)
(* gives, check character included, has the residue it asks for, but for   *)
(* the strings that Departs tells; for every scheme whose values and       *)
(* weights are congruent to the documented ones.                           *)
THEOREM Documentation == Spec => []AcceptsDocumented
<1>1. Init => AcceptsDocumented
  BY DEF Init, AcceptsDocumented
<1>2. InStep /\ AcceptsDocumented /\ [Next]_vars => AcceptsDocumented'
  <2> SUFFICES ASSUME InStep, AcceptsDocumented, [Next]_vars
               PROVE  AcceptsDocumented'
    OBVIOUS
  <2>1. CASE Compare
    <3> SUFFICES ASSUME NEW x \in Call
                 PROVE  ((Conformant(x) <=> Documented(x)) <=> ~Departs(x))'
      BY DEF AcceptsDocumented
    <3> DEFINE e == Expected(scheme,
                             S(scheme).start + Sign(scheme) * std[x])
               D == Documents(scheme, std[x], last'[x])
               T == Tolerates(scheme, std[x], last'[x])
    <3>1. /\ (e # Refused /\ e = last'[x]) <=> D \/ T
          /\ ~(D /\ T)
          /\ ret'[x] = IF e = Refused THEN Refusal
                       ELSE Verdict(FALSE, e, e # last'[x])
      BY <2>1, CompareCall
    <3>2. /\ pc' = "done" /\ scheme' = scheme /\ std' = std /\ odd' = odd
      BY <2>1 DEF Compare
    <3>3. /\ Documented(x)' <=> ~odd[x] /\ D
          /\ Departs(x)' <=> (odd[x] /\ D) \/ T
      BY <3>2 DEF Documented, Departs, Documents, Tolerates, Closes, S, Counts
    <3> HIDE DEF e, D, T
    <3>4. ~ret'[x].neg /\ ~ret'[x].wrong <=> e # Refused /\ e = last'[x]
      <4>1. CASE e = Refused
        BY <3>1, <4>1, VerdictParts, Zenon
      <4>2. CASE e # Refused
        <5>1. ret'[x] = Verdict(FALSE, e, e # last'[x])
          BY <3>1, <4>2
        <5>2. ret'[x].neg = FALSE /\ ret'[x].wrong = (e # last'[x])
          BY <5>1 DEF Verdict
        <5> QED BY <4>2, <5>2
      <4> QED BY <4>1, <4>2
    <3>5. Conformant(x)' <=> D \/ T
      BY <3>1, <3>2, <3>4 DEF Conformant
    <3> QED BY <3>1, <3>3, <3>5
  <2>2. CASE Enter \/ Foreign \/ Read \/ UNCHANGED vars
    <3>1. CASE UNCHANGED vars
      BY <3>1 DEF AcceptsDocumented, Conformant, Documented, Departs, Closes,
                  vars, S, Counts
    <3>2. CASE pc # "done" /\ last' = last
      BY <3>2 DEF AcceptsDocumented, InStep
    <3> QED BY <2>2, <3>1, <3>2, OtherSteps
  <2> QED BY <2>1, <2>2 DEF Next, Returned
<1> QED BY <1>1, <1>2, SumsInStep, PTL DEF Spec

(* What is suggested instead of a wrong check character is one that the    *)
(* recogniser takes there.                                                 *)
THEOREM Suggestions == Spec => []SuggestionTypable
<1>1. Init => SuggestionTypable
  BY DEF Init, SuggestionTypable
<1>2. InStep /\ SuggestionTypable /\ [Next]_vars => SuggestionTypable'
  <2> SUFFICES ASSUME InStep, SuggestionTypable, [Next]_vars
               PROVE  SuggestionTypable'
    OBVIOUS
  <2>1. CASE Compare
    <3> SUFFICES ASSUME NEW x \in Call, ~ret'[x].neg
                 PROVE  ret'[x].char \in S(scheme').check
      BY DEF SuggestionTypable, S
    <3> DEFINE e == Expected(scheme,
                             S(scheme).start + Sign(scheme) * std[x])
    <3>1. /\ e \in S(scheme).check \cup {Refused}
          /\ ret'[x] = IF e = Refused THEN Refusal
                       ELSE Verdict(FALSE, e, e # last'[x])
      BY <2>1, CompareCall
    <3>2. scheme' = scheme
      BY <2>1 DEF Compare
    <3> HIDE DEF e
    <3>3. e # Refused /\ ret'[x].char = e
      BY <3>1 DEF Refusal, Verdict
    <3> QED BY <3>1, <3>2, <3>3
  <2>2. CASE Enter \/ Foreign \/ Read \/ UNCHANGED vars
    <3>1. CASE UNCHANGED vars
      BY <3>1 DEF SuggestionTypable, vars, S
    <3>2. CASE pc' # "done" \/ ret' = [x \in Call |-> Refusal]
      BY <3>2 DEF SuggestionTypable, Refusal, Verdict
    <3> QED BY <2>2, <3>1, <3>2, OtherSteps
  <2> QED BY <2>1, <2>2 DEF Next, Returned
<1> QED BY <1>1, <1>2, SumsInStep, PTL DEF Spec

-----------------------------------------------------------------------------
(* Each value a call keeps is of its type. *)
LEMMA NextType == InStep /\ TypeOK /\ InStep' /\ [Next]_vars => TypeOK'
<1> SUFFICES ASSUME InStep, TypeOK, InStep', [Next]_vars PROVE TypeOK'
  OBVIOUS
<1>1. /\ scheme' \in Use /\ p' \in 1 .. Len(S(scheme').val) + 1
      /\ sum' \in [Call -> Nat]
  BY DEF InStep, S
<1>2. std' \in [Call -> Nat]
  <2>1. std' \in [Call -> 0 .. S(scheme').mod - 1]
    BY DEF InStep, S
  <2>2. S(scheme').mod \in Nat
    BY <1>1, Standard
  <2> QED BY <2>1, <2>2
<1>3. odd' \in [Call -> BOOLEAN]
  BY DEF TypeOK, Next, Enter, Foreign, Refuse, Read, Compare, Returned, vars,
         Observes
<1>4. len' \in Nat /\ pc' \in {"enter", "loop", "done"}
  BY DEF TypeOK, Next, Enter, Foreign, Refuse, Read, Compare, Returned, vars
<1>5. slip' \in {"never", "none", "half", "full"}
  BY DEF TypeOK, Next, Enter, Foreign, Refuse, Read, Compare, Returned, vars,
         Types
<1>6. CASE Compare
  <2>1. ASSUME NEW x \in Call
        PROVE  /\ last'[x] \in Nat
               /\ ret'[x].neg \in BOOLEAN /\ ret'[x].char \in Nat
               /\ ret'[x].wrong \in BOOLEAN
    <3> DEFINE e == Expected(scheme,
                             S(scheme).start + Sign(scheme) * std[x])
    <3>1. /\ e \in S(scheme).check \cup {Refused}
          /\ last'[x] \in S(scheme).check \cup {Placeholder}
          /\ ret'[x] = IF e = Refused THEN Refusal
                       ELSE Verdict(FALSE, e, e # last'[x])
      BY <1>6, CompareCall
    <3>2. S(scheme).check \subseteq Nat
      BY Standard DEF InStep
    <3>3. e \in Nat /\ last'[x] \in Nat
      BY <3>1, <3>2 DEF Refused, Placeholder
    <3> HIDE DEF e
    <3>4. CASE e = Refused
      <4>1. ret'[x] = Refusal
        BY <3>1, <3>4
      <4> QED BY <3>3, <4>1, RefusalType
    <3>5. CASE e # Refused
      <4>1. ret'[x] = Verdict(FALSE, e, e # last'[x])
        BY <3>1, <3>5
      <4>2. /\ ret'[x].neg = FALSE /\ ret'[x].char = e
            /\ ret'[x].wrong = (e # last'[x])
        BY <4>1 DEF Verdict
      <4> QED BY <3>3, <4>2
    <3> QED BY <3>4, <3>5
  <2>2. last' = [x \in Call |-> last'[x]]
    BY <1>6 DEF Compare, Chars
  <2>3. last' \in [Call -> Nat]
    BY <2>1, <2>2
  <2> QED BY <1>1, <1>2, <1>4, <1>5, <1>3, <2>1, <2>3 DEF TypeOK, S
<1>7. CASE Enter \/ Foreign \/ Read \/ UNCHANGED vars
  <2>1. last' = last /\ (ret' = ret \/ ret' = [x \in Call |-> Refusal])
    BY <1>7, OtherSteps DEF vars
  <2>2. last' \in [Call -> Nat]
    BY <2>1 DEF TypeOK
  <2>3. \A x \in Call : /\ ret'[x].neg \in BOOLEAN /\ ret'[x].char \in Nat
                        /\ ret'[x].wrong \in BOOLEAN
    <3>1. CASE ret' = ret
      BY <3>1 DEF TypeOK
    <3>2. CASE ret' = [x \in Call |-> Refusal]
      BY <3>2, RefusalType
    <3> QED BY <2>1, <3>1, <3>2
  <2> QED BY <1>1, <1>2, <1>4, <1>5, <1>3, <2>2, <2>3 DEF TypeOK, S
<1> QED BY <1>6, <1>7 DEF Next, Returned

(* The types of all that a call keeps; the position stays within one of    *)
(* the last.                                                               *)
THEOREM TypesOfSums == Spec => []TypeOK
<1>1. Init => TypeOK
  <2> SUFFICES ASSUME Init PROVE TypeOK
    OBVIOUS
  <2>1. /\ scheme \in Use /\ Len(S(scheme).val) \in Nat
        /\ S(scheme).start \in Nat /\ S(scheme).extra \subseteq Nat
    BY SchemeAssumption DEF Init
  <2>2. len \in Nat
    BY <2>1 DEF Init
  <2>3. \A x \in Call : /\ ret[x].neg \in BOOLEAN /\ ret[x].char \in Nat
                        /\ ret[x].wrong \in BOOLEAN
    <3>1. \A x \in Call : ret[x] = Running
      BY DEF Init
    <3>2. /\ Running.neg \in BOOLEAN /\ Running.char \in Nat
          /\ Running.wrong \in BOOLEAN
      BY DEF Running, Verdict
    <3> QED BY <3>1, <3>2
  <2>4. /\ sum \in [Call -> Nat] /\ std \in [Call -> Nat]
        /\ last \in [Call -> Nat] /\ p \in 1 .. Len(S(scheme).val) + 1
        /\ odd \in [Call -> BOOLEAN]
    BY <2>1 DEF Init, Refused
  <2> QED BY <2>1, <2>2, <2>3, <2>4 DEF Init, TypeOK
<1>2. InStep /\ TypeOK /\ InStep' /\ [Next]_vars => TypeOK'
  BY NextType
<1> QED BY <1>1, <1>2, SumsInStep, PTL DEF Spec

-----------------------------------------------------------------------------
(* Lengths. *)

(* Until the length is looked at it is one of those the pattern lets pass. *)
Matched ==
    /\ scheme \in Use
    /\ pc = "enter" =>
          len \in {Len(S(scheme).val) + 1 + e : e \in S(scheme).extra}

(* But for the misfits no checker turns a string down for a length that    *)
(* its pattern lets pass.                                                  *)
THEOREM Lengths == Spec => LengthsAgree
<1>1. Init => Matched
  BY DEF Init, Matched
<1>2. Matched /\ [Next]_vars => Matched'
  BY DEF Matched, Next, Enter, Foreign, Refuse, Read, Compare, Returned, vars,
         S
<1>3. Matched /\ [Next]_vars =>
        (pc = "enter" /\ pc' = "done" => scheme \in Misfit)
  <2> SUFFICES ASSUME Matched, [Next]_vars, pc = "enter", pc' = "done",
                      scheme \notin Misfit
               PROVE  FALSE
    OBVIOUS
  <2>1. len \in S(scheme).lens
    BY StandardAssumption DEF Matched
  <2>2. Enter
    BY DEF Next, Foreign, Read, Compare, Returned, vars
  <2> QED BY <2>1, <2>2 DEF Enter
<1>4. Matched /\ [Next]_vars =>
        [pc = "enter" /\ pc' = "done" => scheme \in Misfit]_vars
  BY <1>3
<1> QED BY <1>1, <1>2, <1>4, PTL DEF Spec, LengthsAgree
=============================================================================
