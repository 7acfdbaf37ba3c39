-------------------------- MODULE QuasigroupProofs --------------------------
(***************************************************************************)
(* No slip passes a check over a quasigroup, for every table and           *)
(* permutation with the properties assumed, for strings of any length and  *)
(* slips at any place.  TLC evaluates the assumptions on the tables of     *)
(* verhoeff.c and damm.c (MCVerhoeff, MCDamm10, MCDamm16).                 *)
(***************************************************************************)
EXTENDS Quasigroup, TLAPS

-----------------------------------------------------------------------------
(* Positions count modulo Turn, as j++ % 8U does in verhoeff.c. *)

(* What is left over of a multiple and a rest is the rest. *)
LEMMA Rest ==
    ASSUME NEW t \in Nat \ {0}, NEW q \in Int, NEW r \in 0 .. t - 1
    PROVE  (t * q + r) % t = r
OBVIOUS

(* The position after the n-th is the one after n % t. *)
LEMMA NextPosition ==
    ASSUME NEW t \in Nat \ {0}, NEW n \in Nat
    PROVE  ((n % t) + 1) % t = (n + 1) % t
<1> DEFINE r == n % t
           q == n \div t
<1>1. r \in 0 .. t - 1 /\ q \in Int /\ n = t * q + r
  OBVIOUS
<1>2. CASE r + 1 < t
  <2>1. r + 1 \in 0 .. t - 1
    BY <1>1, <1>2
  <2>2. n + 1 = t * q + (r + 1)
    BY <1>1
  <2>3. (t * q + (r + 1)) % t = r + 1
    BY ONLY <2>1, <1>1, Rest
  <2>4. (t * 0 + (r + 1)) % t = r + 1
    BY <2>1, <1>1, Rest
  <2> QED BY <2>1, <2>2, <2>3, <2>4
<1>3. CASE r + 1 = t
  <2>1. t * (q + 1) = t * q + t
    BY <1>1
  <2>2. n + 1 = t * (q + 1) + 0
    BY <1>1, <1>3, <2>1
  <2>3. (t * (q + 1) + 0) % t = 0
    BY <1>1, Rest
  <2>4. t % t = 0
    OBVIOUS
  <2> QED BY <2>2, <2>3, <2>4, <1>3
<1> QED BY <1>1, <1>2, <1>3

-----------------------------------------------------------------------------
(* One step of the loop. *)

(* A position has a permutation. *)
LEMMA Position ==
    ASSUME NEW k \in Checks, NEW n \in Nat
    PROVE  /\ n % Group[k].turn \in 0 .. Group[k].turn - 1
           /\ (n % Group[k].turn) % Group[k].turn = n % Group[k].turn
           /\ Group[k].perms[n % Group[k].turn] \in [Digit(k) -> Digit(k)]
<1> DEFINE t == Group[k].turn
<1>1. t \in Nat \ {0}
  BY TableAssumption
<1> HIDE DEF t
<1>2. n % t \in 0 .. t - 1
  BY <1>1
<1>3. (t * 0 + (n % t)) % t = n % t
  BY <1>1, <1>2, Rest
<1>4. t * 0 + (n % t) = n % t
  BY <1>1, <1>2
<1> QED BY <1>2, <1>3, <1>4, TableAssumption DEF t

(* The accumulator stays a digit. *)
LEMMA StepType ==
    ASSUME NEW k \in Checks, NEW p \in Digit(k), NEW n \in Nat, NEW c \in Digit(k)
    PROVE  Step(k, p, n, c) \in Digit(k)
<1>1. Group[k].perms[n % Group[k].turn][c] \in Digit(k)
  BY Position
<1>2. Group[k].op[p] \in [Digit(k) -> Digit(k)]
  BY TableAssumption
<1> QED BY <1>1, <1>2 DEF Step

(* Equal digits keep different accumulators different. *)
LEMMA SameDigit ==
    ASSUME NEW k \in Checks, NEW p \in Digit(k), NEW q \in Digit(k), NEW n \in Nat, NEW c \in Digit(k),
           p # q
    PROVE  Step(k, p, n, c) # Step(k, q, n, c)
<1>1. Group[k].perms[n % Group[k].turn][c] \in Digit(k)
  BY Position
<1> QED BY <1>1, LatinAssumption DEF Step

(* Different digits make equal accumulators different. *)
LEMMA OtherDigit ==
    ASSUME NEW k \in Checks, NEW p \in Digit(k), NEW n \in Nat, NEW c \in Digit(k), NEW d \in Digit(k),
           c # d
    PROVE  Step(k, p, n, c) # Step(k, p, n, d)
<1>1. Group[k].perms[n % Group[k].turn][c] # Group[k].perms[n % Group[k].turn][d]
  BY Position, LatinAssumption
<1>2. Group[k].perms[n % Group[k].turn][c] \in Digit(k) /\ Group[k].perms[n % Group[k].turn][d] \in Digit(k)
  BY Position
<1> QED BY <1>1, <1>2, LatinAssumption DEF Step

(* Confused neighbours make equal accumulators different. *)
LEMMA Neighbours ==
    ASSUME Distinguishes, NEW k \in Checks,
           NEW p \in Digit(k), NEW n \in Nat, NEW a \in Digit(k), NEW b \in Digit(k),
           NEW m \in Confused(k)[<<a, b>>]
    PROVE  Step(k, Step(k, p, n, a), n + 1, m[1]) # Step(k, Step(k, p, n, b), n + 1, m[2])
<1> DEFINE r == n % Group[k].turn
<1>1. r \in 0 .. Group[k].turn - 1 /\ r % Group[k].turn = r
  BY Position
<1>2. (r + 1) % Group[k].turn = (n + 1) % Group[k].turn
  BY NextPosition, TableAssumption
<1>3. Step(k, Step(k, p, r, a), r + 1, m[1]) # Step(k, Step(k, p, r, b), r + 1, m[2])
  BY <1>1 DEF Distinguishes
<1>4. \A s, d : Step(k, s, r, d) = Step(k, s, n, d)
  BY <1>1 DEF Step
<1>5. \A s, d : Step(k, s, r + 1, d) = Step(k, s, n + 1, d)
  BY <1>2 DEF Step
<1> QED BY <1>3, <1>4, <1>5

-----------------------------------------------------------------------------
(* Every call starts with nothing accumulated. *)
LEMMA InitQInv == Init => QInv
<1> SUFFICES ASSUME Init PROVE QInv
  OBVIOUS
<1>1. TypeOK
  BY TableAssumption DEF Init, TypeOK, Call, Running
<1>2. Apart
  BY DEF Init, Apart, Call
<1>3. AcceptsZero
  BY DEF Init, AcceptsZero, Running
<1> QED BY <1>1, <1>2, <1>3 DEF QInv

(* Reading a pair of digits keeps the accumulators apart, or as they are   *)
(* while there is no slip.                                                 *)
LEMMA ReadQInv == QInv /\ Distinguishes /\ Read => QInv'
<1> SUFFICES ASSUME QInv, Distinguishes, Read PROVE QInv'
  OBVIOUS
<1> USE DEF Call
<1> DEFINE W == prod["written"]
           T == prod["typed"]
<1>1. PICK w \in Digit(check), t \in Digit(check) :
        /\ Slips(w, t)
        /\ prod' = [x \in Call |-> IF Open(x)
                                   THEN Step(check, prod[x], j, Chars(w, t)[x])
                                   ELSE prod[x]]
  BY DEF Read
<1>2. left > 0 /\ left' = left - 1 /\ j' = j + 1 /\ ret' = ret /\ check' = check
  BY DEF Read
<1>3. TypeOK /\ check \in Checks /\ left \in Nat /\ j \in Nat /\ W \in Digit(check) /\ T \in Digit(check)
  BY DEF QInv, TypeOK
<1>4. TypeOK'
  <2>1. prod' \in [Call -> Digit(check)]
    <3>1. \A x \in Call : Chars(w, t)[x] \in Digit(check)
      BY DEF Chars
    <3>2. \A x \in Call : Step(check, prod[x], j, Chars(w, t)[x]) \in Digit(check)
      BY <1>3, <3>1, StepType DEF TypeOK
    <3> QED BY <1>1, <1>3, <3>2 DEF TypeOK
  <2>2. due' \in Digit(check) \X Digit(check) /\ slip' \in {"none", "half", "full"}
    BY <1>1, <1>3, TableAssumption DEF TypeOK, Slips
  <2> QED BY <1>2, <1>3, <2>1, <2>2 DEF TypeOK
<1>5. Apart'
  <2> SUFFICES ASSUME \A x \in Call : ret[x] # -1
               PROVE  CASE slip' = "none" -> prod'["written"] = prod'["typed"]
                        [] slip' = "half" ->
                              /\ Step(check, prod'["written"], j', due'[1])
                                    # Step(check, prod'["typed"], j', due'[2])
                              /\ left' > 0
                        [] slip' = "full" -> prod'["written"] # prod'["typed"]
    BY <1>2 DEF Apart
  <2>1. \A x \in Call : Open(x)
    <3>1. \A x \in Call : ret[x] # 0
      BY <1>2, <1>3 DEF QInv, AcceptsZero
    <3> QED BY <3>1, <1>3 DEF TypeOK, Open
  <2>2. /\ prod'["written"] = Step(check, W, j, w)
        /\ prod'["typed"] = Step(check, T, j, t)
    BY <1>1, <2>1 DEF Chars
  <2>3. CASE slip = "none" /\ slip' = "none"
    <3>1. w = t /\ W = T
      BY <1>1, <2>3 DEF Slips, QInv, Apart
    <3> QED BY <3>1, <2>2, <2>3
  <2>4. CASE slip = "none" /\ slip' = "full"
    <3>1. w # t /\ W = T
      BY <1>1, <2>4 DEF Slips, QInv, Apart
    <3>2. Step(check, W, j, w) # Step(check, T, j, t)
      BY <1>3, <3>1, OtherDigit
    <3> QED BY <3>2, <2>2, <2>4
  <2>5. CASE slip = "none" /\ slip' = "half"
    <3>1. left > 1 /\ due' \in Confused(check)[<<w, t>>] /\ W = T
      BY <1>1, <2>5 DEF Slips, QInv, Apart
    <3>2. Step(check, Step(check, W, j, w), j + 1, due'[1]) # Step(check, Step(check, T, j, t), j + 1, due'[2])
      BY <1>3, <3>1, Neighbours
    <3>3. left' > 0
      BY <1>2, <1>3, <3>1
    <3> QED BY <1>2, <2>2, <2>5, <3>2, <3>3
  <2>6. CASE slip = "half"
    <3>1. slip' = "full" /\ due = <<w, t>>
      BY <1>1, <2>6 DEF Slips
    <3>2. Step(check, W, j, due[1]) # Step(check, T, j, due[2])
      BY <2>6 DEF QInv, Apart
    <3> QED BY <3>1, <3>2, <2>2
  <2>7. CASE slip = "full"
    <3>1. slip' = "full" /\ w = t /\ W # T
      BY <1>1, <2>7 DEF Slips, QInv, Apart
    <3>2. Step(check, W, j, w) # Step(check, T, j, t)
      BY <1>3, <3>1, SameDigit
    <3> QED BY <3>1, <3>2, <2>2
  <2> QED BY <1>1, <1>3, <2>3, <2>4, <2>5, <2>6, <2>7 DEF TypeOK, Slips
<1>6. AcceptsZero'
  <2> SUFFICES ASSUME NEW x \in Call, ret[x] = 0 PROVE FALSE
    BY <1>2 DEF AcceptsZero
  <2>1. left = 0
    BY DEF QInv, AcceptsZero
  <2> QED BY <1>2, <2>1
<1> QED BY <1>4, <1>5, <1>6 DEF QInv

(* Leaving a call with an error settles nothing about the accumulators. *)
LEMMA RefuseQInv == QInv /\ Refuse => QInv'
<1> SUFFICES ASSUME QInv, Refuse PROVE QInv'
  OBVIOUS
<1>1. PICK X \in SUBSET {x \in Call : Open(x)} :
        X # {} /\ ret' = [x \in Call |-> IF x \in X THEN -1 ELSE ret[x]]
  BY DEF Refuse
<1>2. UNCHANGED <<check, left, j, prod, slip, due>>
  BY DEF Refuse
<1>3. TypeOK'
  BY <1>1, <1>2 DEF QInv, TypeOK
<1>4. Apart'
  <2>1. \E x \in Call : ret'[x] = -1
    BY <1>1
  <2> QED BY <2>1 DEF Apart
<1>5. AcceptsZero'
  BY <1>1, <1>2 DEF QInv, AcceptsZero
<1> QED BY <1>3, <1>4, <1>5 DEF QInv

(* Returning accepts exactly an accumulator of zero. *)
LEMMA ReturnQInv == QInv /\ Return => QInv'
<1> SUFFICES ASSUME QInv, Return PROVE QInv'
  OBVIOUS
<1>1. left = 0 /\ UNCHANGED <<check, left, j, prod, slip, due>>
  BY DEF Return
<1>2. ret' = [x \in Call |-> IF ~Open(x) THEN ret[x]
                             ELSE IF prod[x] = 0 THEN 0 ELSE -1]
  BY DEF Return
<1>3. TypeOK'
  BY <1>1, <1>2 DEF QInv, TypeOK
<1>4. Apart'
  <2>1. (\A x \in Call : ret'[x] # -1) => \A x \in Call : ret[x] # -1
    BY <1>2 DEF Open, Running
  <2> QED BY <1>1, <2>1 DEF QInv, Apart, Step
<1>5. AcceptsZero'
  BY <1>1, <1>2 DEF QInv, AcceptsZero, Open
<1> QED BY <1>3, <1>4, <1>5 DEF QInv

(* QInv is inductive. *)
LEMMA NextQInv == QInv /\ Distinguishes /\ [Next]_vars => QInv'
<1> SUFFICES ASSUME QInv, Distinguishes, [Next]_vars PROVE QInv'
  OBVIOUS
<1>1. CASE Read
  BY <1>1, ReadQInv
<1>2. CASE Refuse
  BY <1>2, RefuseQInv
<1>3. CASE Return
  BY <1>3, ReturnQInv
<1>4. CASE UNCHANGED vars
  BY <1>4 DEF vars, QInv, TypeOK, Apart, AcceptsZero, Step
<1> QED BY <1>1, <1>2, <1>3, <1>4 DEF Next, Returned

(* The accumulators of a number and of its mistyped copy differ from the   *)
(* slip to the end, in the loops of verhoeff.c and damm.c.                 *)
THEOREM Difference == Distinguishes /\ Spec => []QInv
<1> SUFFICES ASSUME Distinguishes PROVE Spec => []QInv
  OBVIOUS
<1> QED BY InitQInv, NextQInv, PTL DEF Spec

(* Of a number and the same number after one slip at most one is accepted  *)
(* by nmck_verhoeff, nmck_damm10 or nmck_damm16.                           *)
THEOREM Detection == Distinguishes /\ Spec => []SlipCaught
<1>1. QInv => SlipCaught
  <2> SUFFICES ASSUME QInv, slip # "none", \A x \in Call : ret[x] = 0
               PROVE  FALSE
    BY DEF SlipCaught
  <2>1. prod["written"] = 0 /\ prod["typed"] = 0 /\ left = 0
    BY DEF QInv, AcceptsZero, Call
  <2>2. \A x \in Call : ret[x] # -1
    OBVIOUS
  <2>3. CASE slip = "half"
    <3>1. left > 0
      BY <2>2, <2>3 DEF QInv, Apart
    <3> QED BY <2>1, <3>1
  <2>4. CASE slip = "full"
    <3>1. prod["written"] # prod["typed"]
      BY <2>2, <2>4 DEF QInv, Apart
    <3> QED BY <2>1, <3>1
  <2> QED BY <2>3, <2>4 DEF QInv, TypeOK
<1> QED BY <1>1, Difference, PTL
=============================================================================
