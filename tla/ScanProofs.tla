----------------------------- MODULE ScanProofs -----------------------------
(***************************************************************************)
(* A checker that scans shows a slip if its steps keep accumulators that   *)
(* differ different, and if no check character goes with two of them;      *)
(* whatever the other characters are, for strings of any length, and for   *)
(* every checker with the properties assumed.  TLC evaluates these on the  *)
(* steps of the sources (MCScan).  Then, of those steps themselves and all *)
(* characters they accept: the totals of Luhn's formula and the sum of an  *)
(* ISAN beside their standards, and the issuers of card numbers.           *)
(***************************************************************************)
EXTENDS ScanForms, TLAPS

(* What is assumed, for one checker. *)
LEMMA Apartness ==
    ASSUME NEW n \in Use, Detects(n), NEW k \in Places(n), NEW a \in Acc(n)
    PROVE  /\ Mistaken(n, k) \subseteq Accepted(n, k)
           /\ \A c \in Accepted(n, k) : Step(n, a, k, c) \in Acc(n)
           /\ "wrong" \in S(n).catches =>
                \A c, d \in Mistaken(n, k) :
                    c # d => Differ(n, Step(n, a, k, c), Step(n, a, k, d))
           /\ "swap" \in S(n).catches /\ k + 1 \in Places(n) =>
                \A c, d \in Swapped(n, k) :
                    c # d /\ {c, d} \notin S(n).blind =>
                        Differ(n, Step(n, Step(n, a, k, c), k + 1, d),
                                  Step(n, Step(n, a, k, d), k + 1, c))
<1>1. Separates(n)
  BY Separation
<1> QED BY <1>1 DEF Separates

(* The same character keeps accumulators apart, at every position. *)
LEMMA Kept ==
    ASSUME NEW n \in Use, Detects(n), NEW k \in Places(n),
           NEW a \in Acc(n), NEW b \in Acc(n), Differ(n, a, b),
           NEW c \in Accepted(n, k)
    PROVE  Differ(n, Step(n, a, k, c), Step(n, b, k, c))
<1>1. Separates(n)
  BY Separation
<1>2. /\ Accepted(n, Turn(n, k)) = Accepted(n, k)
      /\ Step(n, a, Turn(n, k), c) = Step(n, a, k, c)
      /\ Step(n, b, Turn(n, k), c) = Step(n, b, k, c)
  BY <1>1 DEF Separates
<1>3. Turn(n, k) \in Turns(n)
  BY DEF Turns
<1>4. \A t \in Turns(n) : \A d \in Accepted(n, t) :
        Differ(n, Step(n, a, t, d), Step(n, b, t, d))
  BY <1>1 DEF Separates
<1> QED BY <1>2, <1>3, <1>4

(* No check character goes with accumulators apart, nor two with one. *)
LEMMA Checked ==
    ASSUME NEW n \in Use, Detects(n), NEW a \in Acc(n), NEW b \in Acc(n),
           NEW m \in S(n).counts, NEW l \in S(n).checks
    PROVE  /\ Differ(n, a, b) => ~(/\ Right(Finish(n, m, a, l))
                                   /\ Right(Finish(n, m, b, l)))
           /\ "wrong" \in S(n).catches =>
                \A r \in S(n).checks :
                    l # r => ~(/\ Right(Finish(n, m, a, l))
                               /\ Right(Finish(n, m, a, r)))
<1>1. Separates(n)
  BY Separation
<1> QED BY <1>1 DEF Separates

-----------------------------------------------------------------------------
(* Both calls start with the same accumulator. *)
LEMMA InitApart == Init => Apart
<1> SUFFICES ASSUME Init PROVE Apart
  OBVIOUS
<1>1. Detects(scheme) => S(scheme).start \in Acc(scheme)
  BY Separation DEF Init, Separates
<1> QED BY <1>1 DEF Init, Apart, Both, Call

(* Length tests, refusals and verdicts leave the accumulators alone. *)
LEMMA OtherApart ==
    Apart /\ (Enter \/ Foreign \/ UNCHANGED vars) => Apart'
<1> SUFFICES ASSUME Apart, Enter \/ Foreign \/ UNCHANGED vars
             PROVE  Apart'
  OBVIOUS
<1>1. /\ UNCHANGED <<scheme, count, q, acc, slip, due>>
      /\ pc' = pc \/ pc' \in {"loop", "done"}
      /\ pc' # "done" => pc # "done"
  BY DEF Enter, Foreign, Refuse, vars, Apart
<1> QED BY <1>1 DEF Apart, Detects, S, Accepted

(* The next pair of characters keeps the accumulators as they are to each  *)
(* other, or is the slip.                                                  *)
LEMMA ReadApart == Apart /\ Read => Apart'
<1> SUFFICES ASSUME Apart, Read PROVE Apart'
  OBVIOUS
<1> DEFINE C == Accepted(scheme, q)
           W == acc["written"]
           T == acc["typed"]
<1>1. PICK w \in C : \E t \in (IF slip \in {"never", "full"} THEN {w} ELSE C) :
        /\ Types(w, t)
        /\ acc' = [x \in Call |-> After(x, Chars(w, t)[x])]
  BY DEF Read
<1>2. PICK t \in (IF slip \in {"never", "full"} THEN {w} ELSE C) :
        /\ Types(w, t)
        /\ acc' = [x \in Call |-> After(x, Chars(w, t)[x])]
  BY <1>1
<1>3. w \in C /\ t \in C
  OBVIOUS
<1>4. /\ scheme \in Use /\ count \in S(scheme).counts /\ q \in Nat /\ q >= 1
      /\ q <= count /\ pc = "loop" /\ q' = q + 1
      /\ UNCHANGED <<scheme, pc, count>>
  BY DEF Read, Apart
<1>5. count \in Nat /\ 1 .. count \subseteq Places(scheme)
  BY <1>4, ScanAssumption
<1>6. q \in Places(scheme)
  BY <1>4, <1>5
<1>7. acc'["written"] = Step(scheme, W, q, w) /\ acc'["typed"] = Step(scheme, T, q, t)
  BY <1>2 DEF Call, Chars, After
<1>8. Detects(scheme) => W \in Acc(scheme) /\ T \in Acc(scheme)
  BY DEF Apart, Call
<1>9. Detects(scheme) => \A x \in Call : acc'[x] \in Acc(scheme)
  BY <1>3, <1>4, <1>6, <1>7, <1>8, Apartness DEF Call
<1>10. CASE slip # "half" /\ w = t /\ UNCHANGED <<slip, due>>
  <2>1. slip \in {"never", "none"} => acc'["written"] = acc'["typed"]
    BY <1>7, <1>10 DEF Apart
  <2>2. ASSUME slip = "full" PROVE Differ(scheme, acc'["written"], acc'["typed"])
    <3>1. Detects(scheme) /\ Differ(scheme, W, T)
      BY <2>2, <1>4 DEF Apart
    <3> QED BY <3>1, <1>3, <1>4, <1>6, <1>7, <1>8, <1>10, Kept
  <2>3. slip \in {"never", "none", "full"} /\ slip' = slip
    BY <1>10 DEF Apart
  <2>4. slip # "never" => Detects(scheme)
    BY DEF Apart
  <2> QED BY <1>4, <1>9, <2>1, <2>2, <2>3, <2>4 DEF Apart, Detects, S
<1>11. CASE /\ slip = "none" /\ "wrong" \in S(scheme).catches
            /\ w \in Mistaken(scheme, q) /\ t \in Mistaken(scheme, q) /\ w # t
            /\ slip' = "full"
  <2>1. Detects(scheme) /\ W = T
    BY <1>11 DEF Apart, Detects
  <2>2. Differ(scheme, acc'["written"], acc'["typed"])
    BY <2>1, <1>4, <1>6, <1>7, <1>8, <1>11, Apartness
  <2> QED BY <1>4, <1>9, <1>11, <2>1, <2>2 DEF Apart, Detects, S
<1>12. CASE /\ slip = "none" /\ "swap" \in S(scheme).catches /\ q < count
            /\ w \in Swapped(scheme, q) /\ t \in Swapped(scheme, q) /\ w # t
            /\ {w, t} \notin S(scheme).blind
            /\ slip' = "half" /\ due' = <<t, w>>
  <2>1. Detects(scheme) /\ W = T
    BY <1>12 DEF Apart, Detects
  <2>2. q + 1 \in Places(scheme) /\ q + 1 <= count /\ q + 1 >= 1 /\ q + 1 \in Nat
    BY <1>4, <1>5, <1>12
  <2>3. Differ(scheme, Step(scheme, Step(scheme, W, q, w), q + 1, t),
                       Step(scheme, Step(scheme, W, q, t), q + 1, w))
    BY <2>1, <2>2, <1>4, <1>6, <1>8, <1>12, Apartness
  <2>4. due'[1] = t /\ due'[2] = w
    BY <1>12
  <2>5. Differ(scheme, Step(scheme, acc'["written"], q', due'[1]),
                       Step(scheme, acc'["typed"], q', due'[2]))
    BY <2>1, <2>3, <2>4, <1>4, <1>7
  <2>6. Mistaken(scheme, q + 1) \subseteq Accepted(scheme, q + 1)
    BY <2>1, <2>2, <1>4, <1>8, Apartness
  <2>7. \A k \in {1, 2} : due'[k] \in Accepted(scheme, q')
    BY <2>4, <2>6, <1>4, <1>12 DEF Swapped
  <2> QED BY <1>4, <1>9, <1>12, <2>1, <2>2, <2>5, <2>7
          DEF Apart, Detects, S, Accepted
<1>13. CASE slip = "half" /\ due = <<w, t>> /\ slip' = "full"
  <2>1. /\ Detects(scheme)
        /\ Differ(scheme, Step(scheme, W, q, due[1]), Step(scheme, T, q, due[2]))
    BY <1>4, <1>13 DEF Apart
  <2>2. Differ(scheme, acc'["written"], acc'["typed"])
    BY <2>1, <1>7, <1>13
  <2> QED BY <1>4, <1>9, <1>13, <2>1, <2>2 DEF Apart, Detects, S
<1> QED BY <1>2, <1>10, <1>11, <1>12, <1>13 DEF Types

(* The verdict is the end of it. *)
LEMMA FinishesApart == Apart /\ Finishes => Apart'
<1> SUFFICES ASSUME Apart, Finishes PROVE Apart'
  OBVIOUS
<1>1. PICK w \in S(scheme).checks :
        \E t \in (IF slip \in {"never", "full"} THEN {w} ELSE S(scheme).checks) :
            /\ w # t => slip = "none" /\ "wrong" \in S(scheme).catches
            /\ slip' = IF w # t THEN "full" ELSE slip
  BY DEF Finishes
<1>2. slip' = slip \/ (slip = "none" /\ slip' = "full")
  BY <1>1
<1>3. pc' = "done" /\ UNCHANGED <<scheme, count, q, acc, due>>
  BY DEF Finishes
<1> QED BY <1>2, <1>3 DEF Apart, Detects, S

-----------------------------------------------------------------------------
(* Of accumulators that differ, or of two check characters, at most one is *)
(* right.                                                                  *)
LEMMA FinishesCaught == Apart /\ Finishes => SlipCaught'
<1> SUFFICES ASSUME Apart, Finishes, slip' \in {"half", "full"},
                    \A x \in Call : Conformant(x)'
             PROVE  FALSE
  BY DEF SlipCaught
<1> DEFINE K == S(scheme).checks
           W == acc["written"]
           T == acc["typed"]
<1>1. PICK w \in K : \E t \in (IF slip \in {"never", "full"} THEN {w} ELSE K) :
        /\ w # t => slip = "none" /\ "wrong" \in S(scheme).catches
        /\ slip' = IF w # t THEN "full" ELSE slip
        /\ ret' = [x \in Call |-> Finish(scheme, count, acc[x], Chars(w, t)[x])]
  BY DEF Finishes
<1>2. PICK t \in (IF slip \in {"never", "full"} THEN {w} ELSE K) :
        /\ w # t => slip = "none" /\ "wrong" \in S(scheme).catches
        /\ slip' = IF w # t THEN "full" ELSE slip
        /\ ret' = [x \in Call |-> Finish(scheme, count, acc[x], Chars(w, t)[x])]
  BY <1>1
<1>3. /\ scheme \in Use /\ count \in S(scheme).counts /\ pc = "loop"
      /\ q = count + 1 /\ count \in Nat
  BY ScanAssumption DEF Finishes, Apart
<1>4. w \in K /\ t \in K /\ slip # "never"
  BY <1>2 DEF Apart
<1>5. Detects(scheme) /\ W \in Acc(scheme) /\ T \in Acc(scheme)
  BY <1>4 DEF Apart, Call
<1>6. /\ Right(Finish(scheme, count, W, w))
      /\ Right(Finish(scheme, count, T, t))
  BY <1>2 DEF Conformant, Call, Chars
<1>7. CASE w # t
  <2>1. W = T /\ "wrong" \in S(scheme).catches
    BY <1>2, <1>7 DEF Apart
  <2> QED BY <2>1, <1>3, <1>4, <1>5, <1>6, <1>7, Checked
<1>8. CASE w = t
  <2>1. slip \in {"half", "full"}
    BY <1>2, <1>8
  <2>2. slip # "half"
    BY <1>3 DEF Apart
  <2>3. Differ(scheme, W, T)
    BY <2>1, <2>2, <1>3 DEF Apart
  <2> QED BY <2>3, <1>3, <1>4, <1>5, <1>6, <1>8, Checked
<1> QED BY <1>7, <1>8

(* Until the verdict there is none. *)
Pending == pc # "done" => \A x \in Call : ~Right(ret[x])

(* A refusal is not conformant. *)
LEMMA UnknownWrong == ~Right(Unknown)
<1>1. Unknown.neg = TRUE
  BY DEF Unknown
<1> QED BY <1>1, Zenon DEF Right

(* Only the end of the loop gives a verdict that is right. *)
LEMMA OtherPending ==
    Pending /\ (Enter \/ Foreign \/ Read) => \A x \in Call : ~Right(ret'[x])
<1> SUFFICES ASSUME Pending, Enter \/ Foreign \/ Read, NEW x \in Call
             PROVE  ~Right(ret'[x])
  OBVIOUS
<1>1. CASE Refuse
  <2>1. ret'[x] = Unknown
    BY <1>1 DEF Refuse, Both
  <2> QED BY <2>1, UnknownWrong
<1>2. CASE pc # "done" /\ ret' = ret
  BY <1>2 DEF Pending
<1> QED BY <1>1, <1>2 DEF Enter, Foreign, Read

(* Pending is inductive. *)
LEMMA PendingNext == (Init => Pending) /\ (Pending /\ [Next]_vars => Pending')
<1>1. Init => Pending
  <2>1. ASSUME Init, NEW x \in Call PROVE ret[x] = Unknown
    BY <2>1 DEF Init, Both
  <2> QED BY <2>1, UnknownWrong DEF Pending
<1>2. ASSUME Pending, [Next]_vars PROVE Pending'
  <2>1. CASE Enter \/ Foreign \/ Read
    BY <1>2, <2>1, OtherPending DEF Pending
  <2>2. CASE Finishes
    BY <2>2 DEF Finishes, Pending
  <2>3. CASE UNCHANGED vars
    BY <1>2, <2>3 DEF vars, Pending
  <2> QED BY <1>2, <2>1, <2>2, <2>3 DEF Next, Returned
<1> QED BY <1>1, <1>2

(* Nothing else makes a string conformant. *)
LEMMA OtherCaught ==
    SlipCaught /\ Pending /\ (Enter \/ Foreign \/ Read \/ UNCHANGED vars)
    => SlipCaught'
<1> SUFFICES ASSUME SlipCaught, Pending,
                    Enter \/ Foreign \/ Read \/ UNCHANGED vars
             PROVE  SlipCaught'
  OBVIOUS
<1>1. CASE Enter \/ Foreign \/ Read
  <2>1. \A x \in Call : ~Right(ret'[x])
    BY <1>1, OtherPending
  <2> QED BY <2>1 DEF SlipCaught, Conformant, Call
<1>2. CASE UNCHANGED vars
  BY <1>2 DEF vars, SlipCaught, Conformant, Settled
<1> QED BY <1>1, <1>2

-----------------------------------------------------------------------------
(* The accumulators of nmck_isin, nmck_isan, nmck_tckimlik, ... stay apart *)
(* from the slip on.                                                       *)
THEOREM AccumulatorsStayApart == Spec => []Apart
<1>1. Init => Apart
  BY InitApart
<1>2. Apart /\ [Next]_vars => Apart'
  BY OtherApart, ReadApart, FinishesApart DEF Next, Returned
<1> QED BY <1>1, <1>2, PTL DEF Spec

(* A number as issued and the same number after one slip its scheme is     *)
(* made to detect are not both found conformant, wherever the slip is.     *)
THEOREM ScanDetection == Spec => []SlipCaught
<1>1. Init => SlipCaught
  BY DEF Init, SlipCaught
<1>2. Apart /\ Pending /\ SlipCaught /\ [Next]_vars => SlipCaught'
  BY OtherCaught, FinishesCaught DEF Next, Returned, Pending
<1>3. (Init => Pending) /\ (Pending /\ [Next]_vars => Pending')
  BY PendingNext
<1> QED BY <1>1, <1>2, <1>3, AccumulatorsStayApart, PTL DEF Spec

-----------------------------------------------------------------------------
(* The standard beside the checker *)

(* What is assumed of a checker and its standard, for one position and one *)
(* pair of an accumulator and a view.                                      *)
LEMMA Followed ==
    ASSUME NEW n \in Use, NEW a, NEW s
    PROVE  /\ <<S(n).start, StdStart(n)>> \in Meets(n, 1)
           /\ \A k \in Places(n) : <<a, s>> \in Meets(n, k) =>
                \A c \in Alphabet(n, k) :
                    <<Step(n, a, k, c), StdStep(n, s, k, c)>>
                        \in Meets(n, k + 1)
           /\ \A m \in S(n).counts : <<a, s>> \in Meets(n, m + 1) =>
                \A l \in S(n).checks :
                    LET v == Finish(n, m, a, l)
                    IN  /\ v.neg \in BOOLEAN /\ v.wrong \in BOOLEAN
                        /\ Agrees(n, v, m, s, l) /\ Repairs(n, v, m, s)
           /\ Unread \notin S(n).checks
<1> DEFINE b == <<a, s>>
<1>1. b[1] = a /\ b[2] = s
  OBVIOUS
<1>2. Follows(n) /\ Unread \notin S(n).checks
  BY FollowAssumption DEF Unread
<1> HIDE DEF b
<1>3. \A k \in Places(n) : b \in Meets(n, k) => \A c \in Alphabet(n, k) :
         <<Step(n, b[1], k, c), StdStep(n, b[2], k, c)>> \in Meets(n, k + 1)
  BY <1>2 DEF Follows
<1>4. \A m \in S(n).counts : b \in Meets(n, m + 1) => \A l \in S(n).checks :
         LET v == Finish(n, m, b[1], l)
         IN  /\ v.neg \in BOOLEAN /\ v.wrong \in BOOLEAN
             /\ Agrees(n, v, m, b[2], l) /\ Repairs(n, v, m, b[2])
  BY <1>2 DEF Follows
<1>5. <<S(n).start, StdStart(n)>> \in Meets(n, 1)
  BY <1>2 DEF Follows
<1> QED BY <1>1, <1>2, <1>3, <1>4, <1>5 DEF b

(* Accumulator and view always belong together, for both calls; until the  *)
(* verdict nothing has been compared.                                      *)
Together ==
    /\ scheme \in Use /\ count \in S(scheme).counts
    /\ q \in 1 .. count + 1
    /\ pc # "done" => \A x \in Call : last[x] = Unread
    /\ \A x \in Call : <<acc[x], std[x]>> \in Meets(scheme, q)

LEMMA InitTogether == Init => Together
<1> SUFFICES ASSUME Init PROVE Together
  OBVIOUS
<1>1. /\ scheme \in Use /\ count \in S(scheme).counts /\ count \in Nat
      /\ q = 1
  BY ScanAssumption DEF Init
<1>2. \A x \in Call : /\ acc[x] = S(scheme).start /\ last[x] = Unread
                      /\ std[x] = StdStart(scheme)
  BY DEF Init, Both
<1>3. \A x \in Call : <<acc[x], std[x]>> \in Meets(scheme, 1)
  BY <1>1, <1>2, Followed
<1> QED BY <1>1, <1>2, <1>3 DEF Together

(* Every character read, slip or not, is of the alphabet of its place. *)
LEMMA ReadAlphabet ==
    ASSUME Apart, Together, Read
    PROVE  \E w, t \in Alphabet(scheme, q) :
              /\ acc' = [x \in Call |-> After(x, Chars(w, t)[x])]
              /\ std' = [x \in Call |->
                            StdStep(scheme, std[x], q, Chars(w, t)[x])]
<1>1. /\ scheme \in Use /\ q \in Places(scheme)
      /\ slip \in {"never", "none", "half", "full"}
  <2>1. 1 .. count \subseteq Places(scheme) /\ count \in Nat
    BY ScanAssumption DEF Together
  <2> QED BY <2>1 DEF Read, Together, Apart
<1>2. PICK w \in Accepted(scheme, q) :
        \E t \in IF slip \in {"never", "full"} THEN {w}
                 ELSE Accepted(scheme, q) :
            /\ Types(w, t)
            /\ acc' = [x \in Call |-> After(x, Chars(w, t)[x])]
            /\ std' = [x \in Call |->
                          StdStep(scheme, std[x], q, Chars(w, t)[x])]
  BY DEF Read
<1>3. PICK t \in IF slip \in {"never", "full"} THEN {w}
                 ELSE Accepted(scheme, q) :
            /\ Types(w, t)
            /\ acc' = [x \in Call |-> After(x, Chars(w, t)[x])]
            /\ std' = [x \in Call |->
                          StdStep(scheme, std[x], q, Chars(w, t)[x])]
  BY <1>2
<1>4. CASE Detects(scheme)
  BY <1>3, <1>4 DEF Alphabet
<1>5. CASE ~Detects(scheme)
  <2>1. slip = "never"
    BY <1>5 DEF Apart
  <2>2. t = w /\ w \in Typed(scheme, q, "never")
    BY <1>3, <2>1 DEF Types
  <2> QED BY <1>3, <1>5, <2>2 DEF Alphabet
<1> QED BY <1>4, <1>5

LEMMA ReadTogether == Apart /\ Together /\ Read => Together'
<1> SUFFICES ASSUME Apart, Together, Read PROVE Together'
  OBVIOUS
<1>1. PICK w, t \in Alphabet(scheme, q) :
        /\ acc' = [x \in Call |-> After(x, Chars(w, t)[x])]
        /\ std' = [x \in Call |-> StdStep(scheme, std[x], q, Chars(w, t)[x])]
  BY ReadAlphabet
<1>2. /\ UNCHANGED <<scheme, pc, count, last>> /\ q' = q + 1
      /\ scheme \in Use /\ count \in Nat /\ q \in 1 .. count
      /\ q \in Places(scheme) /\ pc # "done"
  <2>1. 1 .. count \subseteq Places(scheme) /\ count \in Nat
    BY ScanAssumption DEF Together
  <2> QED BY <2>1 DEF Read, Together
<1>3. ASSUME NEW x \in Call
      PROVE  <<acc'[x], std'[x]>> \in Meets(scheme, q + 1)
  <2> DEFINE c == Chars(w, t)[x]
             a == acc[x]
             s == std[x]
  <2>1. c \in Alphabet(scheme, q)
    BY <1>1 DEF Chars
  <2>2. <<a, s>> \in Meets(scheme, q)
    BY DEF Together
  <2>3. acc'[x] = Step(scheme, a, q, c) /\ std'[x] = StdStep(scheme, s, q, c)
    BY <1>1 DEF After
  <2> HIDE DEF c, a, s
  <2>4. <<Step(scheme, a, q, c), StdStep(scheme, s, q, c)>>
           \in Meets(scheme, q + 1)
    BY <1>2, <2>1, <2>2, Followed
  <2> QED BY <2>3, <2>4
<1> QED BY <1>2, <1>3 DEF Together, S

LEMMA OtherTogether ==
    Together /\ (Enter \/ Foreign \/ Finishes \/ UNCHANGED vars) => Together'
<1> SUFFICES ASSUME Together, Enter \/ Foreign \/ Finishes \/ UNCHANGED vars
             PROVE  Together'
  OBVIOUS
<1>1. /\ UNCHANGED <<scheme, count, q, acc, std>>
      /\ pc' # "done" => pc # "done" /\ last' = last
  BY DEF Enter, Foreign, Refuse, Finishes, vars
<1> QED BY <1>1 DEF Together, S

LEMMA StandardFollowed == Spec => []Together
<1>1. Apart /\ Together /\ [Next]_vars => Together'
  BY ReadTogether, OtherTogether DEF Next, Returned
<1> QED BY InitTogether, <1>1, AccumulatorsStayApart, PTL DEF Spec

(* What the end of the loop returns for either string. *)
LEMMA FinishesVerdict ==
    ASSUME Together, Finishes, NEW x \in Call
    PROVE  /\ last'[x] \in S(scheme).checks /\ last'[x] # Unread
           /\ ret'[x] = Finish(scheme, count, acc[x], last'[x])
           /\ ret'[x].neg \in BOOLEAN /\ ret'[x].wrong \in BOOLEAN
           /\ Agrees(scheme, ret'[x], count, std[x], last'[x])
           /\ Repairs(scheme, ret'[x], count, std[x])
           /\ UNCHANGED <<scheme, count, std>>
<1> DEFINE K == S(scheme).checks
<1>1. PICK w \in K : \E t \in IF slip \in {"never", "full"} THEN {w} ELSE K :
        /\ last' = Chars(w, t)
        /\ ret' = [y \in Call |-> Finish(scheme, count, acc[y], Chars(w, t)[y])]
  BY DEF Finishes
<1>2. PICK t \in IF slip \in {"never", "full"} THEN {w} ELSE K :
        /\ last' = Chars(w, t)
        /\ ret' = [y \in Call |-> Finish(scheme, count, acc[y], Chars(w, t)[y])]
  BY <1>1
<1>3. t \in K
  BY <1>2
<1>4. last'[x] \in K /\ ret'[x] = Finish(scheme, count, acc[x], last'[x])
  BY <1>2, <1>3 DEF Chars
<1>5. /\ scheme \in Use /\ count \in S(scheme).counts
      /\ <<acc[x], std[x]>> \in Meets(scheme, count + 1)
  BY DEF Together, Finishes
<1>6. UNCHANGED <<scheme, count, std>>
  BY DEF Finishes
<1> DEFINE a == acc[x]
           s == std[x]
           l == last'[x]
<1>7. /\ l \in S(scheme).checks /\ <<a, s>> \in Meets(scheme, count + 1)
      /\ ret'[x] = Finish(scheme, count, a, l)
  BY <1>4, <1>5
<1> HIDE DEF a, s, l
<1>8. LET v == Finish(scheme, count, a, l)
      IN  /\ v.neg \in BOOLEAN /\ v.wrong \in BOOLEAN
          /\ Agrees(scheme, v, count, s, l) /\ Repairs(scheme, v, count, s)
  BY <1>5, <1>7, Followed
<1>9. l # Unread
  BY <1>5, <1>7, Followed
<1> QED BY <1>4, <1>6, <1>7, <1>8, <1>9 DEF a, s, l

(* Before the end, what has been compared is not compared again. *)
LEMMA OtherSteps ==
    ASSUME Together, Enter \/ Foreign \/ Read \/ UNCHANGED vars
    PROVE  UNCHANGED vars \/ \A x \in Call : ~Settled(x)'
<1>1. CASE Enter \/ Foreign \/ Read
  <2>1. last' = last /\ pc # "done"
    BY <1>1 DEF Enter, Foreign, Read, Refuse
  <2> QED BY <2>1 DEF Together, Settled, Unread
<1> QED BY <1>1

(* nmck_isin, nmck_grid, nmck_cpf, ... find a string that is read to its   *)
(* end conformant if and only if its standard says it is right, but for    *)
(* the strings the code is known to depart for, given that single steps of *)
(* checker and standard belong together.                                   *)
THEOREM StandardsMet == Spec => []AcceptsDocumented
<1>1. Init => AcceptsDocumented
  BY DEF Init, Both, AcceptsDocumented, Settled
<1>2. Together /\ AcceptsDocumented /\ [Next]_vars => AcceptsDocumented'
  <2> SUFFICES ASSUME Together, AcceptsDocumented, [Next]_vars
               PROVE  AcceptsDocumented'
    OBVIOUS
  <2>1. CASE Finishes
    <3> SUFFICES ASSUME NEW x \in Call, ~(ret'[x].neg /\ Identifies(scheme))
                 PROVE  (Conformant(x)' <=> Documented(x)')
                          <=> ~Exempt(scheme, count, std[x], last'[x])
      BY <2>1, FinishesVerdict DEF AcceptsDocumented
    <3>1. /\ last'[x] # Unread /\ UNCHANGED <<scheme, std>>
          /\ Agrees(scheme, ret'[x], count, std[x], last'[x])
      BY <2>1, FinishesVerdict
    <3>2. Conformant(x)' <=> Right(ret'[x])
      BY <3>1 DEF Conformant, Settled, Unread, Right
    <3>3. Documented(x)' <=> StdRight(scheme, std[x], last'[x])
      BY <3>1 DEF Documented, Settled, Unread
    <3> QED BY <3>1, <3>2, <3>3 DEF Agrees
  <2>2. CASE Enter \/ Foreign \/ Read \/ UNCHANGED vars
    <3>1. CASE UNCHANGED vars
      BY <3>1 DEF vars, AcceptsDocumented, Settled, Unread, Conformant, Documented,
                  Right
    <3>2. CASE \A x \in Call : ~Settled(x)'
      BY <3>2 DEF AcceptsDocumented
    <3> QED BY <2>2, <3>1, <3>2, OtherSteps
  <2> QED BY <2>1, <2>2 DEF Next, Returned
<1> QED BY <1>1, <1>2, StandardFollowed, PTL DEF Spec

(* What nmpr_isin, nmpr_cpf, nmpr_tfn, ... print behind "should be" makes  *)
(* the number right.                                                       *)
THEOREM SuggestionsRepair == Spec => []SuggestionRight
<1>1. Init => SuggestionRight
  BY DEF Init, Both, SuggestionRight, Settled
<1>2. Together /\ SuggestionRight /\ [Next]_vars => SuggestionRight'
  <2> SUFFICES ASSUME Together, SuggestionRight, [Next]_vars
               PROVE  SuggestionRight'
    OBVIOUS
  <2>1. CASE Finishes
    BY <2>1, FinishesVerdict DEF SuggestionRight, Settled
  <2>2. CASE UNCHANGED vars
    BY <2>2 DEF vars, SuggestionRight, Settled, Unread
  <2>3. CASE \A x \in Call : ~Settled(x)'
    BY <2>3 DEF SuggestionRight
  <2> QED BY <2>1, <2>2, <2>3, OtherSteps DEF Next, Returned
<1> QED BY <1>1, <1>2, StandardFollowed, PTL DEF Spec

-----------------------------------------------------------------------------
(* Types and lengths *)

(* What is compared and returned is of its type. *)
Answered ==
    \A x \in Call : /\ last[x] \in S(scheme).checks \cup {Unread}
                    /\ ret[x].neg \in BOOLEAN /\ ret[x].wrong \in BOOLEAN

LEMMA UnknownType == Unknown.neg \in BOOLEAN /\ Unknown.wrong \in BOOLEAN
  BY DEF Unknown

LEMMA NextAnswered == Together /\ Answered /\ [Next]_vars => Answered'
<1> SUFFICES ASSUME Together, Answered, [Next]_vars, NEW x \in Call
             PROVE  /\ last'[x] \in S(scheme').checks \cup {Unread}
                    /\ ret'[x].neg \in BOOLEAN /\ ret'[x].wrong \in BOOLEAN
  BY DEF Answered, S, Unread
<1>1. CASE Finishes
  BY <1>1, FinishesVerdict
<1>2. CASE Refuse
  <2>1. ret'[x] = Unknown /\ UNCHANGED <<scheme, last>>
    BY <1>2 DEF Refuse, Both
  <2> QED BY <2>1, UnknownType DEF Answered
<1>3. CASE UNCHANGED <<scheme, last, ret>>
  BY <1>3 DEF Answered
<1> QED BY <1>1, <1>2, <1>3 DEF Next, Enter, Foreign, Read, Returned, vars

(* The types of all that a checker keeps; no position beyond the last is   *)
(* read.                                                                   *)
THEOREM TypesOfScans == Spec => []TypeOK
<1>1. Init => Answered
  <2> SUFFICES ASSUME Init, NEW x \in Call
               PROVE  /\ last[x] \in S(scheme).checks \cup {Unread}
                      /\ ret[x].neg \in BOOLEAN /\ ret[x].wrong \in BOOLEAN
    BY DEF Answered
  <2>1. ret[x] = Unknown /\ last[x] = Unread
    BY DEF Init, Both
  <2> QED BY <2>1, UnknownType
<1>2. Apart /\ Together /\ Answered => TypeOK
  BY DEF Apart, Together, Answered, TypeOK
<1> QED BY <1>1, <1>2, NextAnswered, AccumulatorsStayApart, StandardFollowed,
           PTL DEF Spec

(* No checker but the misfits, those of IMEISVs and of Irish VAT-IDs with  *)
(* a W, turns a string down for a length that its pattern lets pass.       *)
THEOREM LengthsFit == Spec => LengthsAgree
<1>1. Together /\ [Next]_vars =>
        (pc = "enter" /\ pc' = "done" => scheme \in Misfit)
  <2> SUFFICES ASSUME Together, [Next]_vars, pc = "enter", pc' = "done",
                      scheme \notin Misfit
               PROVE  FALSE
    OBVIOUS
  <2>1. Enter
    BY DEF Next, Foreign, Read, Finishes, Returned, vars
  <2>2. \A e \in S(scheme).extra : Length(e) \in S(scheme).lens
    BY LengthAssumption DEF Together, Length
  <2> QED BY <2>1, <2>2 DEF Enter
<1>2. Together /\ [Next]_vars =>
        [pc = "enter" /\ pc' = "done" => scheme \in Misfit]_vars
  BY <1>1
<1> QED BY <1>2, StandardFollowed, PTL DEF Spec, LengthsAgree

-----------------------------------------------------------------------------
(* The checkers as they are.  What follows is of the steps and ends read   *)
(* off the sources, beside the standards, and of all their characters.     *)
Concrete ==
    /\ Scheme = Schema
    /\ \A n, a, k, c : Step(n, a, k, c) = Take(n, a, k, c)
    /\ \A n, m, a, l : Finish(n, m, a, l) = Settle(n, m, a, l)
    /\ \A n : StdStart(n) = DocStart(n)
    /\ \A n, s, k, c : StdStep(n, s, k, c) = DocStep(n, s, k, c)
    /\ \A n, s, c : StdRight(n, s, c) = DocRight(n, s, c)
    /\ \A n, m, s, c : Exempt(n, m, s, c) = Departs(n, m, s, c)
    /\ \A n, m, s, c : Corrected(n, m, s, c) = DocCorrected(n, m, s, c)

(* The characters of the numbers that are read from the right, and how     *)
(* they begin.                                                             *)
LEMMA LuhnFields ==
    /\ Schema["luhn"].kind = "luhn" /\ Schema["luhn"].start = <<0, 0, 0>>
    /\ \A k \in DOMAIN Schema["luhn"].chars :
          Schema["luhn"].chars[k] = Digits
    /\ Schema["luhn"].checks = {<<>>}
<1>1. Schema["luhn"] = luhn
  BY DEF Schema, Names
<1>2. /\ luhn.kind = "luhn" /\ luhn.start = <<0, 0, 0>>
      /\ luhn.chars = Rep(LuhnLongest, Digits) /\ luhn.checks = {<<>>}
  BY DEF luhn, Usual, ++
<1> QED
  BY <1>1, <1>2 DEF Rep

LEMMA IsinFields ==
    /\ Schema["isin"].kind = "isin" /\ Schema["isin"].start = <<0, 0, 0>>
    /\ \A k \in DOMAIN Schema["isin"].chars :
          Schema["isin"].chars[k] \subseteq Digits \cup Upper
    /\ Schema["isin"].checks = One(Digits \cup Placeholders)
<1>1. Schema["isin"] = isin
  BY DEF Schema, Names
<1>2. /\ isin.kind = "isin" /\ isin.start = <<0, 0, 0>>
      /\ isin.chars = <<Upper, Upper>> \o Rep(9, Digits \cup Upper)
      /\ isin.checks = One(Digits \cup Placeholders)
  BY DEF isin, Usual, ++
<1>3. /\ Rep(9, Digits \cup Upper) \in Seq({Upper, Digits \cup Upper})
      /\ <<Upper, Upper>> \in Seq({Upper, Digits \cup Upper})
  BY DEF Rep
<1>4. isin.chars \in Seq({Upper, Digits \cup Upper})
  BY <1>2, <1>3
<1>5. \A k \in DOMAIN isin.chars : isin.chars[k] \in {Upper, Digits \cup Upper}
  BY <1>4
<1> QED
  BY <1>1, <1>2, <1>5

LEMMA CardFields ==
    /\ Schema["credcard"].kind = "credcard"
    /\ Schema["credcard"].start = <<0, 0, 0, <<>>>>
    /\ \A k \in DOMAIN Schema["credcard"].chars :
          Schema["credcard"].chars[k] = Digits \cup {Space}
    /\ Schema["credcard"].checks = One(Digits \cup {Space})
    /\ Schema["credcard"].counts = 11 .. 21
<1>1. Schema["credcard"] = credcard
  BY DEF Schema, Names
<1>2. /\ credcard.kind = "credcard" /\ credcard.start = <<0, 0, 0, <<>>>>
      /\ credcard.chars = Rep(21, Digits \cup {Space})
      /\ credcard.checks = One(Digits \cup {Space})
      /\ credcard.counts = 11 .. 21
  BY DEF credcard, Usual, ++
<1> QED
  BY <1>1, <1>2 DEF Rep

(* A digit more: of the two totals the one becomes the other, as from the  *)
(* right.                                                                  *)
Mirror(a) == IF a[1] % 2 = 0 THEN <<a[2], a[3]>> ELSE <<a[3], a[2]>>
Totals(a) == a[1] \in 0 .. 99 /\ a[2] \in 0 .. 9 /\ a[3] \in 0 .. 9

(* Nine less is one more. *)
LEMMA Doubled ==
    ASSUME NEW t \in 0 .. 9, NEW d \in 0 .. 9
    PROVE  (t + LuhnDouble(d)) % 10 = (Twofold(d) + t) % 10
<1>1. CASE d < 5
  BY <1>1 DEF LuhnDouble, Twofold
<1>2. CASE d >= 5
  <2>1. t + LuhnDouble(d) = t + 2 * d + 1 /\ Twofold(d) + t = t + 2 * d - 9
    BY <1>2 DEF LuhnDouble, Twofold
  <2>2. (t + 2 * d + 1) % 10 = (t + 2 * d - 9) % 10
    BY <1>2
  <2> QED
    BY <2>1, <2>2
<1> QED
  BY <1>1, <1>2

(* A digit read from the left is one from the right. *)
LEMMA DigitMirrored ==
    ASSUME NEW a, Totals(a), NEW d \in 0 .. 9, NEW period \in {2, 100}
    PROVE  LET b == LuhnStep(a, d, period)
           IN  /\ Totals(b) /\ b = <<b[1], b[2], b[3]>>
               /\ FromRight(Mirror(a), d) = Mirror(b)
<1> DEFINE b == LuhnStep(a, d, period)
<1>1. /\ a[1] \in 0 .. 99 /\ a[2] \in 0 .. 9 /\ a[3] \in 0 .. 9
  BY DEF Totals
<1>2. LuhnDouble(d) \in Nat /\ Twofold(d) \in Nat
  BY DEF LuhnDouble, Twofold
<1>3. /\ b[1] = (a[1] + 1) % period
      /\ b[2] = (a[2] + IF a[1] % 2 = 0 THEN LuhnDouble(d) ELSE d) % 10
      /\ b[3] = (a[3] + IF a[1] % 2 = 0 THEN d ELSE LuhnDouble(d)) % 10
      /\ b = <<b[1], b[2], b[3]>>
  BY DEF LuhnStep
<1>4. b[1] \in 0 .. 99 /\ (b[1] % 2 = 0 <=> a[1] % 2 # 0)
  BY <1>1, <1>3
<1>5. (a[2] + LuhnDouble(d)) % 10 = (Twofold(d) + a[2]) % 10
  BY <1>1, Doubled
<1>6. (a[3] + LuhnDouble(d)) % 10 = (Twofold(d) + a[3]) % 10
  BY <1>1, Doubled
<1>7. b[2] \in 0 .. 9 /\ b[3] \in 0 .. 9
  <2>1. \A x \in Nat : x % 10 \in 0 .. 9
    OBVIOUS
  <2>2. /\ a[2] + (IF a[1] % 2 = 0 THEN LuhnDouble(d) ELSE d) \in Nat
        /\ a[3] + (IF a[1] % 2 = 0 THEN d ELSE LuhnDouble(d)) \in Nat
    BY <1>1, <1>2
  <2> HIDE DEF b
  <2> QED
    BY <1>3, <2>1, <2>2
<1>8. CASE a[1] % 2 = 0
  <2>1. Mirror(a) = <<a[2], a[3]>> /\ Mirror(b) = <<b[3], b[2]>>
    BY <1>4, <1>8 DEF Mirror
  <2>2. FromRight(Mirror(a), d)
            = <<(d + a[3]) % 10, (Twofold(d) + a[2]) % 10>>
    BY <2>1 DEF FromRight
  <2>3. b[2] = (Twofold(d) + a[2]) % 10 /\ b[3] = (d + a[3]) % 10
    BY <1>1, <1>3, <1>5, <1>8
  <2> QED
    BY <1>3, <1>4, <1>7, <2>1, <2>2, <2>3 DEF Totals
<1>9. CASE a[1] % 2 # 0
  <2>1. Mirror(a) = <<a[3], a[2]>> /\ Mirror(b) = <<b[2], b[3]>>
    BY <1>4, <1>9 DEF Mirror
  <2>2. FromRight(Mirror(a), d)
            = <<(d + a[2]) % 10, (Twofold(d) + a[3]) % 10>>
    BY <2>1 DEF FromRight
  <2>3. b[3] = (Twofold(d) + a[3]) % 10 /\ b[2] = (d + a[2]) % 10
    BY <1>1, <1>3, <1>6, <1>9
  <2> QED
    BY <1>3, <1>4, <1>7, <2>1, <2>2, <2>3 DEF Totals
<1> QED
  BY <1>8, <1>9

(* A letter of an ISIN is the two digits of its value. *)
LEMMA LetterDigits ==
    ASSUME NEW c \in Upper
    PROVE  LET e == isinDigits(c)
           IN  /\ Len(e) = 2 /\ e[1] \in 0 .. 9 /\ e[2] \in 0 .. 9
               /\ e[1] = (c - 55) \div 10 /\ e[2] = (c - 55) % 10
               /\ c \notin Digits
<1>1. CASE c \in 65 .. 74
  BY <1>1 DEF isinDigits, Digits
<1>2. CASE c \in 75 .. 84
  BY <1>2 DEF isinDigits, Digits
<1>3. CASE c \in 85 .. 90
  BY <1>3 DEF isinDigits, Digits
<1> QED
  BY <1>1, <1>2, <1>3 DEF Upper

(* A character of an ISIN is one or two digits. *)
LEMMA IsinMirrored ==
    ASSUME NEW a, Totals(a), NEW c \in Digits \cup Upper, NEW k
    PROVE  LET b == isinStep(a, c)
           IN  Totals(b) /\ DocStep("isin", Mirror(a), k, c) = Mirror(b)
<1>1. CASE c \in Digits
  <2>1. c - 48 \in 0 .. 9
    BY <1>1 DEF Digits
  <2>2. isinDigits(c) = <<c - 48>>
    BY <1>1 DEF isinDigits, Digits
  <2>3. isinStep(a, c) = LuhnStep(a, c - 48, 2)
    BY <2>2 DEF isinStep
  <2>4. DocStep("isin", Mirror(a), k, c) = FromRight(Mirror(a), c - 48)
    BY <1>1 DEF DocStep, Elevens11, LastCounts, IrishForms
  <2> DEFINE b == LuhnStep(a, c - 48, 2)
  <2>5. Totals(b) /\ FromRight(Mirror(a), c - 48) = Mirror(b)
    BY <2>1, DigitMirrored
  <2> HIDE DEF b
  <2>6. isinStep(a, c) = b
    BY <2>3 DEF b
  <2> QED
    BY <2>4, <2>5, <2>6
<1>2. CASE c \in Upper
  <2> DEFINE e == isinDigits(c)
             b == LuhnStep(a, e[1], 2)
  <2>1. /\ Len(e) = 2 /\ e[1] \in 0 .. 9 /\ e[2] \in 0 .. 9
        /\ e[1] = (c - 55) \div 10 /\ e[2] = (c - 55) % 10 /\ c \notin Digits
    BY <1>2, LetterDigits
  <2>2. isinStep(a, c) = LuhnStep(b, e[2], 2)
    BY <2>1 DEF isinStep
  <2>3. DocStep("isin", Mirror(a), k, c)
            = FromRight(FromRight(Mirror(a), e[1]), e[2])
    BY <2>1 DEF DocStep, Elevens11, LastCounts, IrishForms
  <2>4. Totals(b) /\ FromRight(Mirror(a), e[1]) = Mirror(b)
    BY <2>1, DigitMirrored
  <2> HIDE DEF e, b
  <2>5. /\ Totals(LuhnStep(b, e[2], 2))
        /\ FromRight(Mirror(b), e[2]) = Mirror(LuhnStep(b, e[2], 2))
    <3> DEFINE d == e[2]
    <3>1. d \in 0 .. 9 /\ Totals(b)
      BY <2>1, <2>4
    <3> HIDE DEF d
    <3>2. /\ Totals(LuhnStep(b, d, 2))
          /\ FromRight(Mirror(b), d) = Mirror(LuhnStep(b, d, 2))
      BY <3>1, DigitMirrored
    <3> QED BY <3>2 DEF d
  <2> QED
    BY <2>2, <2>3, <2>4, <2>5
<1> QED
  BY <1>1, <1>2

(* A blank is no digit, but it is one of the first four characters. *)
LEMMA CardMirrored ==
    ASSUME NEW a, Totals(a), NEW c \in Digits \cup {Space}, NEW k
    PROVE  LET b == credcardStep(a, c)
           IN  /\ Totals(b) /\ DocStep("credcard", Mirror(a), k, c) = Mirror(b)
               /\ b[4] = IF Len(a[4]) < 4 THEN Append(a[4], c) ELSE a[4]
<1> DEFINE pre == IF Len(a[4]) < 4 THEN Append(a[4], c) ELSE a[4]
<1>1. CASE c = Space
  <2>1. credcardStep(a, c) = <<a[1], a[2], a[3], pre>>
    BY <1>1 DEF credcardStep
  <2>2. DocStep("credcard", Mirror(a), k, c) = Mirror(a)
    BY <1>1 DEF DocStep, Elevens11, LastCounts, IrishForms
  <2> HIDE DEF pre
  <2>3. /\ Mirror(<<a[1], a[2], a[3], pre>>) = Mirror(a)
        /\ Totals(<<a[1], a[2], a[3], pre>>)
    BY DEF Mirror, Totals
  <2> QED
    BY <2>1, <2>2, <2>3 DEF pre
<1>2. CASE c # Space
  <2> DEFINE b == LuhnStep(a, c - 48, 100)
  <2>1. c - 48 \in 0 .. 9
    BY <1>2 DEF Digits
  <2>2. Totals(b) /\ b = <<b[1], b[2], b[3]>>
        /\ FromRight(Mirror(a), c - 48) = Mirror(b)
    BY <2>1, DigitMirrored
  <2>3. credcardStep(a, c) = Append(b, pre)
    BY <1>2 DEF credcardStep
  <2>4. DocStep("credcard", Mirror(a), k, c) = FromRight(Mirror(a), c - 48)
    BY <1>2 DEF DocStep, Elevens11, LastCounts, IrishForms
  <2> HIDE DEF b, pre
  <2> DEFINE u == <<b[1], b[2], b[3]>>
             T == Nat \cup {pre}
  <2>5. u \in Seq(T) /\ Len(u) = 3 /\ pre \in T
    BY <2>2 DEF Totals
  <2>6. /\ \A i \in 1 .. 3 : Append(u, pre)[i] = u[i]
        /\ Append(u, pre)[4] = pre
    BY <2>5
  <2>7. /\ \A i \in 1 .. 3 : credcardStep(a, c)[i] = b[i]
        /\ credcardStep(a, c)[4] = pre
    BY <2>2, <2>3, <2>6
  <2>8. /\ Mirror(credcardStep(a, c)) = Mirror(b)
        /\ Totals(credcardStep(a, c))
    BY <2>2, <2>7 DEF Mirror, Totals
  <2> QED
    BY <2>2, <2>4, <2>7, <2>8 DEF pre
<1> QED
  BY <1>1, <1>2

(* One sequence behind another. *)
LEMMA Joined ==
    ASSUME NEW T, NEW u \in Seq(T), NEW v \in Seq(T)
    PROVE  /\ u \o v \in Seq(T) /\ Len(u \o v) = Len(u) + Len(v)
           /\ DOMAIN (u \o v) = 1 .. Len(u) + Len(v)
           /\ \A k \in 1 .. Len(u) : (u \o v)[k] = u[k]
           /\ \A k \in 1 .. Len(v) : (u \o v)[Len(u) + k] = v[k]
  OBVIOUS

(* The characters of an ISAN with a version, the seventeenth a check. *)
LEMMA VisanFields ==
    /\ Schema["visan"].kind = "isan"
    /\ Schema["visan"].start = <<36, 0, FALSE>>
    /\ Schema["visan"].counts = {25}
    /\ \A k \in DOMAIN Schema["visan"].chars :
          k # 17 => Schema["visan"].chars[k] = Hex \cup (97 .. 102)
    /\ Schema["visan"].chars[17] = IsanChecks
    /\ Schema["visan"].checks = One(IsanChecks)
<1>1. Schema["visan"] = visan
  BY DEF Schema, Names
<1> DEFINE H == Hex \cup (97 .. 102)
           T == {H, IsanChecks}
<1>2. /\ visan.kind = "isan" /\ visan.start = <<36, 0, FALSE>>
      /\ visan.counts = {25} /\ visan.checks = One(IsanChecks)
      /\ visan.chars = Rep(16, H) \o <<IsanChecks>> \o Rep(8, H)
  BY DEF visan, Usual, ++
<1> HIDE DEF H
<1>3. /\ Rep(16, H) \in Seq(T) /\ Len(Rep(16, H)) = 16
      /\ Rep(8, H) \in Seq(T) /\ Len(Rep(8, H)) = 8
      /\ \A k \in 1 .. 16 : Rep(16, H)[k] = H
      /\ \A k \in 1 .. 8 : Rep(8, H)[k] = H
  BY DEF Rep
<1> DEFINE u == Rep(16, H)
           v == Rep(8, H)
           w == <<IsanChecks>>
<1>4. w \in Seq(T) /\ Len(w) = 1 /\ w[1] = IsanChecks
  OBVIOUS
<1>5. /\ u \in Seq(T) /\ Len(u) = 16 /\ v \in Seq(T) /\ Len(v) = 8
      /\ \A k \in 1 .. 16 : u[k] = H
      /\ \A k \in 1 .. 8 : v[k] = H
      /\ visan.chars = (u \o w) \o v
  BY <1>2, <1>3
<1> HIDE DEF u, v, w, T
<1> DEFINE y == u \o w
<1>6. /\ y \in Seq(T) /\ Len(y) = Len(u) + Len(w)
      /\ \A k \in 1 .. Len(u) : y[k] = u[k]
      /\ \A k \in 1 .. Len(w) : y[Len(u) + k] = w[k]
  <2>1. u \in Seq(T) /\ w \in Seq(T)
    BY <1>4, <1>5
  <2> QED BY <2>1, Joined
<1>7. visan.chars = y \o v
  BY <1>5
<1> HIDE DEF y
<1>8. /\ y \in Seq(T) /\ Len(y) = 17
      /\ \A k \in 1 .. 16 : y[k] = H
      /\ y[17] = IsanChecks
  <2>1. 1 \in 1 .. Len(w) /\ Len(u) + 1 = 17
    BY <1>4, <1>5
  <2>2. y[17] = w[1]
    BY <1>6, <2>1
  <2> QED BY <1>4, <1>5, <1>6, <2>2
<1>13. /\ DOMAIN (y \o v) = 1 .. 25
       /\ \A k \in 1 .. 17 : (y \o v)[k] = y[k]
       /\ \A k \in 1 .. 8 : (y \o v)[17 + k] = v[k]
  <2>1. y \in Seq(T) /\ v \in Seq(T)
    BY <1>5, <1>8
  <2>2. /\ DOMAIN (y \o v) = 1 .. Len(y) + Len(v)
        /\ \A k \in 1 .. Len(y) : (y \o v)[k] = y[k]
        /\ \A k \in 1 .. Len(v) : (y \o v)[Len(y) + k] = v[k]
    BY <2>1, Joined
  <2>3. Len(y) = 17 /\ Len(v) = 8
    BY <1>5, <1>8
  <2> HIDE DEF y
  <2> DEFINE z == y \o v
  <2> HIDE DEF z
  <2>4. /\ DOMAIN z = 1 .. Len(y) + Len(v)
        /\ \A k \in 1 .. Len(y) : z[k] = y[k]
        /\ \A k \in 1 .. Len(v) : z[Len(y) + k] = v[k]
    BY <2>2 DEF z
  <2>5. /\ DOMAIN z = 1 .. 25
        /\ \A k \in 1 .. 17 : z[k] = y[k]
        /\ \A k \in 1 .. 8 : z[17 + k] = v[k]
    BY <2>3, <2>4
  <2> QED BY <2>5 DEF z
<1>9. DOMAIN visan.chars = 1 .. 25
  BY <1>7, <1>13
<1>10. \A k \in 1 .. 25 : k # 17 => (y \o v)[k] = H
  <2>1. \A k \in 18 .. 25 : k - 17 \in 1 .. 8 /\ 17 + (k - 17) = k
    OBVIOUS
  <2>2. \A k \in 18 .. 25 : (y \o v)[k] = H
    <3> SUFFICES ASSUME NEW k \in 18 .. 25 PROVE (y \o v)[k] = H
      OBVIOUS
    <3> DEFINE j == k - 17
    <3>1. j \in 1 .. 8 /\ 17 + j = k
      BY <2>1
    <3> HIDE DEF j
    <3>2. (y \o v)[17 + j] = v[j] /\ v[j] = H
      BY <1>5, <1>13, <3>1
    <3> QED BY <3>1, <3>2
  <2>3. \A k \in 1 .. 16 : (y \o v)[k] = H
    <3> SUFFICES ASSUME NEW k \in 1 .. 16 PROVE (y \o v)[k] = H
      OBVIOUS
    <3>1. k \in 1 .. 17
      OBVIOUS
    <3> QED BY <1>8, <1>13, <3>1
  <2>4. \A k \in 1 .. 25 : k # 17 => k \in 1 .. 16 \/ k \in 18 .. 25
    OBVIOUS
  <2> QED BY <2>2, <2>3, <2>4
<1>11. visan.chars[17] = IsanChecks
  <2>1. 17 \in 1 .. 17
    OBVIOUS
  <2>2. (y \o v)[17] = y[17]
    BY <1>13, <2>1
  <2> QED BY <1>7, <1>8, <2>2
<1>12. \A k \in DOMAIN visan.chars : k # 17 => visan.chars[k] = H
  BY <1>7, <1>9, <1>10
<1> QED
  BY <1>1, <1>2, <1>11, <1>12 DEF H

(* The sums of nmck_isan are those of ISO 7064. *)
LEMMA HybridStep ==
    ASSUME NEW s \in 1 .. 36, NEW c \in Hex \cup (97 .. 102)
    PROVE  /\ Mod37_36(s, chex(c)) = Hybrid(36, s, Value36(c))
           /\ Mod37_36(s, chex(c)) \in 1 .. 36
<1>1. chex(c) = Value36(c) /\ chex(c) \in 0 .. 15
  BY DEF chex, cb36, Value36, Hex, Digits, Upper, Lower
<1> DEFINE v == chex(c)
           r == IF s + v > 36 THEN s + v - 36 ELSE s + v
<1> HIDE DEF v
<1>2. v \in 0 .. 15 /\ r \in 1 .. 36
  BY <1>1 DEF v
<1>3. r = IF (s + v) % 36 = 0 THEN 36 ELSE (s + v) % 36
  BY <1>2
<1>4. Mod37_36(s, v) = (r * 2) % 37 /\ Hybrid(36, s, v) = (2 * r) % 37
  BY <1>3 DEF Mod37_36, Hybrid
<1>5. \A x \in 1 .. 36 : (x * 2) % 37 \in 1 .. 36 /\ (x * 2) % 37 = (2 * x) % 37
  OBVIOUS
<1> HIDE DEF r
<1>6. Mod37_36(s, v) \in 1 .. 36 /\ Mod37_36(s, v) = Hybrid(36, s, v)
  BY <1>2, <1>4, <1>5
<1> QED
  BY <1>1, <1>6 DEF v

(* The check character for a sum, and what else the standard takes. *)
LEMMA ChecksCompared ==
    ASSUME NEW s \in 1 .. 36, NEW c \in IsanChecks
    PROVE  /\ c = b36c(37 - s)
                <=> Closes36(s, c) /\ c # 48 /\ c \notin Lower
           /\ b36c(37 - s) # 58
           /\ Closes36(s, IF b36c(37 - s) = 91 THEN 48 ELSE b36c(37 - s))
<1> DEFINE v == 37 - s
           b == b36c(v)
<1>1. v \in 1 .. 36
  OBVIOUS
<1>2. b = IF v < 10 THEN 48 + v ELSE v + 55
  BY DEF b36c, Digit
<1>3. \A z \in 0 .. 35 : (s + z) % 36 = 1 <=> z = v \/ (z = 0 /\ v = 36)
  OBVIOUS
<1>4. b # 58
  BY <1>1, <1>2
<1> HIDE DEF v, b
<1>5. Closes36(s, IF b = 91 THEN 48 ELSE b)
  <2>1. CASE v = 36
    <3>1. b = 91
      BY <1>2, <2>1
    <3>2. 48 \in Digits /\ 48 \notin Upper /\ 48 \notin Lower /\ 48 - 48 = 0
      BY DEF Digits, Upper, Lower
    <3>3. Value36(48) = 0 /\ 48 \in Checks36
      BY <3>2 DEF Value36, Checks36
    <3> QED
      BY <1>3, <2>1, <3>1, <3>3 DEF Closes36
  <2>2. CASE v < 10
    <3>1. b \in Digits /\ b - 48 = v /\ b # 91
      BY <1>1, <1>2, <2>2 DEF Digits
    <3>2. Value36(b) = v
      BY <3>1 DEF Value36, Digits, Upper, Lower
    <3> QED
      BY <1>1, <1>3, <2>2, <3>1, <3>2 DEF Closes36, Checks36
  <2>3. CASE v >= 10 /\ v # 36
    <3>1. b \in Upper /\ b - 55 = v /\ b # 91
      BY <1>1, <1>2, <2>3 DEF Upper
    <3>2. Value36(b) = v
      BY <3>1 DEF Value36, Digits, Upper, Lower
    <3> QED
      BY <1>1, <1>3, <2>3, <3>1, <3>2 DEF Closes36, Checks36
  <2> QED
    BY <1>1, <2>1, <2>2, <2>3
<1>6. c = b <=> Closes36(s, c) /\ c # 48 /\ c \notin Lower
  <2>1. CASE c \in Digits
    <3>1. Value36(c) = c - 48 /\ c \in Checks36 /\ c \notin Lower
          /\ c - 48 \in 0 .. 9
      BY <2>1 DEF Value36, Checks36, Digits, Upper, Lower
    <3>2. Closes36(s, c) <=> c - 48 = v \/ (c = 48 /\ v = 36)
      BY <1>3, <3>1 DEF Closes36
    <3> QED
      BY <1>1, <1>2, <3>1, <3>2
  <2>2. CASE c \in Upper
    <3>1. Value36(c) = c - 55 /\ c \in Checks36 /\ c \notin Lower
          /\ c - 55 \in 10 .. 35
      BY <2>2 DEF Value36, Checks36, Digits, Upper, Lower
    <3>2. Closes36(s, c) <=> c - 55 = v
      BY <1>3, <3>1 DEF Closes36
    <3> QED
      BY <1>1, <1>2, <3>1, <3>2
  <2>3. CASE c \in Lower
    BY <1>1, <1>2, <2>3 DEF Lower
  <2>4. CASE c \in Placeholders
    <3>1. c \notin Checks36 /\ c \in {63, 95}
      BY <2>4 DEF Checks36, Digits, Upper, Lower, Placeholders
    <3> QED
      BY <1>1, <1>2, <3>1 DEF Closes36
  <2> QED
    BY <2>1, <2>2, <2>3, <2>4 DEF IsanChecks
<1> QED
  BY <1>4, <1>5, <1>6 DEF b, v

-----------------------------------------------------------------------------
(* Accumulators beside the standards *)

(* Where either call is. *)
Underway ==
    /\ scheme \in Use /\ count \in S(scheme).counts
    /\ q \in 1 .. count + 1
    /\ pc # "done" => \A x \in Call : last[x] = Unread

(* Luhn's totals. *)
Reversed ==
    scheme \in FromTheRight => \A x \in Call :
        Totals(acc[x]) /\ std[x] = Mirror(acc[x])

(* The first characters are kept as they are, blanks and all. *)
Remembered ==
    scheme = "credcard" => \A x \in Call :
        /\ acc[x][4] \in Seq(Digits \cup {Space})
        /\ Len(acc[x][4]) = IF q <= 4 THEN q - 1 ELSE 4

(* The sum of an ISAN, and what is noted of its first check character. *)
Chained ==
    scheme = "visan" => \A x \in Call :
        /\ acc[x][1] \in 1 .. 36 /\ acc[x][1] = std[x][1]
        /\ q > 17 =>
            /\ acc[x][2] # 58
            /\ acc[x][3] <=> ~std[x][2] \/ std[x][3]
            /\ Closes36(std[x][4], IF acc[x][2] = 91 THEN 48 ELSE acc[x][2])

Beside == Underway /\ Reversed /\ Remembered /\ Chained

(* Before the first character. *)
LEMMA InitBeside == Concrete /\ Init => Beside
<1> SUFFICES ASSUME Concrete, Init PROVE Beside
  OBVIOUS
<1>1. Underway
  <2>1. count \in Nat /\ q = 1
    BY ScanAssumption DEF Init
  <2> QED BY <2>1 DEF Init, Both, Underway
<1>2. \A x \in Call : /\ acc[x] = Schema[scheme].start
                      /\ std[x] = DocStart(scheme)
  BY DEF Init, Both, Concrete, S
<1>3. Reversed
  <2> SUFFICES ASSUME scheme \in FromTheRight, NEW x \in Call
               PROVE  Totals(acc[x]) /\ std[x] = Mirror(acc[x])
    BY DEF Reversed
  <2>1. std[x] = <<0, 0>>
    BY <1>2 DEF DocStart, Elevens11, LastCounts, FromTheRight, IrishForms
  <2>2. /\ acc[x][1] = 0 /\ acc[x][2] = 0 /\ acc[x][3] = 0
    BY <1>2, LuhnFields, IsinFields, CardFields DEF FromTheRight
  <2>3. 0 % 2 = 0
    OBVIOUS
  <2> QED BY <2>1, <2>2, <2>3 DEF Totals, Mirror
<1>4. Remembered
  <2> SUFFICES ASSUME scheme = "credcard", NEW x \in Call
               PROVE  /\ acc[x][4] \in Seq(Digits \cup {Space})
                      /\ Len(acc[x][4]) = IF q <= 4 THEN q - 1 ELSE 4
    BY DEF Remembered
  <2> DEFINE e == <<>>
  <2>1. acc[x] = <<0, 0, 0, e>>
    BY <1>2, CardFields
  <2> HIDE DEF e
  <2>2. acc[x][4] = e
    BY <2>1
  <2>3. e \in Seq(Digits \cup {Space}) /\ Len(e) = 0
    BY DEF e
  <2>4. q = 1
    BY DEF Init
  <2> QED BY <2>2, <2>3, <2>4
<1>5. Chained
  <2> SUFFICES ASSUME scheme = "visan", NEW x \in Call
               PROVE  acc[x][1] \in 1 .. 36 /\ acc[x][1] = std[x][1]
    BY DEF Chained, Init
  <2>1. std[x] = DocStart("visan") /\ acc[x] = <<36, 0, FALSE>>
    BY <1>2, VisanFields
  <2>2. DocStart("visan") = <<36, TRUE, FALSE, 36>>
    BY DEF DocStart, Elevens11, LastCounts, FromTheRight, IrishForms
  <2> QED BY <2>1, <2>2
<1> QED BY <1>1, <1>3, <1>4, <1>5 DEF Beside

(* One character more, for either call. *)
LEMMA ReadOne ==
    ASSUME Concrete, Underway, Read, NEW x \in Call
    PROVE  /\ q \in DOMAIN Schema[scheme].chars /\ q \in 1 .. count
           /\ pc # "done" /\ q' = q + 1
           /\ UNCHANGED <<scheme, pc, count, last, ret>>
           /\ \E c \in Schema[scheme].chars[q] :
                /\ acc'[x] = Take(scheme, acc[x], q, c)
                /\ std'[x] = DocStep(scheme, std[x], q, c)
<1>1. Scheme = Schema
  BY DEF Concrete
<1>2. /\ q \in DOMAIN Schema[scheme].chars /\ q \in 1 .. count
  <2>1. 1 .. count \subseteq Places(scheme) /\ count \in Nat
    BY ScanAssumption DEF Underway
  <2> QED BY <1>1, <2>1 DEF Underway, Read, Places, S
<1> DEFINE A == Accepted(scheme, q)
<1>3. PICK w \in A : \E t \in IF slip \in {"never", "full"} THEN {w} ELSE A :
        /\ acc' = [y \in Call |-> After(y, Chars(w, t)[y])]
        /\ std' = [y \in Call |-> StdStep(scheme, std[y], q, Chars(w, t)[y])]
  BY DEF Read
<1>4. PICK t \in IF slip \in {"never", "full"} THEN {w} ELSE A :
        /\ acc' = [y \in Call |-> After(y, Chars(w, t)[y])]
        /\ std' = [y \in Call |-> StdStep(scheme, std[y], q, Chars(w, t)[y])]
  BY <1>3
<1>5. t \in A
  BY <1>4
<1> DEFINE c == Chars(w, t)[x]
<1>6. c \in A
  BY <1>3, <1>5 DEF Chars
<1>7. A = Schema[scheme].chars[q]
  BY <1>1 DEF Accepted, S
<1>8. acc'[x] = Step(scheme, acc[x], q, c) /\ std'[x] = StdStep(scheme, std[x], q, c)
  BY <1>4 DEF After
<1> HIDE DEF c, A
<1>9. acc'[x] = Take(scheme, acc[x], q, c) /\ std'[x] = DocStep(scheme, std[x], q, c)
  BY <1>8 DEF Concrete
<1> QED BY <1>2, <1>6, <1>7, <1>9 DEF Read, Underway

(* A digit, letter or blank more keeps the totals mirrored. *)
LEMMA ReadReversed ==
    ASSUME Concrete, Underway, Reversed, Read, scheme \in FromTheRight,
           NEW x \in Call
    PROVE  /\ Totals(acc'[x]) /\ std'[x] = Mirror(acc'[x])
           /\ scheme = "credcard" =>
                \E c \in Digits \cup {Space} :
                    acc'[x][4] = IF Len(acc[x][4]) < 4
                                 THEN Append(acc[x][4], c) ELSE acc[x][4]
<1>1. PICK c \in Schema[scheme].chars[q] :
        /\ acc'[x] = Take(scheme, acc[x], q, c)
        /\ std'[x] = DocStep(scheme, std[x], q, c)
  BY ReadOne
<1>2. q \in DOMAIN Schema[scheme].chars
  BY ReadOne
<1> DEFINE a == acc[x]
<1>3. Totals(a) /\ std[x] = Mirror(a)
  BY DEF Reversed
<1>4. /\ acc'[x] = Take(scheme, a, q, c)
      /\ std'[x] = DocStep(scheme, Mirror(a), q, c)
  BY <1>1, <1>3
<1> HIDE DEF a
<1>5. CASE scheme = "luhn"
  <2>1. c - 48 \in 0 .. 9 /\ c # Space
    BY <1>1, <1>2, <1>5, LuhnFields DEF Digits, Space
  <2>2. Take("luhn", a, q, c) = LuhnStep(a, c - 48, 2)
    BY LuhnFields DEF Take
  <2>3. DocStep("luhn", Mirror(a), q, c) = FromRight(Mirror(a), c - 48)
    BY <2>1 DEF DocStep, Elevens11, LastCounts, IrishForms
  <2> DEFINE b == LuhnStep(a, c - 48, 2)
  <2>4. Totals(b) /\ FromRight(Mirror(a), c - 48) = Mirror(b)
    BY <1>3, <2>1, DigitMirrored
  <2> HIDE DEF b
  <2>5. acc'[x] = b /\ std'[x] = Mirror(b)
    BY <1>4, <1>5, <2>2, <2>3, <2>4 DEF b
  <2> QED BY <1>5, <2>4, <2>5
<1>6. CASE scheme = "isin"
  <2>1. c \in Digits \cup Upper
    BY <1>1, <1>2, <1>6, IsinFields
  <2>2. Take("isin", a, q, c) = isinStep(a, c)
    BY IsinFields DEF Take
  <2> QED BY <1>3, <1>4, <1>6, <2>1, <2>2, IsinMirrored
<1>7. CASE scheme = "credcard"
  <2>1. c \in Digits \cup {Space}
    BY <1>1, <1>2, <1>7, CardFields
  <2>2. Take("credcard", a, q, c) = credcardStep(a, c)
    BY CardFields DEF Take
  <2>3. /\ Totals(acc'[x]) /\ std'[x] = Mirror(acc'[x])
        /\ acc'[x][4] = IF Len(a[4]) < 4 THEN Append(a[4], c) ELSE a[4]
    BY <1>3, <1>4, <1>7, <2>1, <2>2, CardMirrored
  <2> QED BY <2>1, <2>3 DEF a
<1> QED BY <1>5, <1>6, <1>7 DEF FromTheRight

(* So it does the first characters of a card number. *)
LEMMA ReadRemembered ==
    Concrete /\ Underway /\ Reversed /\ Remembered /\ Read => Remembered'
<1> SUFFICES ASSUME Concrete, Underway, Reversed, Remembered, Read,
                    scheme = "credcard", NEW x \in Call
             PROVE  /\ acc'[x][4] \in Seq(Digits \cup {Space})
                    /\ Len(acc'[x][4]) = IF q' <= 4 THEN q' - 1 ELSE 4
  BY ReadOne DEF Remembered
<1>1. /\ q' = q + 1 /\ q \in 1 .. count /\ count \in Nat
  <2>1. count \in Nat
    BY ScanAssumption DEF Underway
  <2> QED BY <2>1, ReadOne
<1> DEFINE p == acc[x][4]
           D == Digits \cup {Space}
<1>2. p \in Seq(D) /\ Len(p) = IF q <= 4 THEN q - 1 ELSE 4
  BY DEF Remembered
<1>3. PICK c \in D : acc'[x][4] = IF Len(p) < 4 THEN Append(p, c) ELSE p
  BY ReadReversed DEF FromTheRight
<1> HIDE DEF p, D
<1>4. Append(p, c) \in Seq(D) /\ Len(Append(p, c)) = Len(p) + 1
  <2>1. p \in Seq(D) /\ c \in D
    BY <1>2
  <2> QED BY <2>1
<1>5. acc'[x][4] \in Seq(D) /\ Len(acc'[x][4]) = IF q' <= 4 THEN q' - 1 ELSE 4
  BY <1>1, <1>2, <1>3, <1>4
<1> QED BY <1>5 DEF D

(* So it does the sum of an ISAN. *)
LEMMA ReadChained == Concrete /\ Underway /\ Chained /\ Read => Chained'
<1> SUFFICES ASSUME Concrete, Underway, Chained, Read, scheme = "visan",
                    NEW x \in Call
             PROVE  /\ acc'[x][1] \in 1 .. 36 /\ acc'[x][1] = std'[x][1]
                    /\ q' > 17 =>
                        /\ acc'[x][2] # 58
                        /\ acc'[x][3] <=> ~std'[x][2] \/ std'[x][3]
                        /\ Closes36(std'[x][4],
                              IF acc'[x][2] = 91 THEN 48 ELSE acc'[x][2])
  BY ReadOne DEF Chained
<1>1. PICK c \in Schema["visan"].chars[q] :
        /\ acc'[x] = Take("visan", acc[x], q, c)
        /\ std'[x] = DocStep("visan", std[x], q, c)
  BY ReadOne
<1>2. /\ q \in DOMAIN Schema["visan"].chars /\ q' = q + 1
      /\ q \in 1 .. count /\ count \in Nat
  <2>1. count \in Nat
    BY ScanAssumption DEF Underway
  <2> QED BY <2>1, ReadOne
<1> DEFINE a == acc[x]
           s == std[x]
<1>3. /\ a[1] \in 1 .. 36 /\ s[1] = a[1]
      /\ q > 17 =>
            /\ a[2] # 58
            /\ a[3] <=> ~s[2] \/ s[3]
            /\ Closes36(s[4], IF a[2] = 91 THEN 48 ELSE a[2])
  BY DEF Chained
<1>4. acc'[x] = isanStep(a, q, c)
  BY <1>1, VisanFields DEF Take
<1>5. std'[x] = IF q = 17
                THEN <<s[1], Closes36(s[1], c), c = 48 \/ c \in Lower, s[1]>>
                ELSE <<Hybrid(36, s[1], Value36(c)), s[2], s[3], s[4]>>
  BY <1>1 DEF DocStep, Elevens11, LastCounts, FromTheRight, IrishForms
<1> HIDE DEF a, s
<1>6. CASE q = 17
  <2>1. c \in IsanChecks
    BY <1>1, <1>6, VisanFields
  <2> DEFINE b == b36c(37 - a[1])
  <2>2. acc'[x] = <<a[1], b, c # b>>
    BY <1>4, <1>6 DEF isanStep
  <2>3. std'[x] = <<a[1], Closes36(a[1], c), c = 48 \/ c \in Lower, a[1]>>
    BY <1>3, <1>5, <1>6
  <2>4. /\ c = b <=> Closes36(a[1], c) /\ c # 48 /\ c \notin Lower
        /\ b # 58 /\ Closes36(a[1], IF b = 91 THEN 48 ELSE b)
    BY <1>3, <2>1, ChecksCompared
  <2> HIDE DEF b
  <2> DEFINE f == c # b
             g == Closes36(a[1], c)
             h == c = 48 \/ c \in Lower
  <2>5. acc'[x] = <<a[1], b, f>> /\ std'[x] = <<a[1], g, h, a[1]>>
    BY <2>2, <2>3
  <2> HIDE DEF f, g, h
  <2>7. /\ acc'[x][1] = a[1] /\ acc'[x][2] = b /\ acc'[x][3] = f
        /\ std'[x][1] = a[1] /\ std'[x][2] = g
        /\ std'[x][3] = h /\ std'[x][4] = a[1]
    BY <2>5
  <2>6. acc'[x][3] <=> ~std'[x][2] \/ std'[x][3]
    BY <2>4, <2>7, Zenon DEF f, g, h
  <2> QED BY <1>3, <2>4, <2>6, <2>7
<1>7. CASE q # 17
  <2>1. c \in Hex \cup (97 .. 102)
    BY <1>1, <1>2, <1>7, VisanFields
  <2>2. acc'[x] = <<Mod37_36(a[1], chex(c)), a[2], a[3]>>
    BY <1>4, <1>7 DEF isanStep
  <2>3. std'[x] = <<Hybrid(36, a[1], Value36(c)), s[2], s[3], s[4]>>
    BY <1>3, <1>5, <1>7
  <2>4. /\ Mod37_36(a[1], chex(c)) = Hybrid(36, a[1], Value36(c))
        /\ Mod37_36(a[1], chex(c)) \in 1 .. 36
    BY <1>3, <2>1, HybridStep
  <2>5. /\ acc'[x][1] \in 1 .. 36 /\ acc'[x][1] = std'[x][1]
        /\ acc'[x][2] = a[2] /\ acc'[x][3] = a[3]
        /\ std'[x][2] = s[2] /\ std'[x][3] = s[3] /\ std'[x][4] = s[4]
    BY <2>2, <2>3, <2>4
  <2>6. q' > 17 => q > 17
    BY <1>2, <1>7
  <2> QED BY <1>3, <2>5, <2>6
<1> QED BY <1>6, <1>7

(* Every step, of either call. *)
LEMMA NextBeside == Concrete /\ Beside /\ [Next]_vars => Beside'
<1> SUFFICES ASSUME Concrete, Beside, [Next]_vars PROVE Beside'
  OBVIOUS
<1>1. CASE Read
  <2>1. Underway'
    <3>1. \E x \in Call : TRUE
      BY DEF Call
    <3>2. count \in Nat
      BY ScanAssumption DEF Beside, Underway
    <3> QED BY <1>1, <3>2 DEF Read, Beside, Underway, S
  <2>2. Reversed'
    <3> SUFFICES ASSUME scheme \in FromTheRight, NEW x \in Call
                 PROVE  Totals(acc'[x]) /\ std'[x] = Mirror(acc'[x])
      BY <1>1 DEF Read, Reversed, Totals, Mirror
    <3> QED BY <1>1, ReadReversed DEF Beside
  <2> QED BY <1>1, <2>1, <2>2, ReadRemembered, ReadChained DEF Beside
<1>2. CASE Enter \/ Foreign \/ Finishes \/ UNCHANGED vars
  <2>1. /\ UNCHANGED <<scheme, count, q, acc, std>>
        /\ pc' # "done" => pc # "done" /\ last' = last
    BY <1>2 DEF Enter, Foreign, Refuse, Finishes, vars
  <2> QED BY <2>1 DEF Beside, Underway, Reversed, Remembered, Chained, S,
             Totals, Mirror
<1> QED BY <1>1, <1>2 DEF Next, Returned

(* The inductive invariant of the loops. *)
LEMMA AlwaysBeside == Concrete => (Spec => []Beside)
<1> SUFFICES ASSUME Concrete PROVE Spec => []Beside
  OBVIOUS
<1> QED BY InitBeside, NextBeside, PTL DEF Spec

(* The two totals that nmck_luhn, nmck_isin and nmck_credcard keep from the *)
(* left are Luhn's of the string read from the right, in every pass of     *)
(* the loop: for all characters, blanks and letters included, and strings  *)
(* as long as the checkers read.                                           *)
THEOREM TotalsMirrored == Concrete => (Spec => []Mirrored)
<1> SUFFICES ASSUME Concrete PROVE Spec => []Mirrored
  OBVIOUS
<1>1. Beside => Mirrored
  BY DEF Beside, Reversed, Mirror, Mirrored
<1> QED BY <1>1, AlwaysBeside, PTL

(* The one sum of nmck_isan that serves both check characters of an ISAN   *)
(* with a version is ISO 7064's throughout, and what was noted of the      *)
(* first check character stays so while the version is read.               *)
THEOREM VersionsChained == Concrete => (Spec => []Versioned)
<1> SUFFICES ASSUME Concrete PROVE Spec => []Versioned
  OBVIOUS
<1>1. Beside => Versioned
  BY DEF Beside, Chained, Versioned
<1> QED BY <1>1, AlwaysBeside, PTL

-----------------------------------------------------------------------------
(* Verdicts beside the standards *)

(* What a call has returned is what its checker makes of all that was read. *)
Told ==
    \A x \in Call : Settled(x) =>
        /\ q = count + 1 /\ last[x] \in Schema[scheme].checks
        /\ ret[x] = Settle(scheme, count, acc[x], last[x])

(* The end returns it. *)
LEMMA FinishesTold == Concrete /\ Finishes => Told'
<1> SUFFICES ASSUME Concrete, Finishes, NEW x \in Call
             PROVE  /\ q' = count' + 1 /\ last'[x] \in Schema[scheme'].checks
                    /\ ret'[x] = Settle(scheme', count', acc'[x], last'[x])
  BY DEF Told
<1> DEFINE K == Schema[scheme].checks
<1>1. S(scheme).checks = K
  BY DEF Concrete, S
<1>2. PICK w \in K : \E t \in IF slip \in {"never", "full"} THEN {w} ELSE K :
        /\ last' = Chars(w, t)
        /\ ret' = [y \in Call |-> Finish(scheme, count, acc[y], Chars(w, t)[y])]
  BY <1>1 DEF Finishes
<1>3. PICK t \in IF slip \in {"never", "full"} THEN {w} ELSE K :
        /\ last' = Chars(w, t)
        /\ ret' = [y \in Call |-> Finish(scheme, count, acc[y], Chars(w, t)[y])]
  BY <1>2
<1>4. t \in K
  BY <1>3
<1>5. last'[x] \in K /\ ret'[x] = Finish(scheme, count, acc[x], last'[x])
  BY <1>3, <1>4 DEF Chars
<1>6. UNCHANGED <<scheme, count, acc>> /\ q' = count' + 1
  BY DEF Finishes
<1> QED BY <1>5, <1>6 DEF Concrete

(* It is not touched any more. *)
LEMMA AlwaysTold == Concrete => (Spec => []Told)
<1> SUFFICES ASSUME Concrete PROVE Spec => []Told
  OBVIOUS
<1>1. Init => Told
  BY DEF Init, Both, Told, Settled
<1>2. Underway /\ Told /\ [Next]_vars => Told'
  <2> SUFFICES ASSUME Underway, Told, [Next]_vars PROVE Told'
    OBVIOUS
  <2>1. CASE Finishes
    BY <2>1, FinishesTold
  <2>2. CASE Enter \/ Foreign \/ Read
    <3>1. last' = last /\ pc # "done"
      BY <2>2 DEF Enter, Foreign, Read, Refuse
    <3> QED BY <3>1 DEF Underway, Told, Settled, Unread
  <2>3. CASE UNCHANGED vars
    BY <2>3 DEF vars, Told, Settled, Unread
  <2> QED BY <2>1, <2>2, <2>3 DEF Next, Returned
<1>3. Beside => Underway
  BY DEF Beside
<1> QED BY <1>1, <1>2, <1>3, AlwaysBeside, PTL DEF Spec

(* The ends of nmck_luhn, nmck_isin, nmck_credcard and nmck_isan. *)
LEMMA ComparedRight ==
    ASSUME NEW t \in 0 .. 9, NEW big \in {10000, 100000}
    PROVE  LET d == Digit((big - t) % 10)
           IN  /\ d \in Digits /\ (d - 48 + t) % 10 = 0
               /\ \A c \in Digits : (c - 48 + t) % 10 = 0 <=> c = d
<1> DEFINE r == (big - t) % 10
<1>1. r = IF t = 0 THEN 0 ELSE 10 - t
  OBVIOUS
<1>2. \A v \in 0 .. 9 : (v + t) % 10 = 0 <=> v = IF t = 0 THEN 0 ELSE 10 - t
  OBVIOUS
<1> HIDE DEF r
<1>3. Digit(r) - 48 = r /\ r \in 0 .. 9 /\ Digit(r) \in Digits
  BY <1>1 DEF Digit, Digits
<1>4. \A c \in Digits : c - 48 \in 0 .. 9 /\ (c = Digit(r) <=> c - 48 = r)
  BY <1>1 DEF Digit, Digits
<1> QED BY <1>1, <1>2, <1>3, <1>4 DEF r

(* A string with its check digit in it: the sum is 0. *)
LEMMA LuhnMet ==
    ASSUME NEW a, Totals(a), NEW m, NEW l \in Schema["luhn"].checks
    PROVE  LET v == Settle("luhn", m, a, l)
               s == Mirror(a)
           IN  /\ l # Unread /\ v.neg \in BOOLEAN /\ v.wrong \in BOOLEAN
               /\ Right(v) <=> DocRight("luhn", s, l)
               /\ v.neg \/ ~v.wrong
<1> DEFINE v == Settle("luhn", m, a, l)
           s == Mirror(a)
<1>1. l = <<>>
  BY LuhnFields
<1>2. v = luhnFinish(a)
  BY DEF Settle
<1>3. Total(a, a[1]) = s[1]
  BY DEF Total, Mirror
<1>4. DocRight("luhn", s, l) <=> s[1] = 0
  BY DEF DocRight, Elevens11, LastCounts, IrishForms
<1> HIDE DEF v, s
<1>5. CASE s[1] = 0
  <2>1. v = Verdict(<<>>, "", FALSE)
    BY <1>2, <1>3, <1>5 DEF luhnFinish
  <2>2. v.neg = FALSE /\ v.wrong = FALSE
    BY <2>1 DEF Verdict
  <2> QED BY <1>1, <1>4, <1>5, <2>2 DEF Right, v, s, Unread
<1>6. CASE s[1] # 0
  <2>1. v = Refusal
    BY <1>2, <1>3, <1>6 DEF luhnFinish
  <2>2. v.neg = TRUE /\ v.wrong = TRUE
    BY <2>1 DEF Refusal
  <2> QED BY <1>1, <1>4, <1>6, <2>2 DEF Right, v, s, Unread
<1> QED BY <1>5, <1>6

(* The check digit of an ISIN. *)
LEMMA IsinMet ==
    ASSUME NEW a, Totals(a), NEW m, NEW l \in Schema["isin"].checks
    PROVE  LET v == Settle("isin", m, a, l)
               s == Mirror(a)
           IN  /\ l # Unread /\ v.neg = FALSE /\ v.wrong \in BOOLEAN
               /\ Right(v) <=> DocRight("isin", s, l)
               /\ v.chars \in One(Digits) /\ DocCorrected("isin", m, s, v.chars)
<1> DEFINE v == Settle("isin", m, a, l)
           s == Mirror(a)
           t == s[2]
           d == Digit((10000 - t) % 10)
<1>1. PICK c \in Digits \cup Placeholders : l = <<c>>
  BY IsinFields DEF One
<1>2. t \in 0 .. 9
  BY DEF Totals, Mirror
<1>3. Total(a, a[1] + 1) = t
  <2>1. (a[1] + 1) % 2 = 0 <=> a[1] % 2 # 0
    BY DEF Totals
  <2> QED BY <2>1 DEF Total, Mirror
<1>4. v = Compare(<<d>>, l)
  BY <1>3 DEF Settle, isinFinish, Elevens11, LastCounts
<1>5. \A e : DocRight("isin", s, <<e>>)
                <=> e \in Digits /\ (e - 48 + t) % 10 = 0
  BY DEF DocRight, FromRight, Elevens11, LastCounts, IrishForms
<1>6. \A e : DocCorrected("isin", m, s, e) <=> DocRight("isin", s, e)
  BY DEF DocCorrected, LastCounts
<1> HIDE DEF v, s, t
<1>7. /\ d \in Digits /\ (d - 48 + t) % 10 = 0
      /\ \A e \in Digits : (e - 48 + t) % 10 = 0 <=> e = d
  BY <1>2, ComparedRight
<1> HIDE DEF d
<1>8. /\ v.neg = FALSE /\ v.chars = <<d>> /\ v.wrong = (<<d>> # l)
  BY <1>4 DEF Compare, Verdict
<1>9. Right(v) <=> c = d
  BY <1>1, <1>8 DEF Right
<1>10. l # Unread
  BY <1>1 DEF Unread, Digits, Placeholders
<1> QED BY <1>1, <1>5, <1>6, <1>7, <1>8, <1>9, <1>10 DEF v, s, One

(* That of a card number, if it has an issuer. *)
LEMMA CardMet ==
    ASSUME NEW a, Totals(a), NEW m, NEW l \in Schema["credcard"].checks
    PROVE  LET v == Settle("credcard", m, a, l)
               s == Mirror(a)
           IN  /\ l # Unread
               /\ IF Issuer(a[4], a[1] + 1) = "" THEN v = Refusal
                  ELSE /\ v.neg = FALSE /\ v.state = Issuer(a[4], a[1] + 1)
                       /\ v.wrong \in BOOLEAN
                       /\ Right(v) <=> DocRight("credcard", s, l)
                       /\ v.chars \in One(Digits)
                       /\ DocCorrected("credcard", m, s, v.chars)
<1> DEFINE v == Settle("credcard", m, a, l)
           s == Mirror(a)
           t == s[2]
           k == a[1] + 1
           i == Issuer(a[4], k)
           d == Digit((100000 - t) % 10)
<1>1. PICK c \in Digits \cup {Space} : l = <<c>>
  BY CardFields DEF One
<1>2. t \in 0 .. 9
  BY DEF Totals, Mirror
<1>3. Total(a, k) = t
  <2>1. (a[1] + 1) % 2 = 0 <=> a[1] % 2 # 0
    BY DEF Totals
  <2> QED BY <2>1 DEF Total, Mirror
<1> DEFINE u == Digit((100000 - Total(a, k)) % 10)
<1>4. v = IF i = "" THEN Refusal
          ELSE [neg |-> FALSE, chars |-> <<u>>, state |-> i, wrong |-> <<u>> # l]
  <2>1. v = credcardFinish(a, l)
    BY DEF Settle
  <2>2. credcardFinish(a, l) =
            IF i = "" THEN Refusal
            ELSE [neg |-> FALSE, chars |-> <<u>>, state |-> i,
                  wrong |-> <<u>> # l]
    BY DEF credcardFinish, Verdict
  <2> HIDE DEF v, i, u
  <2> QED BY <2>1, <2>2
<1>5. \A e : DocRight("credcard", s, <<e>>)
                <=> e \in Digits /\ (e - 48 + t) % 10 = 0
  BY DEF DocRight, FromRight, Elevens11, LastCounts, IrishForms
<1>6. \A e : DocCorrected("credcard", m, s, e) <=> DocRight("credcard", s, e)
  BY DEF DocCorrected, LastCounts
<1>7. l # Unread
  BY <1>1 DEF Unread, Digits, Space
<1>8. u = d
  BY <1>3
<1> HIDE DEF v, s, t, i, k, u, d
<1>9. /\ i = "" => v = Refusal
      /\ i # "" => /\ v.neg = FALSE /\ v.chars = <<d>> /\ v.state = i
                   /\ v.wrong \in BOOLEAN /\ (v.wrong <=> <<d>> # l)
  <2>1. i = "" => v = Refusal
    BY <1>4
  <2>2. ASSUME i # ""
        PROVE  /\ v.neg = FALSE /\ v.chars = <<u>> /\ v.state = i
               /\ v.wrong \in BOOLEAN /\ (v.wrong <=> <<u>> # l)
    <3>1. v = [neg |-> FALSE, chars |-> <<u>>, state |-> i,
               wrong |-> <<u>> # l]
      BY <1>4, <2>2
    <3> QED BY <3>1
  <2> QED BY <1>8, <2>1, <2>2, Zenon
<1>10. /\ d \in Digits /\ (d - 48 + t) % 10 = 0
       /\ \A e \in Digits : (e - 48 + t) % 10 = 0 <=> e = d
  BY <1>2, ComparedRight DEF d
<1>11. ASSUME i # ""
       PROVE  /\ v.neg = FALSE /\ v.state = i
              /\ v.wrong \in BOOLEAN
              /\ Right(v) <=> DocRight("credcard", s, l)
              /\ v.chars \in One(Digits)
              /\ DocCorrected("credcard", m, s, v.chars)
  <2>1. /\ v.neg = FALSE /\ v.chars = <<d>> /\ v.state = i
        /\ v.wrong \in BOOLEAN /\ (v.wrong <=> <<d>> # l)
    BY <1>9, <1>11
  <2>2. Right(v) <=> c = d
    BY <1>1, <2>1 DEF Right
  <2>3. DocRight("credcard", s, l) <=> c = d
    BY <1>1, <1>5, <1>10
  <2>4. DocCorrected("credcard", m, s, <<d>>)
    BY <1>5, <1>6, <1>10
  <2>5. v.wrong \in BOOLEAN
    BY <2>1
  <2> QED BY <1>10, <2>1, <2>2, <2>3, <2>4, <2>5 DEF One
<1> QED BY <1>7, <1>9, <1>11 DEF v, s, i, k

(* Both check characters of an ISAN. *)
LEMMA VisanMet ==
    ASSUME Concrete, NEW a, NEW s, a[1] \in 1 .. 36, a[1] = s[1], a[2] # 58,
           a[3] <=> ~s[2] \/ s[3],
           Closes36(s[4], IF a[2] = 91 THEN 48 ELSE a[2]),
           NEW m, NEW l \in Schema["visan"].checks
    PROVE  LET v == Settle("visan", m, a, l)
           IN  /\ l # Unread /\ v.neg = FALSE
               /\ (Right(v) <=> DocRight("visan", s, l))
                     <=> ~Departs("visan", m, s, l)
               /\ Repairs("visan", v, m, s)
<1> DEFINE v == Settle("visan", m, a, l)
           b == b36c(37 - a[1])
           w == a[3] \/ <<b>> # l
<1>1. PICK c \in IsanChecks : l = <<c>>
  BY VisanFields DEF One
<1>2. v = [neg |-> FALSE, chars |-> <<a[2], b>>, state |-> "", wrong |-> w]
  <2>1. v = isanFinish(a, l)
    BY DEF Settle
  <2>2. isanFinish(a, l) = [neg |-> FALSE, chars |-> <<a[2], b>>,
                            state |-> "", wrong |-> a[3] \/ <<b>> # l]
    BY DEF isanFinish, Verdict
  <2> HIDE DEF v, b
  <2> QED BY <2>1, <2>2
<1>3. l # Unread
  BY <1>1 DEF Unread, IsanChecks, Digits, Upper, Lower, Placeholders
<1>4. DocRight("visan", s, l) <=> s[2] /\ Closes36(a[1], c)
  BY <1>1 DEF DocRight, Elevens11, LastCounts, FromTheRight, IrishForms
<1>5. Departs("visan", m, s, l)
        <=> DocRight("visan", s, l) /\ (s[3] \/ c = 48 \/ c \in Lower)
  BY <1>1 DEF Departs
<1>6. \A e : DocCorrected("visan", m, s, e)
                <=> Closes36(s[4], e[1]) /\ Closes36(a[1], e[2])
  BY DEF DocCorrected, LastCounts
<1>7. /\ c = b <=> Closes36(a[1], c) /\ c # 48 /\ c \notin Lower
      /\ b # 58 /\ Closes36(a[1], IF b = 91 THEN 48 ELSE b)
  BY ChecksCompared
<1>8. <<b>> # l <=> c # b
  BY <1>1
<1>9. w \in BOOLEAN /\ (w <=> a[3] \/ c # b)
  BY <1>8
<1> HIDE DEF v, b, w
<1>10. v.neg = FALSE /\ v.chars = <<a[2], b>> /\ v.wrong = w
  BY <1>2
<1>11. Right(v) <=> ~w
  BY <1>10, Zenon DEF Right
<1>12. (Right(v) <=> DocRight("visan", s, l)) <=> ~Departs("visan", m, s, l)
  BY <1>4, <1>5, <1>7, <1>9, <1>11
<1>13. Repairs("visan", v, m, s)
  <2> DEFINE e == [i \in DOMAIN v.chars |->
                       IF v.chars[i] = 91 THEN 48 ELSE v.chars[i]]
  <2>1. DOMAIN v.chars = {1, 2} /\ v.chars[1] = a[2] /\ v.chars[2] = b
    BY <1>10
  <2>2. ~\E i \in DOMAIN v.chars : v.chars[i] = 58
    BY <1>7, <2>1
  <2>3. /\ e[1] = IF a[2] = 91 THEN 48 ELSE a[2]
        /\ e[2] = IF b = 91 THEN 48 ELSE b
    BY <2>1
  <2>4. DocCorrected("visan", m, s, e)
    BY <1>6, <1>7, <2>3
  <2> HIDE DEF e
  <2>5. Corrected("visan", m, s, e)
    BY <2>4 DEF Concrete
  <2> QED BY <2>2, <2>5 DEF Repairs, e
<1> QED BY <1>3, <1>10, <1>12, <1>13 DEF v

(* A digit suggested stands for itself. *)
LEMMA DigitRepairs ==
    ASSUME NEW n, NEW v, NEW m, NEW s, v.chars \in One(Digits),
           Corrected(n, m, s, v.chars)
    PROVE  Repairs(n, v, m, s)
<1>1. PICK d \in Digits : v.chars = <<d>>
  BY DEF One
<1>2. d # 58 /\ d # 91
  BY DEF Digits
<1> DEFINE e == [i \in DOMAIN v.chars |->
                     IF v.chars[i] = 91 THEN 48 ELSE v.chars[i]]
<1>3. DOMAIN v.chars = {1} /\ v.chars[1] = d
  BY <1>1
<1>4. ~\E i \in DOMAIN v.chars : v.chars[i] = 58
  BY <1>2, <1>3
<1>5. e = v.chars
  BY <1>1, <1>2, <1>3
<1> HIDE DEF e
<1> QED BY <1>4, <1>5 DEF Repairs, e

(* The verdict and the suggestion of each of them. *)
LEMMA VerdictsMet ==
    ASSUME Concrete, Beside, Told, scheme \in FromTheRight \cup {"visan"},
           NEW x \in Call, Settled(x)
    PROVE  /\ ~(ret[x].neg /\ Identifies(scheme)) =>
                ((Right(ret[x]) <=> StdRight(scheme, std[x], last[x]))
                    <=> ~Exempt(scheme, count, std[x], last[x]))
           /\ Repairs(scheme, ret[x], count, std[x])
<1> DEFINE a == acc[x]
           l == last[x]
           v == ret[x]
           s == std[x]
<1>1. l \in Schema[scheme].checks /\ v = Settle(scheme, count, a, l)
  BY DEF Told
<1>2. scheme \in FromTheRight => Totals(a) /\ s = Mirror(a)
  BY DEF Beside, Reversed
<1>3. /\ StdRight(scheme, s, l) <=> DocRight(scheme, s, l)
      /\ Exempt(scheme, count, s, l) <=> Departs(scheme, count, s, l)
      /\ \A e : Corrected(scheme, count, s, e)
                    <=> DocCorrected(scheme, count, s, e)
  BY DEF Concrete
<1>4. scheme = "visan" =>
        /\ a[1] \in 1 .. 36 /\ a[1] = s[1] /\ a[2] # 58
        /\ a[3] <=> ~s[2] \/ s[3]
        /\ Closes36(s[4], IF a[2] = 91 THEN 48 ELSE a[2])
  <2> SUFFICES ASSUME scheme = "visan"
               PROVE  /\ a[1] \in 1 .. 36 /\ a[1] = s[1] /\ a[2] # 58
                      /\ a[3] <=> ~s[2] \/ s[3]
                      /\ Closes36(s[4], IF a[2] = 91 THEN 48 ELSE a[2])
    OBVIOUS
  <2>1. count = 25 /\ q = count + 1
    BY VisanFields DEF Beside, Underway, Told, Concrete, S
  <2>2. q > 17
    BY <2>1
  <2> QED BY <2>2 DEF Beside, Chained
<1> HIDE DEF a, l, v, s
<1>5. CASE scheme = "luhn"
  <2>1. /\ Right(v) <=> DocRight("luhn", s, l)
        /\ v.neg \/ ~v.wrong
    BY <1>1, <1>2, <1>5, LuhnMet DEF FromTheRight
  <2>2. ~Departs("luhn", count, s, l)
    BY DEF Departs
  <2>3. Repairs("luhn", v, count, s)
    BY <2>1 DEF Repairs
  <2> QED BY <1>3, <1>5, <2>1, <2>2, <2>3 DEF a, l, v, s
<1>6. CASE scheme = "isin"
  <2>4. Totals(a) /\ s = Mirror(a) /\ l \in Schema["isin"].checks
        /\ v = Settle("isin", count, a, l)
    BY <1>1, <1>2, <1>6 DEF FromTheRight
  <2>1. /\ Right(v) <=> DocRight("isin", s, l)
        /\ v.chars \in One(Digits) /\ DocCorrected("isin", count, s, v.chars)
    BY <2>4, IsinMet
  <2>2. ~Departs("isin", count, s, l)
    BY DEF Departs
  <2>3. Repairs("isin", v, count, s)
    BY <1>3, <1>6, <2>1, DigitRepairs
  <2> QED BY <1>3, <1>6, <2>1, <2>2, <2>3 DEF a, l, v, s
<1>7. CASE scheme = "credcard"
  <2>1. Totals(a) /\ s = Mirror(a) /\ l \in Schema["credcard"].checks
        /\ v = Settle("credcard", count, a, l)
    BY <1>1, <1>2, <1>7 DEF FromTheRight
  <2>2. ~Departs("credcard", count, s, l)
    BY DEF Departs
  <2>3. CASE v = Refusal
    <3>1. v.neg = TRUE
      BY <2>3 DEF Refusal
    <3>2. Repairs("credcard", v, count, s) /\ Identifies("credcard")
      BY <3>1 DEF Repairs, Identifies
    <3> QED BY <1>7, <3>1, <3>2 DEF v, s
  <2>4. CASE v # Refusal
    <3>1. /\ Right(v) <=> DocRight("credcard", s, l)
          /\ v.chars \in One(Digits)
          /\ DocCorrected("credcard", count, s, v.chars)
      BY <2>1, <2>4, CardMet
    <3>2. Repairs("credcard", v, count, s)
      BY <1>3, <1>7, <3>1, DigitRepairs
    <3> QED BY <1>3, <1>7, <2>2, <3>1, <3>2 DEF a, l, v, s
  <2> QED BY <2>3, <2>4
<1>8. CASE scheme = "visan"
  <2>1. l \in Schema["visan"].checks /\ v = Settle("visan", count, a, l)
    BY <1>1, <1>8
  <2>2. /\ (Right(v) <=> DocRight("visan", s, l))
              <=> ~Departs("visan", count, s, l)
        /\ Repairs("visan", v, count, s)
    BY <1>4, <1>8, <2>1, VisanMet
  <2> QED BY <1>3, <1>8, <2>2 DEF a, l, v, s
<1> QED BY <1>5, <1>6, <1>7, <1>8 DEF FromTheRight

(* Luhn numbers, ISINs, card numbers and ISANs with a version, of all the  *)
(* characters that their checkers read.                                    *)
AllMet ==
    scheme \in FromTheRight \cup {"visan"} => AcceptsDocumented /\ SuggestionRight

(* What nmck_luhn, nmck_isin, nmck_credcard and nmck_isan find conformant  *)
(* is what Luhn's formula and ISO 7064 say is right, and what they suggest *)
(* makes it right, whichever of the characters they accept the string has. *)
THEOREM EveryCharacterMet == Concrete => (Spec => []AllMet)
<1> SUFFICES ASSUME Concrete PROVE Spec => []AllMet
  OBVIOUS
<1>1. Beside /\ Told => AllMet
  <2> SUFFICES ASSUME Beside, Told, scheme \in FromTheRight \cup {"visan"}
               PROVE  AcceptsDocumented /\ SuggestionRight
    BY DEF AllMet
  <2>1. ASSUME NEW x \in Call, Settled(x)
        PROVE  /\ ~(ret[x].neg /\ Identifies(scheme)) =>
                    ((Conformant(x) <=> Documented(x))
                        <=> ~Exempt(scheme, count, std[x], last[x]))
               /\ Repairs(scheme, ret[x], count, std[x])
    BY <2>1, VerdictsMet DEF Conformant, Documented
  <2> QED BY <2>1 DEF AcceptsDocumented, SuggestionRight
<1> QED BY <1>1, AlwaysBeside, AlwaysTold, PTL

-----------------------------------------------------------------------------
(* The issuers of card numbers *)

(* The beginnings of card numbers, by their characters. *)
Row(d, k, n, m) ==
    \/ n = "AMEX" /\ m = 2 /\ k = 15 /\ d[1] = 3 /\ d[2] \in {4, 7}
    \/ n = "JCB" /\ m = 3 /\ k = 16 /\ d[1] = 3 /\ d[2] = 5 /\ d[3] \in 2 .. 8
    \/ n = "DC_CB" /\ m = 3 /\ k = 14 /\ d[1] = 3 /\ d[2] = 0 /\ d[3] \in 0 .. 5
    \/ n = "DC_INTL" /\ m = 2 /\ k = 14 /\ d[1] = 3 /\ d[2] \in {0, 6, 8, 9}
    \/ n = "UATP" /\ m = 1 /\ k = 15 /\ d[1] = 1
    \/ n = "DC_ENROUTE" /\ m = 2 /\ k = 15 /\ d[1] = 2 /\ d[2] \in {0, 1}
    \/ n = "MASTER" /\ m = 2 /\ k = 16 /\ d[1] = 2 /\ d[2] \in 2 .. 7
    \/ n = "MASTER" /\ m = 2 /\ k = 16 /\ d[1] = 5 /\ d[2] \in 0 .. 5
    \/ n = "VISA" /\ m = 1 /\ k \in {13, 16} /\ d[1] = 4
    \/ n = "VELEC" /\ m = 4 /\ k = 16 /\ d[1] = 4 /\
        \/ d[2] = 0 /\ d[3] = 2 /\ d[4] = 6
        \/ d[2] = 1 /\ d[3] = 7 /\ d[4] = 5
        \/ d[2] = 4 /\ d[3] = 0 /\ d[4] = 5
        \/ d[2] = 5 /\ d[3] = 0 /\ d[4] = 8
        \/ d[2] = 8 /\ d[3] = 4 /\ d[4] = 4
        \/ d[2] = 9 /\ d[3] = 1 /\ d[4] \in {3, 7}
    \/ n = "MAESTRO" /\ m = 2 /\ k \in 12 .. 19 /\ d[1] = 5 /\ d[2] \in 6 .. 9
    \/ /\ n = "MAESTRO" /\ m = 2 /\ k \in 12 .. 19
       /\ d[1] = 6 /\ d[2] \in {1, 3, 6, 7, 8, 9}
    \/ n = "CUP" /\ m = 2 /\ k \in 16 .. 19 /\ d[1] = 6 /\ d[2] = 2
    \/ n = "DISC" /\ m = 2 /\ k = 16 /\ d[1] = 6 /\ d[2] \in {0, 4, 5}
    \/ n = "INTPAY" /\ m = 3 /\ k \in 16 .. 19 /\ d[1] = 6 /\ d[2] = 3 /\ d[3] = 6
    \/ n = "INSTAP" /\ m = 3 /\ k = 16 /\ d[1] = 6 /\ d[2] = 3 /\ d[3] \in 7 .. 9

(* The values of the first four characters, and the rows that fit. *)
Four == [1 .. 4 -> Int]
Fit(d, k) == {r \in Issues : k \in r[2] /\ SubSeq(d, 1, Len(r[1])) = r[1]}

(* What a string of four begins with. *)
LEMMA Begins ==
    ASSUME NEW d \in Four, NEW a, NEW b, NEW c, NEW e
    PROVE  /\ SubSeq(d, 1, 1) = <<a>> <=> d[1] = a
           /\ SubSeq(d, 1, 2) = <<a, b>> <=> d[1] = a /\ d[2] = b
           /\ SubSeq(d, 1, 3) = <<a, b, c>> <=> d[1] = a /\ d[2] = b /\ d[3] = c
           /\ SubSeq(d, 1, 4) = <<a, b, c, e>>
                <=> d[1] = a /\ d[2] = b /\ d[3] = c /\ d[4] = e
<1>1. d = [i \in 1 .. 4 |-> d[i]] /\ [i \in 1 .. 4 |-> d[i]] \in Seq(Int)
  BY DEF Four
<1>2. d \in Seq(Int) /\ Len(d) = 4
  <2>1. d \in Seq(Int)
    BY <1>1
  <2>2. Len(d) = 4
    BY <2>1 DEF Four
  <2> QED BY <2>1, <2>2
<1>3. \A m \in 1 .. 4 : SubSeq(d, 1, m) = [i \in 1 .. m |-> d[i]]
  BY <1>2
<1> DEFINE f1 == SubSeq(d, 1, 1)
           f2 == SubSeq(d, 1, 2)
           f3 == SubSeq(d, 1, 3)
           f4 == SubSeq(d, 1, 4)
<1>4. /\ f1 = [i \in 1 .. 1 |-> d[i]] /\ f2 = [i \in 1 .. 2 |-> d[i]]
      /\ f3 = [i \in 1 .. 3 |-> d[i]] /\ f4 = [i \in 1 .. 4 |-> d[i]]
  BY <1>3
<1> HIDE DEF f1, f2, f3, f4
<1>5. f1 = <<a>> <=> d[1] = a
  BY <1>4
<1>6. f2 = <<a, b>> <=> d[1] = a /\ d[2] = b
  BY <1>4
<1>7. f3 = <<a, b, c>> <=> d[1] = a /\ d[2] = b /\ d[3] = c
  BY <1>4
<1>8. f4 = <<a, b, c, e>> <=> d[1] = a /\ d[2] = b /\ d[3] = c /\ d[4] = e
  BY <1>4
<1> QED BY <1>5, <1>6, <1>7, <1>8 DEF f1, f2, f3, f4

(* Every row that fits is one of these ... *)
LEMMA FitRow ==
    ASSUME NEW d \in Four, NEW k, NEW r \in Fit(d, k)
    PROVE  Row(d, k, r[3], Len(r[1]))
<1>1. r \in Issues /\ k \in r[2] /\ SubSeq(d, 1, Len(r[1])) = r[1]
  BY DEF Fit
<1> DEFINE p == r[1]
           m == Len(p)
<1>2. ASSUME NEW a, p = <<a>>
      PROVE  m = 1 /\ d[1] = a
  <2>1. Len(p) = 1
    BY <1>2
  <2> QED BY <1>1, <1>2, <2>1, Begins
<1>3. ASSUME NEW a, NEW b, p = <<a, b>>
      PROVE  m = 2 /\ d[1] = a /\ d[2] = b
  <2>1. Len(p) = 2
    BY <1>3
  <2> QED BY <1>1, <1>3, <2>1, Begins
<1>4. ASSUME NEW a, NEW b, NEW c, p = <<a, b, c>>
      PROVE  m = 3 /\ d[1] = a /\ d[2] = b /\ d[3] = c
  <2>1. Len(p) = 3
    BY <1>4
  <2> QED BY <1>1, <1>4, <2>1, Begins
<1>5. ASSUME NEW a, NEW b, NEW c, NEW e, p = <<a, b, c, e>>
      PROVE  m = 4 /\ d[1] = a /\ d[2] = b /\ d[3] = c /\ d[4] = e
  <2>1. Len(p) = 4
    BY <1>5
  <2> QED BY <1>1, <1>5, <2>1, Begins
<1>6. ASSUME r = <<<<3, 4>>, {15}, "AMEX">>
      PROVE  Row(d, k, r[3], Len(r[1]))
  <2>1. r[1] = <<3, 4>> /\ r[2] = {15} /\ r[3] = "AMEX"
    BY <1>6
  <2> QED BY <1>1, <2>1, <1>3 DEF Row
<1>7. ASSUME r = <<<<3, 7>>, {15}, "AMEX">>
      PROVE  Row(d, k, r[3], Len(r[1]))
  <2>1. r[1] = <<3, 7>> /\ r[2] = {15} /\ r[3] = "AMEX"
    BY <1>7
  <2> QED BY <1>1, <2>1, <1>3 DEF Row
<1>8. ASSUME NEW e \in 2 .. 8, r = <<<<3, 5, e>>, {16}, "JCB">>
      PROVE  Row(d, k, r[3], Len(r[1]))
  <2>1. r[1] = <<3, 5, e>> /\ r[2] = {16} /\ r[3] = "JCB"
    BY <1>8
  <2> QED BY <1>1, <2>1, <1>4 DEF Row
<1>9. ASSUME NEW e \in 0 .. 5, r = <<<<3, 0, e>>, {14}, "DC_CB">>
      PROVE  Row(d, k, r[3], Len(r[1]))
  <2>1. r[1] = <<3, 0, e>> /\ r[2] = {14} /\ r[3] = "DC_CB"
    BY <1>9
  <2> QED BY <1>1, <2>1, <1>4 DEF Row
<1>10. ASSUME NEW e \in {0, 6, 8, 9}, r = <<<<3, e>>, {14}, "DC_INTL">>
      PROVE  Row(d, k, r[3], Len(r[1]))
  <2>1. r[1] = <<3, e>> /\ r[2] = {14} /\ r[3] = "DC_INTL"
    BY <1>10
  <2> QED BY <1>1, <2>1, <1>3 DEF Row
<1>11. ASSUME r = <<<< 1 >>, {15}, "UATP">>
      PROVE  Row(d, k, r[3], Len(r[1]))
  <2>1. r[1] = << 1 >> /\ r[2] = {15} /\ r[3] = "UATP"
    BY <1>11
  <2> QED BY <1>1, <2>1, <1>2 DEF Row
<1>12. ASSUME NEW e \in {0, 1}, r = <<<<2, e>>, {15}, "DC_ENROUTE">>
      PROVE  Row(d, k, r[3], Len(r[1]))
  <2>1. r[1] = <<2, e>> /\ r[2] = {15} /\ r[3] = "DC_ENROUTE"
    BY <1>12
  <2> QED BY <1>1, <2>1, <1>3 DEF Row
<1>13. ASSUME NEW e \in 2 .. 7, r = <<<<2, e>>, {16}, "MASTER">>
      PROVE  Row(d, k, r[3], Len(r[1]))
  <2>1. r[1] = <<2, e>> /\ r[2] = {16} /\ r[3] = "MASTER"
    BY <1>13
  <2> QED BY <1>1, <2>1, <1>3 DEF Row
<1>14. ASSUME NEW e \in 0 .. 5, r = <<<<5, e>>, {16}, "MASTER">>
      PROVE  Row(d, k, r[3], Len(r[1]))
  <2>1. r[1] = <<5, e>> /\ r[2] = {16} /\ r[3] = "MASTER"
    BY <1>14
  <2> QED BY <1>1, <2>1, <1>3 DEF Row
<1>15. ASSUME r = <<<< 4 >>, {13, 16}, "VISA">>
      PROVE  Row(d, k, r[3], Len(r[1]))
  <2>1. r[1] = << 4 >> /\ r[2] = {13, 16} /\ r[3] = "VISA"
    BY <1>15
  <2> QED BY <1>1, <2>1, <1>2 DEF Row
<1>16. ASSUME r = <<<<4, 0, 2, 6>>, {16}, "VELEC">>
      PROVE  Row(d, k, r[3], Len(r[1]))
  <2>1. r[1] = <<4, 0, 2, 6>> /\ r[2] = {16} /\ r[3] = "VELEC"
    BY <1>16
  <2> QED BY <1>1, <2>1, <1>5 DEF Row
<1>17. ASSUME r = <<<<4, 1, 7, 5>>, {16}, "VELEC">>
      PROVE  Row(d, k, r[3], Len(r[1]))
  <2>1. r[1] = <<4, 1, 7, 5>> /\ r[2] = {16} /\ r[3] = "VELEC"
    BY <1>17
  <2> QED BY <1>1, <2>1, <1>5 DEF Row
<1>18. ASSUME r = <<<<4, 4, 0, 5>>, {16}, "VELEC">>
      PROVE  Row(d, k, r[3], Len(r[1]))
  <2>1. r[1] = <<4, 4, 0, 5>> /\ r[2] = {16} /\ r[3] = "VELEC"
    BY <1>18
  <2> QED BY <1>1, <2>1, <1>5 DEF Row
<1>19. ASSUME r = <<<<4, 5, 0, 8>>, {16}, "VELEC">>
      PROVE  Row(d, k, r[3], Len(r[1]))
  <2>1. r[1] = <<4, 5, 0, 8>> /\ r[2] = {16} /\ r[3] = "VELEC"
    BY <1>19
  <2> QED BY <1>1, <2>1, <1>5 DEF Row
<1>20. ASSUME r = <<<<4, 8, 4, 4>>, {16}, "VELEC">>
      PROVE  Row(d, k, r[3], Len(r[1]))
  <2>1. r[1] = <<4, 8, 4, 4>> /\ r[2] = {16} /\ r[3] = "VELEC"
    BY <1>20
  <2> QED BY <1>1, <2>1, <1>5 DEF Row
<1>21. ASSUME r = <<<<4, 9, 1, 3>>, {16}, "VELEC">>
      PROVE  Row(d, k, r[3], Len(r[1]))
  <2>1. r[1] = <<4, 9, 1, 3>> /\ r[2] = {16} /\ r[3] = "VELEC"
    BY <1>21
  <2> QED BY <1>1, <2>1, <1>5 DEF Row
<1>22. ASSUME r = <<<<4, 9, 1, 7>>, {16}, "VELEC">>
      PROVE  Row(d, k, r[3], Len(r[1]))
  <2>1. r[1] = <<4, 9, 1, 7>> /\ r[2] = {16} /\ r[3] = "VELEC"
    BY <1>22
  <2> QED BY <1>1, <2>1, <1>5 DEF Row
<1>23. ASSUME NEW e \in 6 .. 9, r = <<<<5, e>>, 12 .. 19, "MAESTRO">>
      PROVE  Row(d, k, r[3], Len(r[1]))
  <2>1. r[1] = <<5, e>> /\ r[2] = 12 .. 19 /\ r[3] = "MAESTRO"
    BY <1>23
  <2> QED BY <1>1, <2>1, <1>3 DEF Row
<1>24. ASSUME NEW e \in {1, 3, 6, 7, 8, 9}, r = <<<<6, e>>, 12 .. 19, "MAESTRO">>
      PROVE  Row(d, k, r[3], Len(r[1]))
  <2>1. r[1] = <<6, e>> /\ r[2] = 12 .. 19 /\ r[3] = "MAESTRO"
    BY <1>24
  <2> QED BY <1>1, <2>1, <1>3 DEF Row
<1>25. ASSUME r = <<<<6, 2>>, 16 .. 19, "CUP">>
      PROVE  Row(d, k, r[3], Len(r[1]))
  <2>1. r[1] = <<6, 2>> /\ r[2] = 16 .. 19 /\ r[3] = "CUP"
    BY <1>25
  <2> QED BY <1>1, <2>1, <1>3 DEF Row
<1>26. ASSUME NEW e \in {0, 4, 5}, r = <<<<6, e>>, {16}, "DISC">>
      PROVE  Row(d, k, r[3], Len(r[1]))
  <2>1. r[1] = <<6, e>> /\ r[2] = {16} /\ r[3] = "DISC"
    BY <1>26
  <2> QED BY <1>1, <2>1, <1>3 DEF Row
<1>27. ASSUME r = <<<<6, 3, 6>>, 16 .. 19, "INTPAY">>
      PROVE  Row(d, k, r[3], Len(r[1]))
  <2>1. r[1] = <<6, 3, 6>> /\ r[2] = 16 .. 19 /\ r[3] = "INTPAY"
    BY <1>27
  <2> QED BY <1>1, <2>1, <1>4 DEF Row
<1>28. ASSUME NEW e \in 7 .. 9, r = <<<<6, 3, e>>, {16}, "INSTAP">>
      PROVE  Row(d, k, r[3], Len(r[1]))
  <2>1. r[1] = <<6, 3, e>> /\ r[2] = {16} /\ r[3] = "INSTAP"
    BY <1>28
  <2> QED BY <1>1, <2>1, <1>4 DEF Row
<1> QED BY <1>1, <1>6, <1>7, <1>8, <1>9, <1>10, <1>11, <1>12, <1>13, <1>14,
         <1>15, <1>16, <1>17, <1>18, <1>19, <1>20, <1>21, <1>22, <1>23, <1>24,
         <1>25, <1>26, <1>27, <1>28 DEF Issues

(* ... and conversely. *)
LEMMA RowFits ==
    ASSUME NEW d \in Four, NEW k \in Int, NEW n, NEW m, Row(d, k, n, m)
    PROVE  \E r \in Fit(d, k) : r[3] = n /\ Len(r[1]) = m
<1>1. ASSUME NEW p, NEW K, <<p, K, n>> \in Issues, k \in K, Len(p) = m,
             SubSeq(d, 1, m) = p
      PROVE  \E r \in Fit(d, k) : r[3] = n /\ Len(r[1]) = m
  <2> DEFINE r == <<p, K, n>>
  <2>1. r[1] = p /\ r[2] = K /\ r[3] = n
    OBVIOUS
  <2> HIDE DEF r
  <2>2. r \in Issues
    BY <1>1 DEF r
  <2> QED BY <1>1, <2>1, <2>2 DEF Fit
<1>2. CASE n = "JCB" /\ m = 3 /\ k \in {16}
           /\ d[1] = 3 /\ d[2] = 5 /\ d[3] \in 2 .. 8
  <2> DEFINE p == <<3, 5, d[3]>>
  <2>1. Len(p) = 3 /\ SubSeq(d, 1, 3) = p
    BY <1>2, Begins
  <2>2. <<p, {16}, "JCB">> \in Issues
    BY <1>2 DEF Issues
  <2> QED BY <1>1, <1>2, <2>1, <2>2
<1>3. CASE n = "DC_CB" /\ m = 3 /\ k \in {14}
           /\ d[1] = 3 /\ d[2] = 0 /\ d[3] \in 0 .. 5
  <2> DEFINE p == <<3, 0, d[3]>>
  <2>1. Len(p) = 3 /\ SubSeq(d, 1, 3) = p
    BY <1>3, Begins
  <2>2. <<p, {14}, "DC_CB">> \in Issues
    BY <1>3 DEF Issues
  <2> QED BY <1>1, <1>3, <2>1, <2>2
<1>4. CASE n = "DC_INTL" /\ m = 2 /\ k \in {14}
           /\ d[1] = 3 /\ d[2] \in {0, 6, 8, 9}
  <2> DEFINE p == <<3, d[2]>>
  <2>1. Len(p) = 2 /\ SubSeq(d, 1, 2) = p
    BY <1>4, Begins
  <2>2. <<p, {14}, "DC_INTL">> \in Issues
    BY <1>4 DEF Issues
  <2> QED BY <1>1, <1>4, <2>1, <2>2
<1>5. CASE n = "UATP" /\ m = 1 /\ k \in {15}
           /\ d[1] = 1
  <2> DEFINE p == << 1 >>
  <2>1. Len(p) = 1 /\ SubSeq(d, 1, 1) = p
    BY <1>5, Begins
  <2>2. <<p, {15}, "UATP">> \in Issues
    BY <1>5 DEF Issues
  <2> QED BY <1>1, <1>5, <2>1, <2>2
<1>6. CASE n = "DC_ENROUTE" /\ m = 2 /\ k \in {15}
           /\ d[1] = 2 /\ d[2] \in {0, 1}
  <2> DEFINE p == <<2, d[2]>>
  <2>1. Len(p) = 2 /\ SubSeq(d, 1, 2) = p
    BY <1>6, Begins
  <2>2. <<p, {15}, "DC_ENROUTE">> \in Issues
    BY <1>6 DEF Issues
  <2> QED BY <1>1, <1>6, <2>1, <2>2
<1>7. CASE n = "MASTER" /\ m = 2 /\ k \in {16}
           /\ d[1] = 2 /\ d[2] \in 2 .. 7
  <2> DEFINE p == <<2, d[2]>>
  <2>1. Len(p) = 2 /\ SubSeq(d, 1, 2) = p
    BY <1>7, Begins
  <2>2. <<p, {16}, "MASTER">> \in Issues
    BY <1>7 DEF Issues
  <2> QED BY <1>1, <1>7, <2>1, <2>2
<1>8. CASE n = "MASTER" /\ m = 2 /\ k \in {16}
           /\ d[1] = 5 /\ d[2] \in 0 .. 5
  <2> DEFINE p == <<5, d[2]>>
  <2>1. Len(p) = 2 /\ SubSeq(d, 1, 2) = p
    BY <1>8, Begins
  <2>2. <<p, {16}, "MASTER">> \in Issues
    BY <1>8 DEF Issues
  <2> QED BY <1>1, <1>8, <2>1, <2>2
<1>9. CASE n = "VISA" /\ m = 1 /\ k \in {13, 16}
           /\ d[1] = 4
  <2> DEFINE p == << 4 >>
  <2>1. Len(p) = 1 /\ SubSeq(d, 1, 1) = p
    BY <1>9, Begins
  <2>2. <<p, {13, 16}, "VISA">> \in Issues
    BY <1>9 DEF Issues
  <2> QED BY <1>1, <1>9, <2>1, <2>2
<1>10. CASE n = "MAESTRO" /\ m = 2 /\ k \in 12 .. 19
           /\ d[1] = 5 /\ d[2] \in 6 .. 9
  <2> DEFINE p == <<5, d[2]>>
  <2>1. Len(p) = 2 /\ SubSeq(d, 1, 2) = p
    BY <1>10, Begins
  <2>2. <<p, 12 .. 19, "MAESTRO">> \in Issues
    BY <1>10 DEF Issues
  <2> QED BY <1>1, <1>10, <2>1, <2>2
<1>11. CASE n = "MAESTRO" /\ m = 2 /\ k \in 12 .. 19
           /\ d[1] = 6 /\ d[2] \in {1, 3, 6, 7, 8, 9}
  <2> DEFINE p == <<6, d[2]>>
  <2>1. Len(p) = 2 /\ SubSeq(d, 1, 2) = p
    BY <1>11, Begins
  <2>2. <<p, 12 .. 19, "MAESTRO">> \in Issues
    BY <1>11 DEF Issues
  <2> QED BY <1>1, <1>11, <2>1, <2>2
<1>12. CASE n = "CUP" /\ m = 2 /\ k \in 16 .. 19
           /\ d[1] = 6 /\ d[2] = 2
  <2> DEFINE p == <<6, 2>>
  <2>1. Len(p) = 2 /\ SubSeq(d, 1, 2) = p
    BY <1>12, Begins
  <2>2. <<p, 16 .. 19, "CUP">> \in Issues
    BY <1>12 DEF Issues
  <2> QED BY <1>1, <1>12, <2>1, <2>2
<1>13. CASE n = "DISC" /\ m = 2 /\ k \in {16}
           /\ d[1] = 6 /\ d[2] \in {0, 4, 5}
  <2> DEFINE p == <<6, d[2]>>
  <2>1. Len(p) = 2 /\ SubSeq(d, 1, 2) = p
    BY <1>13, Begins
  <2>2. <<p, {16}, "DISC">> \in Issues
    BY <1>13 DEF Issues
  <2> QED BY <1>1, <1>13, <2>1, <2>2
<1>14. CASE n = "INTPAY" /\ m = 3 /\ k \in 16 .. 19
           /\ d[1] = 6 /\ d[2] = 3 /\ d[3] = 6
  <2> DEFINE p == <<6, 3, 6>>
  <2>1. Len(p) = 3 /\ SubSeq(d, 1, 3) = p
    BY <1>14, Begins
  <2>2. <<p, 16 .. 19, "INTPAY">> \in Issues
    BY <1>14 DEF Issues
  <2> QED BY <1>1, <1>14, <2>1, <2>2
<1>15. CASE n = "INSTAP" /\ m = 3 /\ k \in {16}
           /\ d[1] = 6 /\ d[2] = 3 /\ d[3] \in 7 .. 9
  <2> DEFINE p == <<6, 3, d[3]>>
  <2>1. Len(p) = 3 /\ SubSeq(d, 1, 3) = p
    BY <1>15, Begins
  <2>2. <<p, {16}, "INSTAP">> \in Issues
    BY <1>15 DEF Issues
  <2> QED BY <1>1, <1>15, <2>1, <2>2
<1>16. CASE n = "VELEC" /\ m = 4 /\ k \in {16}
           /\ d[1] = 4 /\ d[2] = 0 /\ d[3] = 2 /\ d[4] = 6
  <2> DEFINE p == <<4, 0, 2, 6>>
  <2>1. Len(p) = 4 /\ SubSeq(d, 1, 4) = p
    BY <1>16, Begins
  <2>2. <<p, {16}, "VELEC">> \in Issues
    BY <1>16 DEF Issues
  <2> QED BY <1>1, <1>16, <2>1, <2>2
<1>17. CASE n = "VELEC" /\ m = 4 /\ k \in {16}
           /\ d[1] = 4 /\ d[2] = 1 /\ d[3] = 7 /\ d[4] = 5
  <2> DEFINE p == <<4, 1, 7, 5>>
  <2>1. Len(p) = 4 /\ SubSeq(d, 1, 4) = p
    BY <1>17, Begins
  <2>2. <<p, {16}, "VELEC">> \in Issues
    BY <1>17 DEF Issues
  <2> QED BY <1>1, <1>17, <2>1, <2>2
<1>18. CASE n = "VELEC" /\ m = 4 /\ k \in {16}
           /\ d[1] = 4 /\ d[2] = 4 /\ d[3] = 0 /\ d[4] = 5
  <2> DEFINE p == <<4, 4, 0, 5>>
  <2>1. Len(p) = 4 /\ SubSeq(d, 1, 4) = p
    BY <1>18, Begins
  <2>2. <<p, {16}, "VELEC">> \in Issues
    BY <1>18 DEF Issues
  <2> QED BY <1>1, <1>18, <2>1, <2>2
<1>19. CASE n = "VELEC" /\ m = 4 /\ k \in {16}
           /\ d[1] = 4 /\ d[2] = 5 /\ d[3] = 0 /\ d[4] = 8
  <2> DEFINE p == <<4, 5, 0, 8>>
  <2>1. Len(p) = 4 /\ SubSeq(d, 1, 4) = p
    BY <1>19, Begins
  <2>2. <<p, {16}, "VELEC">> \in Issues
    BY <1>19 DEF Issues
  <2> QED BY <1>1, <1>19, <2>1, <2>2
<1>20. CASE n = "VELEC" /\ m = 4 /\ k \in {16}
           /\ d[1] = 4 /\ d[2] = 8 /\ d[3] = 4 /\ d[4] = 4
  <2> DEFINE p == <<4, 8, 4, 4>>
  <2>1. Len(p) = 4 /\ SubSeq(d, 1, 4) = p
    BY <1>20, Begins
  <2>2. <<p, {16}, "VELEC">> \in Issues
    BY <1>20 DEF Issues
  <2> QED BY <1>1, <1>20, <2>1, <2>2
<1>21. CASE n = "VELEC" /\ m = 4 /\ k \in {16}
           /\ d[1] = 4 /\ d[2] = 9 /\ d[3] = 1 /\ d[4] = 3
  <2> DEFINE p == <<4, 9, 1, 3>>
  <2>1. Len(p) = 4 /\ SubSeq(d, 1, 4) = p
    BY <1>21, Begins
  <2>2. <<p, {16}, "VELEC">> \in Issues
    BY <1>21 DEF Issues
  <2> QED BY <1>1, <1>21, <2>1, <2>2
<1>22. CASE n = "VELEC" /\ m = 4 /\ k \in {16}
           /\ d[1] = 4 /\ d[2] = 9 /\ d[3] = 1 /\ d[4] = 7
  <2> DEFINE p == <<4, 9, 1, 7>>
  <2>1. Len(p) = 4 /\ SubSeq(d, 1, 4) = p
    BY <1>22, Begins
  <2>2. <<p, {16}, "VELEC">> \in Issues
    BY <1>22 DEF Issues
  <2> QED BY <1>1, <1>22, <2>1, <2>2
<1>23. CASE n = "AMEX" /\ m = 2 /\ k \in {15}
           /\ d[1] = 3 /\ d[2] = 4
  <2> DEFINE p == <<3, 4>>
  <2>1. Len(p) = 2 /\ SubSeq(d, 1, 2) = p
    BY <1>23, Begins
  <2>2. <<p, {15}, "AMEX">> \in Issues
    BY <1>23 DEF Issues
  <2> QED BY <1>1, <1>23, <2>1, <2>2
<1>24. CASE n = "AMEX" /\ m = 2 /\ k \in {15}
           /\ d[1] = 3 /\ d[2] = 7
  <2> DEFINE p == <<3, 7>>
  <2>1. Len(p) = 2 /\ SubSeq(d, 1, 2) = p
    BY <1>24, Begins
  <2>2. <<p, {15}, "AMEX">> \in Issues
    BY <1>24 DEF Issues
  <2> QED BY <1>1, <1>24, <2>1, <2>2
<1> QED
  BY <1>2, <1>3, <1>4, <1>5, <1>6, <1>7, <1>8, <1>9, <1>10, <1>11, <1>12,
       <1>13, <1>14, <1>15, <1>16, <1>17, <1>18, <1>19, <1>20, <1>21, <1>22,
       <1>23, <1>24 DEF Row

(* n is the issuer with the longest beginning that fits, "" if none does. *)
Chosen(d, k, n) ==
    IF n = "" THEN \A o, m : ~Row(d, k, o, m)
    ELSE \E m : /\ Row(d, k, n, m)
                /\ \A o, l : Row(d, k, o, l) => (o = n /\ l = m) \/ l < m

(* Then it is the issuer of the table. *)
LEMMA ChosenIssuer ==
    ASSUME NEW d \in Four, NEW k \in Int, NEW n, Chosen(d, k, n)
    PROVE  IssuersOf(d, k) = IF n = "" THEN {} ELSE {n}
<1> DEFINE F == Fit(d, k)
           B == {b \in F : \A o \in F : Len(o[1]) <= Len(b[1])}
<1>1. IssuersOf(d, k) = {r[3] : r \in B}
  BY DEF IssuersOf, Fit
<1> HIDE DEF F
<1>2. \A r \in F : Row(d, k, r[3], Len(r[1]))
  BY FitRow DEF F
<1>3. CASE n = ""
  <2>1. F = {}
    BY <1>2, <1>3 DEF Chosen
  <2> QED BY <1>1, <1>3, <2>1
<1>4. CASE n # ""
  <2>1. PICK m : /\ Row(d, k, n, m)
                 /\ \A o, l : Row(d, k, o, l) => (o = n /\ l = m) \/ l < m
    BY <1>4 DEF Chosen
  <2>2. PICK b \in F : b[3] = n /\ Len(b[1]) = m
    BY <2>1, RowFits DEF F
  <2>3. m \in Nat
    BY <2>1 DEF Row
  <2>4. \A r \in F : (r[3] = n /\ Len(r[1]) = m) \/ Len(r[1]) < m
    BY <1>2, <2>1
  <2>5. \A o \in F : Len(o[1]) <= m
    BY <2>3, <2>4
  <2>6. b \in B
    BY <2>2, <2>5
  <2>7. \A r \in B : r[3] = n
    <3> SUFFICES ASSUME NEW r \in B PROVE r[3] = n
      OBVIOUS
    <3>1. Len(b[1]) <= Len(r[1]) /\ r \in F
      BY <2>2
    <3>2. ~(Len(r[1]) < m)
      BY <2>2, <2>3, <2>4, <3>1
    <3> QED BY <2>4, <3>1, <3>2
  <2> HIDE DEF B
  <2> QED BY <1>1, <1>4, <2>2, <2>6, <2>7
<1> QED BY <1>3, <1>4

-----------------------------------------------------------------------------
(* The cases of the switch of nmck_credcard, by the first four characters  *)
(* of the string.                                                          *)
Drawn == [1 .. 4 -> Digits \cup {Space}]

(* Case '3': a Carte Blanche is also a Diners Club number. *)
LEMMA ThreeChosen ==
    ASSUME NEW p \in Drawn, NEW k \in Int, NEW d \in Four, d[1] = 3,
           d[2] = p[2] - 48, d[3] = p[3] - 48
    PROVE  Chosen(d, k, CaseThree(p, k))
<1>1. p[2] \in Int /\ p[3] \in Int
  BY DEF Drawn, Digits, Space
<1>2. CASE k = 15 /\ p[2] \in {52, 55}
  <2>1. CaseThree(p, k) = "AMEX"
    BY <1>2 DEF CaseThree
  <2>2. Row(d, k, "AMEX", 2) /\ \A o, l : Row(d, k, o, l) => o = "AMEX" /\ l = 2
    BY <1>1, <1>2 DEF Row
  <2> QED BY <2>1, <2>2 DEF Chosen
<1>3. CASE k = 16 /\ p[2] = 53 /\ p[3] \in 50 .. 56
  <2>1. CaseThree(p, k) = "JCB"
    BY <1>3 DEF CaseThree
  <2>2. Row(d, k, "JCB", 3) /\ \A o, l : Row(d, k, o, l) => o = "JCB" /\ l = 3
    BY <1>1, <1>3 DEF Row
  <2> QED BY <2>1, <2>2 DEF Chosen
<1>4. CASE k = 14 /\ p[2] = 48 /\ p[3] \in 48 .. 53
  <2>1. CaseThree(p, k) = "DC_CB"
    BY <1>4 DEF CaseThree
  <2>2. /\ Row(d, k, "DC_CB", 3)
        /\ \A o, l : Row(d, k, o, l) => (o = "DC_CB" /\ l = 3) \/ l < 3
    BY <1>1, <1>4 DEF Row
  <2> QED BY <2>1, <2>2 DEF Chosen
<1>5. CASE /\ k = 14 /\ p[2] \in {48, 54, 56, 57}
           /\ ~(p[2] = 48 /\ p[3] \in 48 .. 53)
  <2>1. CaseThree(p, k) = "DC_INTL"
    BY <1>5 DEF CaseThree
  <2>2. /\ Row(d, k, "DC_INTL", 2)
        /\ \A o, l : Row(d, k, o, l) => o = "DC_INTL" /\ l = 2
    BY <1>1, <1>5 DEF Row
  <2> QED BY <2>1, <2>2 DEF Chosen
<1>6. CASE /\ ~(k = 15 /\ p[2] \in {52, 55})
           /\ ~(k = 16 /\ p[2] = 53 /\ p[3] \in 50 .. 56)
           /\ ~(k = 14 /\ p[2] \in {48, 54, 56, 57})
  <2>1. CaseThree(p, k) = ""
    BY <1>6 DEF CaseThree
  <2>2. \A o, l : ~Row(d, k, o, l)
    BY <1>1, <1>6 DEF Row
  <2> QED BY <2>1, <2>2 DEF Chosen
<1> QED BY <1>2, <1>3, <1>4, <1>5, <1>6

(* Case '6': of 63, two are set apart from Maestro. *)
LEMMA SixChosen ==
    ASSUME NEW p \in Drawn, NEW k \in Int, NEW d \in Four, d[1] = 6,
           d[2] = p[2] - 48, d[3] = p[3] - 48
    PROVE  Chosen(d, k, CaseSix(p, k))
<1>1. p[2] \in Int /\ p[3] \in Int
  BY DEF Drawn, Digits, Space
<1>2. CASE k \in 16 .. 19 /\ p[2] = 50
  <2>1. CaseSix(p, k) = "CUP"
    BY <1>2 DEF CaseSix, Maestro
  <2>2. /\ Row(d, k, "CUP", 2)
        /\ \A o, l : Row(d, k, o, l) => o = "CUP" /\ l = 2
    BY <1>1, <1>2 DEF Row
  <2> QED BY <2>1, <2>2 DEF Chosen
<1>3. CASE k = 16 /\ p[2] \in {48, 52, 53}
  <2>1. CaseSix(p, k) = "DISC"
    BY <1>3 DEF CaseSix, Maestro
  <2>2. /\ Row(d, k, "DISC", 2)
        /\ \A o, l : Row(d, k, o, l) => o = "DISC" /\ l = 2
    BY <1>1, <1>3 DEF Row
  <2> QED BY <2>1, <2>2 DEF Chosen
<1>4. CASE k \in 16 .. 19 /\ p[2] = 51 /\ p[3] = 54
  <2>1. CaseSix(p, k) = "INTPAY"
    BY <1>4 DEF CaseSix, Maestro
  <2>2. /\ Row(d, k, "INTPAY", 3)
        /\ \A o, l : Row(d, k, o, l) => (o = "INTPAY" /\ l = 3) \/ l < 3
    BY <1>1, <1>4 DEF Row
  <2> QED BY <2>1, <2>2 DEF Chosen
<1>5. CASE k = 16 /\ p[2] = 51 /\ p[3] \in 55 .. 57
  <2>1. CaseSix(p, k) = "INSTAP"
    BY <1>5 DEF CaseSix, Maestro
  <2>2. /\ Row(d, k, "INSTAP", 3)
        /\ \A o, l : Row(d, k, o, l) => (o = "INSTAP" /\ l = 3) \/ l < 3
    BY <1>1, <1>5 DEF Row
  <2> QED BY <2>1, <2>2 DEF Chosen
<1>6. CASE /\ k \in 12 .. 19 /\ p[2] \in {49, 51} \cup 54 .. 57
           /\ ~(k \in 16 .. 19 /\ p[2] = 51 /\ p[3] = 54)
           /\ ~(k = 16 /\ p[2] = 51 /\ p[3] \in 55 .. 57)
  <2>1. CaseSix(p, k) = "MAESTRO"
    BY <1>6 DEF CaseSix, Maestro
  <2>2. /\ Row(d, k, "MAESTRO", 2)
        /\ \A o, l : Row(d, k, o, l) => o = "MAESTRO" /\ l = 2
    BY <1>1, <1>6 DEF Row
  <2> QED BY <2>1, <2>2 DEF Chosen
<1>7. CASE /\ ~(k \in 16 .. 19 /\ p[2] = 50)
           /\ ~(k = 16 /\ p[2] \in {48, 52, 53})
           /\ ~(k \in 12 .. 19 /\ p[2] \in {49, 51} \cup 54 .. 57)
  <2>1. CaseSix(p, k) = ""
    BY <1>7 DEF CaseSix, Maestro
  <2>2. \A o, l : ~Row(d, k, o, l)
    BY <1>1, <1>7 DEF Row
  <2> QED BY <2>1, <2>2 DEF Chosen
<1> QED BY <1>2, <1>3, <1>4, <1>5, <1>6, <1>7

(* Case '5'. *)
LEMMA FiveChosen ==
    ASSUME NEW p \in Drawn, NEW k \in Int, NEW d \in Four, d[1] = 5,
           d[2] = p[2] - 48
    PROVE  Chosen(d, k, CaseFive(p, k))
<1>1. p[2] \in Int
  BY DEF Drawn, Digits, Space
<1>2. CASE k \in 12 .. 19 /\ p[2] \in 54 .. 57
  <2>1. CaseFive(p, k) = "MAESTRO"
    BY <1>2 DEF CaseFive, Maestro
  <2>2. /\ Row(d, k, "MAESTRO", 2)
        /\ \A o, l : Row(d, k, o, l) => o = "MAESTRO" /\ l = 2
    BY <1>1, <1>2 DEF Row
  <2> QED BY <2>1, <2>2 DEF Chosen
<1>3. CASE k = 16 /\ p[2] \in 48 .. 53
  <2>1. CaseFive(p, k) = "MASTER"
    BY <1>3 DEF CaseFive, Maestro
  <2>2. /\ Row(d, k, "MASTER", 2)
        /\ \A o, l : Row(d, k, o, l) => o = "MASTER" /\ l = 2
    BY <1>1, <1>3 DEF Row
  <2> QED BY <2>1, <2>2 DEF Chosen
<1>4. CASE /\ ~(k \in 12 .. 19 /\ p[2] \in 54 .. 57)
           /\ ~(k = 16 /\ p[2] \in 48 .. 53)
  <2>1. CaseFive(p, k) = ""
    BY <1>4 DEF CaseFive, Maestro
  <2>2. \A o, l : ~Row(d, k, o, l)
    BY <1>1, <1>4 DEF Row
  <2> QED BY <2>1, <2>2 DEF Chosen
<1> QED BY <1>2, <1>3, <1>4

(* Case '4': Visa Electron has seven beginnings of Visa's. *)
LEMMA FourChosen ==
    ASSUME NEW p \in Drawn, NEW k \in Int, NEW d \in Four,
           \A j \in 1 .. 4 : d[j] = p[j] - 48, d[1] = 4
    PROVE  Chosen(d, k, CaseFour(p, k))
<1>1. p \in Electron <=>
        /\ d[1] = 4
        /\ \/ d[2] = 0 /\ d[3] = 2 /\ d[4] = 6
           \/ d[2] = 1 /\ d[3] = 7 /\ d[4] = 5
           \/ d[2] = 4 /\ d[3] = 0 /\ d[4] = 5
           \/ d[2] = 5 /\ d[3] = 0 /\ d[4] = 8
           \/ d[2] = 8 /\ d[3] = 4 /\ d[4] = 4
           \/ d[2] = 9 /\ d[3] = 1 /\ d[4] \in {3, 7}
  <2>1. \A j \in 1 .. 4 : p[j] \in Int
    BY DEF Drawn, Digits, Space
  <2>3. p \in Electron <=>
          \/ p = <<52, 48, 50, 54>> \/ p = <<52, 49, 55, 53>>
          \/ p = <<52, 52, 48, 53>> \/ p = <<52, 53, 48, 56>>
          \/ p = <<52, 56, 52, 52>> \/ p = <<52, 57, 49, 51>>
          \/ p = <<52, 57, 49, 55>>
    BY DEF Electron
  <2>6. p = <<52, 48, 50, 54>>
          <=> p[1] = 52 /\ p[2] = 48 /\ p[3] = 50 /\ p[4] = 54
    BY DEF Drawn
  <2>7. p = <<52, 49, 55, 53>>
          <=> p[1] = 52 /\ p[2] = 49 /\ p[3] = 55 /\ p[4] = 53
    BY DEF Drawn
  <2>8. p = <<52, 52, 48, 53>>
          <=> p[1] = 52 /\ p[2] = 52 /\ p[3] = 48 /\ p[4] = 53
    BY DEF Drawn
  <2>9. p = <<52, 53, 48, 56>>
          <=> p[1] = 52 /\ p[2] = 53 /\ p[3] = 48 /\ p[4] = 56
    BY DEF Drawn
  <2>10. p = <<52, 56, 52, 52>>
          <=> p[1] = 52 /\ p[2] = 56 /\ p[3] = 52 /\ p[4] = 52
    BY DEF Drawn
  <2>11. p = <<52, 57, 49, 51>>
          <=> p[1] = 52 /\ p[2] = 57 /\ p[3] = 49 /\ p[4] = 51
    BY DEF Drawn
  <2>12. p = <<52, 57, 49, 55>>
          <=> p[1] = 52 /\ p[2] = 57 /\ p[3] = 49 /\ p[4] = 55
    BY DEF Drawn
  <2>4. p \in Electron <=>
          /\ p[1] = 52
          /\ \/ p[2] = 48 /\ p[3] = 50 /\ p[4] = 54
             \/ p[2] = 49 /\ p[3] = 55 /\ p[4] = 53
             \/ p[2] = 52 /\ p[3] = 48 /\ p[4] = 53
             \/ p[2] = 53 /\ p[3] = 48 /\ p[4] = 56
             \/ p[2] = 56 /\ p[3] = 52 /\ p[4] = 52
             \/ p[2] = 57 /\ p[3] = 49 /\ p[4] \in {51, 55}
    BY <2>3, <2>6, <2>7, <2>8, <2>9, <2>10, <2>11, <2>12
  <2>5. \A j \in 1 .. 4 : d[j] = p[j] - 48
    OBVIOUS
  <2> QED BY <2>1, <2>4, <2>5
<1>2. CASE k = 16 /\ p \in Electron
  <2>1. CaseFour(p, k) = "VELEC"
    BY <1>2 DEF CaseFour
  <2>2. /\ Row(d, k, "VELEC", 4)
        /\ \A o, l : Row(d, k, o, l) => (o = "VELEC" /\ l = 4) \/ l < 4
    BY <1>1, <1>2 DEF Row
  <2> QED BY <2>1, <2>2 DEF Chosen
<1>3. CASE k \in {13, 16} /\ ~(k = 16 /\ p \in Electron)
  <2>1. CaseFour(p, k) = "VISA"
    BY <1>3 DEF CaseFour
  <2>2. /\ Row(d, k, "VISA", 1)
        /\ \A o, l : Row(d, k, o, l) => o = "VISA" /\ l = 1
    BY <1>1, <1>3 DEF Row
  <2> QED BY <2>1, <2>2 DEF Chosen
<1>4. CASE k \notin {13, 16}
  <2>1. CaseFour(p, k) = ""
    BY <1>4 DEF CaseFour
  <2>2. \A o, l : ~Row(d, k, o, l)
    BY <1>1, <1>4 DEF Row
  <2> QED BY <2>1, <2>2 DEF Chosen
<1> QED BY <1>2, <1>3, <1>4

(* Case '1'. *)
LEMMA OneChosen ==
    ASSUME NEW p \in Drawn, NEW k \in Int, NEW d \in Four, d[1] = 1
    PROVE  Chosen(d, k, IF k = 15 THEN "UATP" ELSE "")
<1>1. CASE k = 15
  <2>1. Row(d, k, "UATP", 1) /\ \A o, l : Row(d, k, o, l) => o = "UATP" /\ l = 1
    BY <1>1 DEF Row
  <2> QED BY <1>1, <2>1 DEF Chosen
<1>2. CASE k # 15
  <2>1. \A o, l : ~Row(d, k, o, l)
    BY <1>2 DEF Row
  <2> QED BY <1>2, <2>1 DEF Chosen
<1> QED BY <1>1, <1>2

(* No case, or no digit. *)
LEMMA NoneChosen ==
    ASSUME NEW d \in Four, NEW k \in Int, d[1] \notin 1 .. 6
    PROVE  Chosen(d, k, "")
<1>1. \A o, l : ~Row(d, k, o, l)
  BY DEF Row
<1> QED BY <1>1 DEF Chosen

(* Case '2' has two issuers, and runs on into case '3' for the others. *)
LEMMA TwoChosen ==
    ASSUME NEW p \in Drawn, NEW k \in Int, NEW d \in Four, d[1] = 2,
           d[2] = p[2] - 48
    PROVE  \/ CaseTwo(p, k) # "" /\ Chosen(d, k, CaseTwo(p, k))
           \/ CaseTwo(p, k) = CaseThree(p, k) /\ Chosen(d, k, "")
<1>1. p[2] \in Int
  BY DEF Drawn, Digits, Space
<1>2. CASE k = 15 /\ p[2] \in {48, 49}
  <2>1. CaseTwo(p, k) = "DC_ENROUTE"
    BY <1>2 DEF CaseTwo
  <2>2. /\ Row(d, k, "DC_ENROUTE", 2)
        /\ \A o, l : Row(d, k, o, l) => o = "DC_ENROUTE" /\ l = 2
    BY <1>1, <1>2 DEF Row
  <2> QED BY <2>1, <2>2 DEF Chosen
<1>3. CASE k = 16 /\ p[2] \in 50 .. 55
  <2>1. CaseTwo(p, k) = "MASTER"
    BY <1>3 DEF CaseTwo
  <2>2. /\ Row(d, k, "MASTER", 2)
        /\ \A o, l : Row(d, k, o, l) => o = "MASTER" /\ l = 2
    BY <1>1, <1>3 DEF Row
  <2> QED BY <2>1, <2>2 DEF Chosen
<1>4. CASE ~(k = 15 /\ p[2] \in {48, 49}) /\ ~(k = 16 /\ p[2] \in 50 .. 55)
  <2>1. CaseTwo(p, k) = CaseThree(p, k)
    BY <1>4 DEF CaseTwo
  <2>2. \A o, l : ~Row(d, k, o, l)
    BY <1>1, <1>4 DEF Row
  <2> QED BY <2>1, <2>2 DEF Chosen
<1> QED BY <1>2, <1>3, <1>4

(* The switch, when it does not start at '2' ... *)
LEMMA SwitchChosen ==
    ASSUME NEW p \in Drawn, NEW k \in Int, NEW d \in Four,
           \A j \in 1 .. 4 : d[j] = p[j] - 48, p[1] # 50
    PROVE  d[1] # 2 /\ Chosen(d, k, Issuer(p, k))
<1>1. /\ d[1] = p[1] - 48 /\ d[2] = p[2] - 48 /\ d[3] = p[3] - 48
      /\ p[1] \in 48 .. 57 \/ p[1] = 32
  BY DEF Drawn, Digits, Space
<1>2. d[1] # 2
  BY <1>1
<1> DEFINE n == Issuer(p, k)
<1> HIDE DEF n
<1>3. CASE p[1] = 49
  <2>1. n = IF k = 15 THEN "UATP" ELSE ""
    BY <1>3 DEF n, Issuer
  <2>2. d[1] = 1
    BY <1>1, <1>3
  <2>3. Chosen(d, k, n)
    BY <2>1, <2>2, OneChosen
  <2> QED BY <1>2, <2>3 DEF n
<1>4. CASE p[1] = 51
  <2>1. n = CaseThree(p, k)
    BY <1>4 DEF n, Issuer
  <2>2. d[1] = 3
    BY <1>1, <1>4
  <2>3. Chosen(d, k, n)
    BY <1>1, <2>1, <2>2, ThreeChosen
  <2> QED BY <1>2, <2>3 DEF n
<1>5. CASE p[1] = 52
  <2>1. n = CaseFour(p, k)
    BY <1>5 DEF n, Issuer
  <2>2. d[1] = 4
    BY <1>1, <1>5
  <2>3. Chosen(d, k, n)
    BY <2>1, <2>2, FourChosen
  <2> QED BY <1>2, <2>3 DEF n
<1>6. CASE p[1] = 53
  <2>1. n = CaseFive(p, k)
    BY <1>6 DEF n, Issuer
  <2>2. d[1] = 5
    BY <1>1, <1>6
  <2>3. Chosen(d, k, n)
    BY <1>1, <2>1, <2>2, FiveChosen
  <2> QED BY <1>2, <2>3 DEF n
<1>7. CASE p[1] = 54
  <2>1. n = CaseSix(p, k)
    BY <1>7 DEF n, Issuer
  <2>2. d[1] = 6
    BY <1>1, <1>7
  <2>3. Chosen(d, k, n)
    BY <1>1, <2>1, <2>2, SixChosen
  <2> QED BY <1>2, <2>3 DEF n
<1>8. CASE p[1] \notin {49, 50, 51, 52, 53, 54}
  <2>1. n = ""
    BY <1>8 DEF n, Issuer
  <2>2. d[1] \notin 1 .. 6
    BY <1>1, <1>8
  <2>3. Chosen(d, k, n)
    BY <2>1, <2>2, NoneChosen
  <2> QED BY <1>2, <2>3 DEF n
<1> QED BY <1>2, <1>3, <1>4, <1>5, <1>6, <1>7, <1>8 DEF n

(* ... and when it does. *)
LEMMA SwitchFromTwo ==
    ASSUME NEW p \in Drawn, NEW k \in Int, NEW d \in Four,
           \A j \in 1 .. 4 : d[j] = p[j] - 48, p[1] = 50,
           NEW f, f = [d EXCEPT ![1] = 3]
    PROVE  LET n == Issuer(p, k)
           IN  /\ d[1] = 2
               /\ \/ n # "" /\ IssuersOf(d, k) = {n}
                  \/ /\ IssuersOf(d, k) = {}
                     /\ IssuersOf(f, k) = IF n = "" THEN {} ELSE {n}
<1> DEFINE n == Issuer(p, k)
           c == CaseThree(p, k)
<1>1. /\ d[1] = 2 /\ d[2] = p[2] - 48 /\ d[3] = p[3] - 48
  OBVIOUS
<1>2. n = CaseTwo(p, k)
  BY DEF Issuer
<1>3. /\ f \in Four /\ f[1] = 3 /\ f[2] = p[2] - 48 /\ f[3] = p[3] - 48
  BY <1>1 DEF Four
<1>4. Chosen(f, k, c)
  BY <1>3, ThreeChosen
<1> HIDE DEF n
<1>5. (n # "" /\ Chosen(d, k, n)) \/ (n = c /\ Chosen(d, k, ""))
  BY <1>1, <1>2, TwoChosen
<1> HIDE DEF c
<1>6. CASE n # "" /\ Chosen(d, k, n)
  <2>1. IssuersOf(d, k) = IF n = "" THEN {} ELSE {n}
    BY <1>6, ChosenIssuer
  <2> QED BY <1>1, <1>6, <2>1 DEF n
<1>7. CASE n = c /\ Chosen(d, k, "")
  <2>1. IssuersOf(d, k) = {}
    BY <1>7, ChosenIssuer
  <2>2. IssuersOf(f, k) = IF c = "" THEN {} ELSE {c}
    BY <1>3, <1>4, ChosenIssuer
  <2> QED BY <1>1, <1>7, <2>1, <2>2 DEF n
<1> QED BY <1>5, <1>6, <1>7

(* The issuer nmck_credcard finds, for every number of digits and all of   *)
(* the first four characters.                                              *)
LEMMA IssuerFound ==
    ASSUME NEW p \in Drawn, NEW k \in Int, NEW d,
           d = [j \in 1 .. 4 |-> p[j] - 48]
    PROVE  LET own == IssuersOf(d, k)
               iss == IF own = {} /\ d[1] = 2
                      THEN IssuersOf([d EXCEPT ![1] = 3], k) ELSE own
           IN  iss = IF Issuer(p, k) = "" THEN {} ELSE {Issuer(p, k)}
<1>1. d \in Four /\ \A j \in 1 .. 4 : d[j] = p[j] - 48
  BY DEF Four, Drawn, Digits, Space
<1> DEFINE n == Issuer(p, k)
           f == [d EXCEPT ![1] = 3]
           own == IssuersOf(d, k)
           iss == IF own = {} /\ d[1] = 2 THEN IssuersOf(f, k) ELSE own
<1>2. CASE p[1] # 50
  <2>1. d[1] # 2 /\ Chosen(d, k, n)
    BY <1>1, <1>2, SwitchChosen
  <2> HIDE DEF n
  <2>2. own = IF n = "" THEN {} ELSE {n}
    BY <1>1, <2>1, ChosenIssuer
  <2> HIDE DEF own
  <2> QED BY <2>1, <2>2 DEF own, n
<1>3. CASE p[1] = 50
  <2>1. /\ d[1] = 2
        /\ \/ n # "" /\ own = {n}
           \/ own = {} /\ IssuersOf(f, k) = IF n = "" THEN {} ELSE {n}
    BY <1>1, <1>3, SwitchFromTwo
  <2> HIDE DEF own, n, f
  <2>2. iss = IF n = "" THEN {} ELSE {n}
    BY <2>1
  <2> QED BY <2>2 DEF own, n, f
<1> QED BY <1>2, <1>3

(* The issuer that nmck_credcard prints is that of the longest beginning   *)
(* in the table, with the two departures that IssuerTable names, for all   *)
(* card numbers with blanks anywhere; those without one are refused.       *)
THEOREM IssuersFound == Concrete => (Spec => []IssuerTable)
<1> SUFFICES ASSUME Concrete PROVE Spec => []IssuerTable
  OBVIOUS
<1>1. Beside /\ Told => IssuerTable
  <2> SUFFICES ASSUME Beside, Told, scheme = "credcard",
                      NEW x \in Call, Settled(x)
               PROVE  LET k == acc[x][1] + 1
                          digits == [j \in 1 .. 4 |-> acc[x][4][j] - 48]
                          own == IssuersOf(digits, k)
                          iss == IF own = {} /\ digits[1] = 2
                                 THEN IssuersOf([digits EXCEPT ![1] = 3], k)
                                 ELSE own
                      IN  IF iss = {} THEN ret[x] = Unknown
                          ELSE iss = {ret[x].state} /\ ~ret[x].neg
    BY DEF IssuerTable
  <2> DEFINE a == acc[x]
             p == a[4]
             k == a[1] + 1
             d == [j \in 1 .. 4 |-> p[j] - 48]
             own == IssuersOf(d, k)
             iss == IF own = {} /\ d[1] = 2
                    THEN IssuersOf([d EXCEPT ![1] = 3], k) ELSE own
             n == Issuer(p, k)
             v == ret[x]
  <2>1. q \in Nat /\ q > 4
    <3>1. count \in 11 .. 21 /\ q = count + 1
      BY CardFields DEF Beside, Underway, Told, Concrete, S
    <3> QED BY <3>1
  <2>2. Totals(a)
    BY DEF Beside, Reversed, FromTheRight
  <2>3. p \in Seq(Digits \cup {Space}) /\ Len(p) = 4
    <3>1. p \in Seq(Digits \cup {Space}) /\ Len(p) = IF q <= 4 THEN q - 1 ELSE 4
      BY DEF Beside, Remembered
    <3>2. (IF q <= 4 THEN q - 1 ELSE 4) = 4
      BY <2>1
    <3> HIDE DEF p
    <3> QED BY <3>1, <3>2
  <2>4. p \in Drawn
    <3> DEFINE D == Digits \cup {Space}
    <3> HIDE DEF p, D
    <3>1. p \in Seq(D) /\ Len(p) = 4
      BY <2>3 DEF D
    <3>2. p \in [1 .. Len(p) -> D]
      BY <3>1
    <3>3. p \in [1 .. 4 -> D]
      BY <3>1, <3>2, Zenon
    <3> QED BY <3>3 DEF Drawn, D
  <2>5. k \in Int
    BY <2>2 DEF Totals
  <2>6. iss = IF n = "" THEN {} ELSE {n}
    <3> HIDE DEF p, k
    <3> QED BY <2>4, <2>5, IssuerFound
  <2>7. IF n = "" THEN v = Refusal ELSE v.neg = FALSE /\ v.state = n
    <3> DEFINE l == last[x]
    <3>1. /\ l \in Schema["credcard"].checks
          /\ v = Settle("credcard", count, a, l)
      BY DEF Told
    <3> HIDE DEF a, l, v
    <3>2. \/ n = "" /\ Settle("credcard", count, a, l) = Refusal
          \/ /\ n # "" /\ Settle("credcard", count, a, l).neg = FALSE
             /\ Settle("credcard", count, a, l).state = n
      BY <2>2, <3>1, CardMet
    <3> HIDE DEF n
    <3> QED BY <3>1, <3>2
  <2>8. Refusal = Unknown
    BY DEF Refusal, Unknown
  <2> HIDE DEF iss, n, v
  <2>9. IF iss = {} THEN v = Unknown ELSE iss = {v.state} /\ ~v.neg
    BY <2>6, <2>7, <2>8
  <2> QED BY <2>9 DEF iss, v
<1> QED BY <1>1, AlwaysBeside, AlwaysTold, PTL
=============================================================================
