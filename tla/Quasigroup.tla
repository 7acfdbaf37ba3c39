----------------------------- MODULE Quasigroup -----------------------------
(***************************************************************************)
(* The generic checkers nmck_verhoeff (verhoeff.c), nmck_damm10 and        *)
(* nmck_damm16 (damm.c): fold the digits of the string into prod with the  *)
(* table of a quasigroup, permuting a digit by its position first, and     *)
(* accept if nothing remains.                                              *)
(*                                                                         *)
(* What the schemes are for shows when two strings are checked: Written is *)
(* a number as issued and Typed the same number after at most one slip,    *)
(* a wrong digit or a pair of neighbours confused.  The calls do not share *)
(* anything, so they run in lockstep here.                                 *)
(*                                                                         *)
(* Abstraction: a digit is its value, and a string the sequence of digits  *)
(* met by the loop: from the right for Verhoeff, from the left for Damm.   *)
(***************************************************************************)
EXTENDS Integers

CONSTANTS
    Group,      \* from the name of a checker to its parameters
    Checks      \* the checkers called

\* fields: digit, the values of the digits accepted, 0 among them;
\*   op: d5, damm10 or damm16;  perms: perm, the identity alone for Damm;
\*   turn: the length of perm;  minlen: shorter strings are refused unseen;
\*   lengths: the lengths of the strings;
\*   confused, of neighbours ac typed bd: from <<a, b>> to the <<c, d>>
Digit(k) == Group[k].digit
Confused(k) == Group[k].confused

Step(k, p, j, c) == Group[k].op[p][Group[k].perms[j % Group[k].turn][c]]

ASSUME TableAssumption ==
    \A k \in Checks :
        /\ 0 \in Digit(k) /\ Digit(k) \subseteq Int
        /\ Group[k].turn \in Nat \ {0}
        /\ Group[k].op \in [Digit(k) -> [Digit(k) -> Digit(k)]]
        /\ Group[k].perms
              \in [0 .. Group[k].turn - 1 -> [Digit(k) -> Digit(k)]]
        /\ Group[k].lengths \subseteq Nat /\ Group[k].minlen \in Nat
        /\ Confused(k) \in [Digit(k) \X Digit(k) -> SUBSET (Digit(k) \X Digit(k))]

\* a Latin square, and permutations
ASSUME LatinAssumption ==
    \A k \in Checks :
        /\ \A p, q, c \in Digit(k) : Group[k].op[p][c] = Group[k].op[q][c] => p = q
        /\ \A p, c, d \in Digit(k) : Group[k].op[p][c] = Group[k].op[p][d] => c = d
        /\ \A n \in 0 .. Group[k].turn - 1 : \A c, d \in Digit(k) :
              Group[k].perms[n][c] = Group[k].perms[n][d] => c = d

\* the quasigroups tell neighbours apart, at every position: true of the
\* tables and swaps, and what SlipCaught then needs
Distinguishes ==
    \A k \in Checks : \A n \in 0 .. Group[k].turn - 1 :
    \A p, a, b \in Digit(k) : \A m \in Confused(k)[<<a, b>>] :
        Step(k, Step(k, p, n, a), n + 1, m[1])
            # Step(k, Step(k, p, n, b), n + 1, m[2])

VARIABLES
    check,      \* the checker called
    left,       \* characters the loop has still to read
    j,          \* characters read
    prod,       \* the accumulator of either call
    ret,        \* what either call has returned
    slip,       \* how much of the slip has happened
    due         \* the second digits of a pair about to be confused

vars == <<check, left, j, prod, ret, slip, due>>

Call == {"written", "typed"}
Running == 1        \* not a value these checkers return
Open(x) == ret[x] = Running

Init ==
    /\ check \in Checks
    /\ left \in Group[check].lengths
    /\ j = 0
    /\ prod = [x \in Call |-> 0]
    /\ ret = [x \in Call |-> IF left < Group[check].minlen THEN -1 ELSE Running]
    /\ slip = "none" /\ due = <<0, 0>>

\* what the typist does to the next digit w, which comes out as t
Slips(w, t) ==
    \/ /\ slip # "half" /\ w = t
       /\ UNCHANGED <<slip, due>>
    \/ /\ slip = "none" /\ w # t
       /\ slip' = "full" /\ UNCHANGED due
    \/ /\ slip = "none" /\ left > 1
       /\ due' \in Confused(check)[<<w, t>>]
       /\ slip' = "half"
    \/ /\ slip = "half" /\ due = <<w, t>>
       /\ slip' = "full" /\ UNCHANGED due

Chars(w, t) == [x \in Call |-> IF x = "written" THEN w ELSE t]

\* mutation: j++ is missing, every digit is permuted alike
ReadNoTurn ==
    /\ left > 0 /\ \E x \in Call : Open(x)
    /\ \E w, t \in Digit(check) :
        /\ Slips(w, t)
        /\ prod' = [x \in Call |-> IF Open(x)
                                   THEN Step(check, prod[x], j, Chars(w, t)[x])
                                   ELSE prod[x]]
    /\ left' = left - 1
    /\ UNCHANGED <<check, j, ret>>

\* mutation: the loop stops before the last character
ReadOffByOne ==
    /\ left > 0 /\ \E x \in Call : Open(x)
    /\ \E w, t \in Digit(check) :
        /\ Slips(w, t)
        /\ prod' = [x \in Call |-> IF Open(x) /\ left > 1
                                   THEN Step(check, prod[x], j, Chars(w, t)[x])
                                   ELSE prod[x]]
    /\ left' = left - 1 /\ j' = j + 1
    /\ UNCHANGED <<check, ret>>

Read ==
    /\ left > 0 /\ \E x \in Call : Open(x)
    /\ \E w, t \in Digit(check) :
        /\ Slips(w, t)
        /\ prod' = [x \in Call |-> IF Open(x)
                                   THEN Step(check, prod[x], j, Chars(w, t)[x])
                                   ELSE prod[x]]
    /\ left' = left - 1 /\ j' = j + 1
    /\ UNCHANGED <<check, ret>>

\* a character that is no digit, in either string or in both
Refuse ==
    /\ left > 0
    /\ \E X \in SUBSET {x \in Call : Open(x)} :
        /\ X # {}
        /\ ret' = [x \in Call |-> IF x \in X THEN -1 ELSE ret[x]]
    /\ UNCHANGED <<check, left, j, prod, slip, due>>

\* !prod - 1
Return ==
    /\ left = 0 /\ \E x \in Call : Open(x)
    /\ ret' = [x \in Call |-> IF ~Open(x) THEN ret[x]
                              ELSE IF prod[x] = 0 THEN 0 ELSE -1]
    /\ UNCHANGED <<check, left, j, prod, slip, due>>

Returned ==
    /\ \A x \in Call : ~Open(x)
    /\ UNCHANGED vars

Next == Read \/ Refuse \/ Return \/ Returned

Spec == Init /\ [][Next]_vars

-----------------------------------------------------------------------------
TypeOK ==
    /\ check \in Checks /\ left \in Nat /\ j \in Nat
    /\ prod \in [Call -> Digit(check)]
    /\ ret \in [Call -> {-1, 0, Running}]
    /\ slip \in {"none", "half", "full"} /\ due \in Digit(check) \X Digit(check)

(* The reason a slip shows: a difference, once there, stays to the end.    *)
Apart ==
    (\A x \in Call : ret[x] # -1) =>
        CASE slip = "none" -> prod["written"] = prod["typed"]
          [] slip = "half" -> /\ Step(check, prod["written"], j, due[1])
                                    # Step(check, prod["typed"], j, due[2])
                              /\ left > 0
          [] slip = "full" -> prod["written"] # prod["typed"]

(* A string is accepted only with all its digits folded to nothing. *)
AcceptsZero == \A x \in Call : ret[x] = 0 => prod[x] = 0 /\ left = 0

QInv == TypeOK /\ Apart /\ AcceptsZero

(* The point of the generic Verhoeff and Damm checks: of a number and the  *)
(* same number after one slip, however long it is and wherever it happens, *)
(* at most one is accepted.                                                *)
SlipCaught == slip # "none" => \E x \in Call : ret[x] # 0
=============================================================================
