----------------------------- MODULE Remainder -----------------------------
(***************************************************************************)
(* The checkers that read the string as one long number and compare the    *)
(* remainder with its check characters: nmck_iban, nmck_credref, nmck_lei, *)
(* nmck_isni, nmck_istc and those of some VAT ids.  Numbers have up to     *)
(* sixty digits; the sum lives in a machine word and is reduced now and    *)
(* then.  RemainderSchemes holds what is different between the checkers.   *)
(*                                                                         *)
(* Abstraction: a string is met lazily.  nmck_iban, nmck_credref and       *)
(* nmck_lei expand it to digits in buf first and add them up afterwards;   *)
(* here a digit is added up as soon as it would be in buf.  Separators and *)
(* prefixes only count for the length.                                     *)
(***************************************************************************)
EXTENDS Integers, Sequences

CONSTANTS
    Scheme,     \* from the name of a checker to its parameters, below
    Use,        \* the checkers called
    Typed(_, _),    \* of the characters accepted at a position: those typed
    Misfit,     \* checkers that find strings of their pattern too long
    \* bounds: digits of a character, the greatest digit, and the greatest
    \* sum after so many digits
    Wide(_), Peak(_), Most(_, _)

(* Fields of a scheme:                                                     *)
(*   lens     lengths the checker admits                                   *)
(*   extra    from how many characters the recogniser lets be summed to    *)
(*            how many others: check characters, prefix, separators        *)
(*   val      per position: from the characters accepted to their digits   *)
(*   tails    from what is put behind, digits of the country for IBANs, to *)
(*            the numbers of characters required, none for no country      *)
(*   buf      digits that fit into buf, 0 if there is none                 *)
(*   radix    what the sum is multiplied with                              *)
(*   before   whether a digit is added before that                         *)
(*   reduced  the numbers of digits after which the sum is reduced         *)
(*   mod      the modulus                                                  *)
(*   refuses  whether characters out of place are refused                  *)
(*   bias     what the sum is subtracted from in the end, or 0             *)
(*   answer   from the remainders to the check characters                  *)
(*   check    the check characters the recogniser admits                   *)
(*   documented  from the remainder of the number to those that the scheme *)
(*            documents as right                                           *)
S(n) == Scheme[n]
Counts(n) == DOMAIN S(n).extra

Accumulate(n, x, d) ==
    IF S(n).before THEN (x + d) * S(n).radix ELSE x * S(n).radix + d

ASSUME SchemeAssumption ==
    \A n \in Use :
        /\ Counts(n) \subseteq 0 .. Len(S(n).val)
        /\ \A q \in 1 .. Len(S(n).val) :
            /\ \A c \in DOMAIN S(n).val[q] : S(n).val[q][c] \in Seq(Nat)
            /\ Typed(q, DOMAIN S(n).val[q]) \subseteq DOMAIN S(n).val[q]
        /\ DOMAIN S(n).tails \subseteq Seq(Nat)
        /\ S(n).radix \in Nat /\ S(n).before \in BOOLEAN
        /\ S(n).mod \in Nat \ {0} /\ S(n).bias \in Nat

\* what the sum is after the last digit, in terms of the remainder r
Settled(n, r) == IF S(n).bias = 0 THEN r % S(n).mod
                                  ELSE (S(n).bias - r) % S(n).mod

\* the check characters are the ones documented, remainder by remainder
ASSUME AnswerAssumption ==
    \A n \in Use : \A r \in 0 .. S(n).mod - 1 : \A c \in S(n).check :
        c = S(n).answer[Settled(n, r)] <=> c \in S(n).documented[r]

\* strings with so many characters to be summed can be of a length admitted
Enters(n, m) == \E e \in S(n).extra[m] : m + e \in S(n).lens

\* no such string has more digits, with what is put behind it whether it fits
\* or not, or a greater sum, than what there is room for
Word == 10 ^ 9
Bounded(n) ==
    \A m \in {k \in Counts(n) : Enters(n, k)} : \A t \in DOMAIN S(n).tails :
        LET all == Wide(n) * m + Len(t)
        IN  /\ S(n).buf > 0 => all <= S(n).buf
            /\ \A b \in 0 .. all :
                /\ Most(n, b) \in Nat /\ Most(n, b) < Word
                /\ S(n).bias > 0 => Most(n, b) <= S(n).bias
            /\ \A b \in 1 .. all :
                LET x == Accumulate(n, Most(n, b - 1), Peak(n))
                IN  /\ x < Word
                    /\ Most(n, b) >= IF b \in S(n).reduced THEN S(n).mod - 1
                                     ELSE x
ASSUME BoundAssumption ==
    \A n \in Use :
        /\ Wide(n) \in Nat /\ Peak(n) \in Nat /\ S(n).buf \in Nat
        /\ \A q \in 1 .. Len(S(n).val) : \A c \in DOMAIN S(n).val[q] :
            /\ Len(S(n).val[q][c]) <= Wide(n)
            /\ \A i \in DOMAIN S(n).val[q][c] : S(n).val[q][c][i] <= Peak(n)
        /\ \A t \in DOMAIN S(n).tails : \A i \in DOMAIN t : t[i] <= Peak(n)
        /\ Most(n, 0) \in Nat
        /\ Bounded(n)

\* how the lengths of a pattern and of its checker fit
ASSUME LengthAssumption ==
    \A n \in Use : \A m \in Counts(n) : \A e \in S(n).extra[m] :
        \/ m + e \in S(n).lens
        \/ n \in Misfit /\ \A l \in S(n).lens : m + e > l

VARIABLES
    scheme,     \* the checker called
    pc,
    len,        \* length of the string
    count,      \* characters to be summed in it
    tail,       \* the digits to be put behind
    j,          \* characters read
    pend,       \* digits of the last of them not yet added up
    bsz,        \* digits added up
    sum,        \* the sum
    last,       \* the check characters, once compared
    ret,        \* what the call has returned
    ref         \* observer: the remainder, taken with every digit

vars == <<scheme, pc, len, count, tail, j, pend, bsz, sum, last, ret, ref>>

Unread == <<>>
Running == [neg |-> FALSE, chars |-> Unread, wrong |-> FALSE]
Refusal == [neg |-> TRUE, chars |-> Unread, wrong |-> TRUE]
Conformant == pc = "done" /\ ~ret.neg /\ ~ret.wrong

Init ==
    /\ scheme \in Use
    /\ pc = "enter"
    /\ count \in Counts(scheme)
    /\ len \in {count + e : e \in S(scheme).extra[count]}
    /\ tail \in DOMAIN S(scheme).tails
    /\ j = 0 /\ pend = <<>> /\ bsz = 0 /\ sum = 0
    /\ last = Unread /\ ret = Running
    /\ ref = 0

Refuse ==
    /\ pc' = "done" /\ ret' = Refusal
    /\ UNCHANGED <<scheme, len, count, tail, j, pend, bsz, sum, last, ref>>

\* mutation: the upper limit turned down
EnterStrict ==
    /\ pc = "enter"
    /\ IF /\ len \in S(scheme).lens /\ S(scheme).tails[tail] # {}
          /\ \E l \in S(scheme).lens : len < l
       THEN /\ pc' = "string"
            /\ UNCHANGED <<scheme, len, count, tail, j, pend, bsz, sum, last,
                           ret, ref>>
       ELSE Refuse

Enter ==
    /\ pc = "enter"
    /\ IF len \in S(scheme).lens /\ S(scheme).tails[tail] # {}
       THEN /\ pc' = "string"
            /\ UNCHANGED <<scheme, len, count, tail, j, pend, bsz, sum, last,
                           ret, ref>>
       ELSE Refuse

\* a character that has no place there
Foreign ==
    /\ pc = "string" /\ pend = <<>> /\ j < count
    /\ S(scheme).refuses
    /\ Refuse

\* mutation: a separator taken for granted
ReadSkip ==
    /\ pc = "string" /\ pend = <<>> /\ j < count
    /\ j' = j + 2
    /\ \E c \in Typed(j + 1, DOMAIN S(scheme).val[j + 1]) :
          pend' = S(scheme).val[j + 1][c]
    /\ UNCHANGED <<scheme, pc, len, count, tail, bsz, sum, last, ret, ref>>

Read ==
    /\ pc = "string" /\ pend = <<>> /\ j < count
    /\ j' = j + 1
    /\ \E c \in Typed(j + 1, DOMAIN S(scheme).val[j + 1]) :
          pend' = S(scheme).val[j + 1][c]
    /\ UNCHANGED <<scheme, pc, len, count, tail, bsz, sum, last, ret, ref>>

\* mutation: put behind by either of two loops
AppendTwice ==
    /\ pc = "string" /\ pend = <<>> /\ j = count
    /\ pc' = "length" /\ pend' = tail \o tail
    /\ UNCHANGED <<scheme, len, count, tail, j, bsz, sum, last, ret, ref>>

\* the country's code and 00 for the check digits
Append00 ==
    /\ pc = "string" /\ pend = <<>> /\ j = count
    /\ pc' = "length" /\ pend' = tail
    /\ UNCHANGED <<scheme, len, count, tail, j, bsz, sum, last, ret, ref>>

\* only now the length that the country requires
CheckLength ==
    /\ pc = "length"
    /\ IF count \in S(scheme).tails[tail]
       THEN /\ pc' = "tail"
            /\ UNCHANGED <<scheme, len, count, tail, j, pend, bsz, sum, last,
                           ret, ref>>
       ELSE Refuse

\* mutation: both loops count on, the digit in between is lost
AddSkips ==
    /\ pc \in {"string", "tail"} /\ pend # <<>>
    /\ pend' = Tail(pend)
    /\ bsz' = bsz + 1
    /\ sum' = IF bsz' \in S(scheme).reduced THEN sum % S(scheme).mod
              ELSE Accumulate(scheme, sum, Head(pend))
    /\ ref' = Accumulate(scheme, ref, Head(pend)) % S(scheme).mod
    /\ UNCHANGED <<scheme, pc, len, count, tail, j, last, ret>>

\* mutation: doubled before the digit is added, too
AddDoubled ==
    /\ pc \in {"string", "tail"} /\ pend # <<>>
    /\ pend' = Tail(pend)
    /\ bsz' = bsz + 1
    /\ LET y == IF S(scheme).before THEN 2 * sum ELSE sum
           x == Accumulate(scheme, y, Head(pend))
       IN  sum' = IF bsz' \in S(scheme).reduced THEN x % S(scheme).mod ELSE x
    /\ ref' = Accumulate(scheme, ref, Head(pend)) % S(scheme).mod
    /\ UNCHANGED <<scheme, pc, len, count, tail, j, last, ret>>

Add ==
    /\ pc \in {"string", "tail"} /\ pend # <<>>
    /\ pend' = Tail(pend)
    /\ bsz' = bsz + 1
    /\ LET x == Accumulate(scheme, sum, Head(pend))
       IN  sum' = IF bsz' \in S(scheme).reduced THEN x % S(scheme).mod ELSE x
    /\ ref' = Accumulate(scheme, ref, Head(pend)) % S(scheme).mod
    /\ UNCHANGED <<scheme, pc, len, count, tail, j, last, ret>>

Compare ==
    /\ pc = "tail" /\ pend = <<>>
    /\ last' \in S(scheme).check
    /\ LET c == S(scheme).answer[Settled(scheme, sum)]
       IN  ret' = [neg |-> FALSE, chars |-> c, wrong |-> c # last']
    /\ pc' = "done"
    /\ UNCHANGED <<scheme, len, count, tail, j, pend, bsz, sum, ref>>

Returned == pc = "done" /\ UNCHANGED vars

Next ==
    \/ Enter \/ Foreign \/ Read \/ Append00 \/ CheckLength \/ Add \/ Compare
    \/ Returned

Spec == Init /\ [][Next]_vars
-----------------------------------------------------------------------------
TypeOK ==
    /\ scheme \in Use /\ pc \in {"enter", "string", "length", "tail", "done"}
    /\ count \in Counts(scheme) /\ j \in 0 .. count
    /\ tail \in DOMAIN S(scheme).tails
    /\ pend \in Seq(Nat) /\ bsz \in Nat /\ sum \in Nat /\ ref \in Nat
    /\ ret.neg \in BOOLEAN /\ ret.wrong \in BOOLEAN

(* Between two reductions, and with the next digit just before one, the    *)
(* sum stays below 10^9, hence in 32 bits, the least a uint_fast32_t has;  *)
(* and where it is subtracted from a constant at last it does not exceed   *)
(* that.                                                                   *)
SumFits ==
    /\ sum < Word
    /\ pend # <<>> => Accumulate(scheme, sum, Head(pend)) < Word
    /\ S(scheme).bias > 0 => sum <= S(scheme).bias

(* A letter is two digits: the buffers hold the longest strings of letters *)
(* the recogniser and the first test of the length let through, with what  *)
(* is put behind them; nmck_iban puts it there before it knows whether the *)
(* length is the country's.                                                *)
BufferFits == S(scheme).buf > 0 => bsz + Len(pend) <= S(scheme).buf

(* Recogniser and checker agree on the form: a string that matches the     *)
(* pattern of a scheme, with a country that is listed, is not turned down  *)
(* for its length; but the misfits turn those down that are longest, with  *)
(* all that is optional in them.                                           *)
LengthsAgree ==
    [][pc = "enter" /\ pc' = "done" =>
          \/ S(scheme).tails[tail] = {}
          \/ scheme \in Misfit /\ \A l \in S(scheme).lens : len > l]_vars

(* Wherever the sum is reduced, it is the number's remainder that is kept. *)
SumIsRemainder ==
    /\ scheme \in Use /\ sum \in Nat /\ pend \in Seq(Nat)
    /\ tail \in DOMAIN S(scheme).tails /\ count \in Counts(scheme)
    /\ j \in 0 .. count
    /\ ref = sum % S(scheme).mod

(* A string is conformant if and only if its check characters are the ones *)
(* the scheme documents for the remainder of the whole number, which for   *)
(* ISO 7064 is 1 when they are put in.  A placeholder never is.            *)
AcceptsDocumented ==
    pc = "done" /\ ~ret.neg =>
        (Conformant <=> last \in S(scheme).documented[ref])
=============================================================================
