----------------------------- MODULE Standards -----------------------------
(***************************************************************************)
(* What the numbers of ScanSchemes are documented to be, by the standards  *)
(* and comments their checkers name, in the form given there: from these   *)
(* definitions the arithmetic of the checkers follows, not the other way   *)
(* round.                                                                  *)
(*                                                                         *)
(* A standard keeps a state of its own while a string is read, DocStart    *)
(* and DocStep, and says whether it is right with the check characters c:  *)
(* DocRight.  Sums are kept modulo the standard's modulus.                 *)
(***************************************************************************)
EXTENDS ScanSchemes

Elevens11 == {"devatid", "oib", "idnr"}
Elevens37 == {"grid", "isan", "visan"}
LastCounts == {"tfn", "dkvatid", "fivatid"}
FromTheRight == {"luhn", "isin", "credcard"}
IrishForms == {"ievatid", "ievatid9", "ievatidOld", "ievatidOldW"}

\* ISO 7064 hybrid systems: P = M, then P = 2 * ((P + a) mod M, or M if that
\* is 0) mod M + 1; in the end (P + a) mod M = 1
Hybrid(M, P, v) == (2 * (IF (P + v) % M = 0 THEN M ELSE (P + v) % M)) % (M + 1)

\* '0'..'9' and letters in either case
Value36(c) == CASE c \in Digits -> c - 48
                [] c \in Upper -> c - 55
                [] c \in Lower -> c - 87
Checks36 == Digits \cup Upper \cup Lower
Closes36(P, c) == c \in Checks36 /\ (P + Value36(c)) % 36 = 1

\* Luhn's formula from the right: the sum if the digit read last counts
\* once, and if it counts twice
Twofold(d) == IF d < 5 THEN 2 * d ELSE 2 * d - 9
FromRight(s, d) == <<(d + s[2]) % 10, (Twofold(d) + s[1]) % 10>>

\* weights in the order of the string
DocWeight(n, k) ==
    CASE n = "tfn" -> <<1, 4, 3, 7, 5, 8, 6, 9, 10>>[k]
      [] n = "dkvatid" -> <<2, 7, 6, 5, 4, 3, 2, 1>>[k]
      [] n = "fivatid" -> 2 ^ (8 - k)           \* MOD 11,2
      [] n = "ukvatid" -> <<8, 7, 6, 5, 4, 3, 2, 10, 1>>[k]
      [] n \in IrishForms \cup {"ievatidW"} -> <<8, 7, 6, 5, 4, 3, 2, 9>>[k]

DocStart(n) ==
    CASE n \in Elevens11 -> <<10>>
      [] n \in {"grid", "isan"} -> <<36>>
      [] n = "visan" -> <<36, TRUE, FALSE, 36>>
      [] n \in LastCounts -> <<0, 0, 0>>
      [] n \in FromTheRight -> <<0, 0>>
      [] n \in {"ukvatid", "cpf", "titulo_eleitoral"} -> <<0, 0>>
      [] n = "tckimlik" -> <<0, 0, 0>>
      [] n = "ievatidW" -> <<0, 0>>
      [] n \in IrishForms -> <<0>>
      [] OTHER -> <<>>

DocStep(n, s, k, c) ==
    LET d == c - 48
    IN  CASE n \in Elevens11 -> <<Hybrid(10, s[1], d)>>
          [] n \in {"grid", "isan"} -> <<Hybrid(36, s[1], Value36(c))>>
          \* whether the first check is right, whether it is '0' or small,
          \* and P before it
          [] n = "visan" ->
                IF k = 17
                THEN <<s[1], Closes36(s[1], c), c = 48 \/ c \in Lower, s[1]>>
                ELSE <<Hybrid(36, s[1], Value36(c)), s[2], s[3], s[4]>>
          \* the sum before the last character, the sum, that character
          [] n \in LastCounts ->
                <<s[2], (s[2] + DocWeight(n, k) * d) % 11, c>>
          [] n = "ukvatid" ->
                <<IF k = 1 THEN d ELSE s[1],
                  (s[2] + DocWeight(n, k) * d) % 97>>
          \* two letters: the first weighed, as in test/numchk_01.txt:60
          [] n \in {"ievatid", "ievatid9"} ->
                <<(s[1] + DocWeight(n, k) * FromIrish(c)) % 23>>
          \* the character before the W is the check
          [] n = "ievatidW" ->
                IF k = 9 THEN <<s[1], c>>
                ELSE <<(s[1] + DocWeight(n, k) * FromIrish(c)) % 23, 0>>
          \* the only account of the old form is test/numchk_01.txt:58
          [] n \in {"ievatidOld", "ievatidOldW"} ->
                IF k = 2 THEN s
                ELSE <<(s[1] + (IF k = 1 THEN 2 ELSE 12 - k) * d) % 23>>
          [] n \in {"luhn", "credcard"} ->
                IF c = Space THEN s ELSE FromRight(s, d)
          [] n = "isin" ->
                IF c \in Digits THEN FromRight(s, d)
                ELSE FromRight(FromRight(s, (c - 55) \div 10), (c - 55) % 10)
          \* digits in odd and in even places, and all of them
          [] n = "tckimlik" ->
                <<(s[1] + (IF k % 2 = 1 THEN d ELSE 0)) % 10,
                  (s[2] + (IF k % 2 = 0 THEN d ELSE 0)) % 10,
                  (s[3] + d) % 10>>
          [] n = "cpf" ->
                <<(s[1] + (11 - k) * d) % 11, (s[2] + (12 - k) * d) % 11>>
          [] n = "titulo_eleitoral" ->
                IF k <= 8 THEN <<(s[1] + (10 - k) * d) % 11, 0>>
                ELSE <<s[1], (s[2] + (IF k = 9 THEN 4 ELSE 3) * d) % 11>>
          [] OTHER -> s

\* the Brazilian check digit: eleven minus the rest, 0 for rests below two
Brazilian(x) == IF x % 11 < 2 THEN 0 ELSE 11 - (x % 11)
AreDigits(c) == \A k \in DOMAIN c : c[k] \in Digits

DocRight(n, s, c) ==
    CASE n \in Elevens11 -> c[1] \in Digits /\ (s[1] + c[1] - 48) % 10 = 1
      [] n \in {"grid", "isan"} -> Closes36(s[1], c[1])
      [] n = "visan" -> s[2] /\ Closes36(s[1], c[1])
      [] n \in LastCounts -> s[3] \in Digits /\ s[2] = 0
      [] n = "ukvatid" -> s[2] = 0 \/ (s[1] # 0 /\ s[2] = 42)
      [] n \in IrishForms -> c[1] \in 65 .. 87 /\ s[1] = FromIrish(c[1])
      [] n = "ievatidW" -> s[2] \in 65 .. 87 /\ s[1] = FromIrish(s[2])
      [] n = "luhn" -> s[1] = 0
      [] n \in {"isin", "credcard"} ->
            c[1] \in Digits /\ FromRight(s, c[1] - 48)[1] = 0
      [] n = "tckimlik" ->
            /\ AreDigits(c)
            /\ c[1] - 48 = (7 * s[1] - s[2]) % 10
            /\ c[2] - 48 = (s[3] + c[1] - 48) % 10
      [] n = "cpf" ->
            /\ AreDigits(c)
            /\ c[1] - 48 = Brazilian(s[1])
            /\ c[2] - 48 = Brazilian(s[2] + 2 * (c[1] - 48))
      [] n = "titulo_eleitoral" ->
            /\ AreDigits(c)
            /\ c[1] - 48 = Brazilian(s[1])
            /\ c[2] - 48 = Brazilian(s[2] + 2 * (c[1] - 48))
      [] OTHER -> TRUE

(* Where the checkers are known to depart from this: right strings that    *)
(* they find wrong, and wrong ones that they find right.                   *)
Departs(n, m, s, c) ==
    CASE n \in {"grid", "isan"} ->
            DocRight(n, s, c) /\ (c[1] = 48 \/ c[1] \in Lower)
      [] n = "visan" ->
            DocRight(n, s, c) /\ (s[3] \/ c[1] = 48 \/ c[1] \in Lower)
      [] n = "tfn" -> s[2] # 0 /\ s[1] = IF m = 9 THEN 0 ELSE 9
      [] n \in {"dkvatid", "fivatid"} ->
            (s[3] = 63 /\ s[1] = 7) \/ (s[3] = 95 /\ s[1] = 10)
      \* the W is compared for the check, which is not
      [] n = "ievatidW" -> \/ s[1] = 0 /\ s[2] # 87
                           \/ s[1] # 0 /\ s[2] = Irish(s[1])
      [] n = "bic" -> m \in {9, 12}
      [] OTHER -> FALSE

\* whether the standard is met with the characters c where the check
\* characters are, or, where these are weighed like digits, the last digit
DocCorrected(n, m, s, c) ==
    CASE n \in LastCounts -> (s[1] + DocWeight(n, m) * (c[1] - 48)) % 11 = 0
      [] n = "visan" -> Closes36(s[4], c[1]) /\ Closes36(s[1], c[2])
      [] OTHER -> DocRight(n, s, c)
=============================================================================
