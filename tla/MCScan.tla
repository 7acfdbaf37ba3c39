------------------------------- MODULE MCScan -------------------------------
(***************************************************************************)
(* The checkers that scan, with the steps of their sources, beside their   *)
(* standards.                                                              *)
(***************************************************************************)
EXTENDS ScanForms
LOCAL INSTANCE SequencesExt

\* what the accumulators of the checkers that detect slips range over
MCAcc(n) ==
    CASE n \in Elevens11 -> One(0 .. 10)
      [] n \in Elevens37 -> One(1 .. 36)
      [] n \in LastCounts -> (0 .. 10) \X (0 .. 9 \cup {15, 111})
      [] n \in IrishForms -> One(0 .. 22)
      [] n \in FromTheRight -> {0, 1} \X (0 .. 9) \X (0 .. 9)
      [] n = "tckimlik" -> (0 .. 9) \X (0 .. 9)

\* Luhn's totals must both differ, with as many digits read; forced
\* divisibility goes by the sum alone; in the systems modulo 11 and 10 the
\* sums 0, to start with, and 10 are the same
MCDiffer(n, a, b) ==
    CASE n \in FromTheRight -> a[1] = b[1] /\ a[2] # b[2] /\ a[3] # b[3]
      [] n \in LastCounts -> a[1] # b[1]
      [] n \in Elevens11 -> a[1] % 10 # b[1] % 10
      [] OTHER -> a # b

\* the positions that are not weighed
MCTurn(n, k) ==
    CASE n \in Elevens11 \cup Elevens37 \cup {"luhn"} -> 1
      [] n = "isin" -> IF k <= 2 THEN 1 ELSE 3
      [] n = "tckimlik" -> IF k % 2 = 1 THEN 1 ELSE 2
      [] OTHER -> k

(* Every string; but for the slips, where what else is in the string does  *)
(* not matter, one character for all.  Of credit card numbers the first    *)
(* two characters and few of the third and fourth are enough to meet every *)
(* issuer, and blanks among them; of the digits around the first check     *)
(* character of visan, few that reach every sum.                           *)
MCTyped(n, k, s) ==
    LET C == Schema[n].chars[k]
    IN  IF n = "credcard"
        THEN CASE k <= 2 -> C
               [] k = 3 -> {Space, 48, 50, 54, 55}
               [] k = 4 -> {54}
               [] OTHER -> {53}
        ELSE IF n = "visan" /\ k # 17
        THEN IF k \in 18 .. 24 THEN {53} ELSE {48, 57, 70, 97}
        ELSE IF s = "never" THEN C
        ELSE C \cap IF 55 \in C THEN {55} ELSE {77}

\* the patterns of these let through strings the checkers find too long
MCMisfit == {"imeisv", "ievatidW"}

(* The accumulators and views that strings lead to, from one position to   *)
(* the next.                                                               *)
MCMeets ==
    [n \in Names |->
        LET Word(k) == IF Schema[n].catches # {} THEN Schema[n].chars[k]
                                                 ELSE MCTyped(n, k, "never")
            On(k, B) == {<<Take(n, b[1], k, c), DocStep(n, b[2], k, c)>> :
                            b \in B, c \in Word(k)}
        IN  FoldLeft(LAMBDA all, k : Append(all, On(k, all[k])),
                     <<{<<Schema[n].start, DocStart(n)>>}>>,
                     [k \in DOMAIN Schema[n].chars |-> k])]
MCMeet(n, k) == MCMeets[n][k]
=============================================================================
