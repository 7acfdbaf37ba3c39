---------------------------- MODULE MCRemainder ----------------------------
(***************************************************************************)
(* The checkers that take remainders, with the parameters of their sources.*)
(***************************************************************************)
EXTENDS Remainder, RemainderSchemes

All == {"iban", "credref", "lei", "bevatid", "luvatid", "frvatid",
        "isni", "istc", "istcPlain", "grvatid"}
MCScheme ==
    [n \in All |->
        CASE n = "iban" -> iban [] n = "credref" -> credref
          [] n = "lei" -> lei [] n = "bevatid" -> bevatid
          [] n = "luvatid" -> luvatid [] n = "frvatid" -> frvatid
          [] n = "isni" -> isni [] n = "istc" -> istc
          [] n = "istcPlain" -> istcPlain [] n = "grvatid" -> grvatid]

\* Belgian numbers with all dots, Greek ones with a blank behind GR, IBANs with
\* all their blanks, ISTCs with more than three (without hyphens, six) digits in
\* front
Long == {"bevatid", "grvatid", "iban", "istc", "istcPlain"}

(* Every letter or digit does the same; the first and the last, which fill *)
(* buf and the sum most, stand for all.  Behind the first characters only  *)
(* the last, for the sum has seen remainders enough by then.               *)
Few(q, C) ==
    LET Letters == 90 \in C
        Ends == IF Letters THEN {48, 57, 90} ELSE C \cap {48, 57, 70}
    IN  CASE Ends = {} -> C
          [] Ends # {} /\ q <= (IF Letters THEN 3 ELSE 9) -> Ends
          [] OTHER -> IF Letters THEN {90} ELSE {57, 70} \cap C

\* two digits where a buffer is needed, one otherwise
MCWide(n) == IF MCScheme[n].buf > 0 THEN 2 ELSE 1
MCPeak(n) == CASE n = "istc" -> 15 [] n = "istcPlain" -> 0 [] OTHER -> 9
\* nines, or F's, all the way, and the greatest remainder once reduced
Peaks(n) ==
    LET f[b \in 0 .. 66] ==
            IF b = 0 THEN 0
            ELSE IF b \in MCScheme[n].reduced THEN MCScheme[n].mod - 1
            ELSE Accumulate(n, f[b - 1], MCPeak(n))
    IN  f
MCMost(n, b) == Peaks(n)[b]
=============================================================================
