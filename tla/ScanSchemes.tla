---------------------------- MODULE ScanSchemes ----------------------------
(***************************************************************************)
(* The checkers whose accumulator is more than a weighted sum, read off    *)
(* their sources.  Characters are ASCII codes, strings of them sequences.  *)
(* Sums are kept reduced here: they stay below 10^4 in the code, and only  *)
(* their residues are used in the end.                                     *)
(*                                                                         *)
(* Fields of a scheme:                                                     *)
(*   kind    how it accumulates, see Step                                  *)
(*   lens    lengths the checker admits                                    *)
(*   counts  how many characters the loop uses in the strings that the     *)
(*           recogniser lets through                                       *)
(*   extra   how many more there are before the last: prefix, separators   *)
(*   chars   per position: the characters accepted                         *)
(*   typos   per position: those that are mistaken for each other          *)
(*   start   the accumulator at the start                                  *)
(*   checks  the strings the recogniser admits in the place of the check   *)
(*           characters, <<>> alone if they are not compared               *)
(*   catches the slips it is made to detect: "wrong" characters, "swap"s   *)
(*   blind   but for swaps of these                                        *)
(***************************************************************************)
EXTENDS Schemes

CONSTANT LuhnCounts     \* lengths of the strings given to nmck_luhn
ASSUME LuhnAssumption == LuhnCounts \subseteq 2 .. 100
LuhnLongest == CHOOSE m \in LuhnCounts : \A c \in LuhnCounts : c <= m

Lower == 97 .. 122
Space == 32
Placeholders == {63, 95}        \* '?', '_'

One(C) == {<<c>> : c \in C}
Two(C) == {<<c, d>> : c, d \in C}
Alike(D) == {{48 + d[1], 48 + d[2]} : d \in D}

\* c ^ '0'
Xor0(c) == CASE c \in Digits -> c - 48 [] c = 63 -> 15 [] c = 95 -> 111

\* nmck_t: the sign, the characters and what else is in the upper bits, the
\* lowest bit
Verdict(chars, state, wrong) ==
    [neg |-> FALSE, chars |-> chars, state |-> state, wrong |-> wrong]
Refusal == [neg |-> TRUE, chars |-> <<>>, state |-> "", wrong |-> TRUE]
Compare(chars, l) == Verdict(chars, "", chars # l)

Usual == [extra |-> {0}, checks |-> {<<>>}, catches |-> {}, blind |-> {},
          mod |-> 11]
Reads(n, C) == [counts |-> {n}, chars |-> Rep(n, C), typos |-> Rep(n, C)]

-----------------------------------------------------------------------------
(* ISO 7064 hybrid systems *)

\* sum += c; sum = (sum + 9) % 10 + 1; sum *= 2; sum %= 11
Mod11_10(s, v) == ((((s + v + 9) % 10) + 1) * 2) % 11

Hybrid10 == [kind |-> "mod11,10", checks |-> One(Digits \cup Placeholders),
             catches |-> {"wrong"}] ++ Usual

devatid == [lens |-> 9 .. 14, extra |-> 0 .. 5, start |-> <<10>>]
           ++ Reads(8, Digits) ++ Hybrid10
oib == [lens |-> 11 .. 13, extra |-> {0, 2}, start |-> <<0>>]
       ++ Reads(10, Digits) ++ Hybrid10
idnr == [lens |-> 11 .. 14, extra |-> 0 .. 3, start |-> <<0>>]
        ++ Reads(10, Digits) ++ Hybrid10

\* if ((sum += c) > 36) sum -= 36; sum *= 2; sum %= 37
Mod37_36(s, v) == ((IF s + v > 36 THEN s + v - 36 ELSE s + v) * 2) % 37

cb36(c) == IF c \in Digits THEN c - 48 ELSE c - 55
b36c(r) == IF r < 10 THEN Digit(r) ELSE r + 55

grid == [kind |-> "mod37,36", lens |-> 0 .. 99, extra |-> 0 .. 3,
         start |-> <<36>>,
         checks |-> One(Digits \cup Upper \cup Placeholders),
         catches |-> {"wrong"}] ++ Reads(17, Digits \cup Upper) ++ Usual

\* hexadecimal digits are read in either case
Hex == Digits \cup (65 .. 70)
chex(c) == cb36(IF c \in Lower THEN c - 32 ELSE c)
IsanChecks == Digits \cup Upper \cup Lower \cup Placeholders

isan == [kind |-> "mod37,36", lens |-> 16 .. 99, extra |-> 0 .. 9,
         counts |-> {16}, chars |-> Rep(16, Hex \cup (97 .. 102)),
         typos |-> Rep(16, Hex), start |-> <<36>>,
         checks |-> One(IsanChecks), catches |-> {"wrong"}] ++ Usual

\* with a version: the first check character, then eight digits; the
\* accumulator also holds what the first check character should be, and
\* whether it is not
visan == [kind |-> "isan", lens |-> 16 .. 99, extra |-> 0 .. 12,
          counts |-> {25},
          chars |-> Rep(16, Hex \cup (97 .. 102)) \o <<IsanChecks>>
                    \o Rep(8, Hex \cup (97 .. 102)),
          typos |-> Rep(16, Hex) \o <<Upper>> \o Rep(8, Hex),
          start |-> <<36, 0, FALSE>>, checks |-> One(IsanChecks)] ++ Usual
isanStep(a, k, c) ==
    IF k = 17 THEN <<a[1], b36c(37 - a[1]), c # b36c(37 - a[1])>>
              ELSE <<Mod37_36(a[1], chex(c)), a[2], a[3]>>
isanFinish(a, l) ==
    LET chk == b36c(37 - a[1])
    IN  Verdict(<<a[2], chk>>, "", a[3] \/ <<chk>> # l)

-----------------------------------------------------------------------------
(* Weighted sums that are made divisible by eleven, and others that keep   *)
(* the last or the first character, too                                    *)

Weigh(s, w, v, m) == (s + w * v) % m

tfn == [kind |-> "last", lens |-> 8 .. 11, counts |-> {8, 9},
        extra |-> {0, 1, 2}, chars |-> Rep(9, Digits),
        typos |-> Rep(9, Digits), w |-> <<1, 4, 3, 7, 5, 8, 6, 9, 10>>,
        start |-> <<0, 0>>] ++ Usual

tfnFinish(m, a) ==
    LET sum == IF a[1] = 0 THEN 0
               ELSE (a[1] + IF m = 9 THEN a[2] ELSE 2 * a[2] + 2) % 11
    IN  Verdict(<<Digit(sum)>>, "", sum > 0)

\* the placeholder is weighed like a digit
Eight == [kind |-> "last", lens |-> 8 .. 11, counts |-> {8}, extra |-> {0, 2},
          chars |-> Rep(7, Digits) \o <<Digits \cup Placeholders>>,
          typos |-> Rep(8, Digits), start |-> <<0, 0>>,
          catches |-> {"wrong", "swap"}] ++ Usual
dkvatid == [w |-> <<2>> \o Down(7, 7)] ++ Eight
\* w = (w + 11 * (w & 1)) / 2
fiWeight[k \in 1 .. 8] ==
    IF k = 1 THEN 7
    ELSE LET w == fiWeight[k - 1] IN (w + 11 * (w % 2)) \div 2
fivatid == [w |-> [k \in 1 .. 8 |-> fiWeight[k]]] ++ Eight

ForceDivisibility(a) ==
    IF a[1] = 0 THEN Verdict(<<>>, "", FALSE)
    ELSE Verdict(<<Digit((a[2] + (11 - a[1])) % 11)>>, "", TRUE)

\* two check digits, taken together; up to three more digits may follow
ukvatid == [kind |-> "first", lens |-> 9 .. 99, extra |-> 0 .. 9, mod |-> 97,
            start |-> <<0, 0>>, w |-> Down(7, 8) \o <<10, 1>>]
           ++ Reads(9, Digits) ++ Usual
ukFinish(a) == Verdict(<<>>, "", ~(a[1] = 0 \/ (a[2] # 0 /\ a[1] = 42)))

\* "WABCDEFGHIJKLMNOPQRSTUV"
Irish(r) == IF r = 0 THEN 87 ELSE 64 + r
FromIrish(c) == CASE c \in Digits -> c - 48 [] c = 87 -> 0
                  [] c \in 65 .. 86 -> c - 64 [] OTHER -> 0
Ireland == [kind |-> "sum", mod |-> 23, start |-> <<0>>,
            lens |-> 8 .. 12, extra |-> {0, 2, 3},
            checks |-> One(Upper \cup Placeholders),
            catches |-> {"wrong", "swap"}] ++ Usual
ievatid == [w |-> Down(7, 8)] ++ Reads(7, Digits) ++ Ireland
\* the scheme of 2013, with a letter before the check character
ievatid9 == [w |-> Down(7, 8) \o <<9>>, counts |-> {8},
             chars |-> Rep(7, Digits) \o <<65 .. 87>>,
             typos |-> Rep(7, Digits) \o <<65 .. 87>>] ++ Ireland
\* very old ones: something else than a digit in the second place
ievatidOld == [w |-> <<2, 0>> \o Down(5, 9), counts |-> {7},
               chars |-> <<Digits, Upper \cup {42, 43}>> \o Rep(5, Digits),
               typos |-> <<Digits, {}>> \o Rep(5, Digits)] ++ Ireland

\* the W that may follow the check character is taken for it: the letter is
\* weighed, the check character itself is not looked at; and in an old one,
\* where a digit is read in its place, no character will do
WithW == [checks |-> {<<87>>}, catches |-> {}] ++ Ireland
ievatidW == [w |-> Down(7, 8) \o <<9, 0>>, counts |-> {9},
             chars |-> Rep(7, Digits)
                       \o <<65 .. 87, Upper \cup Placeholders>>,
             typos |-> Rep(9, {})] ++ WithW
ievatidOldW == [w |-> ievatidOld.w \o <<4>>, counts |-> {8},
                chars |-> ievatidOld.chars \o <<{}>>,
                typos |-> Rep(8, {})] ++ WithW

-----------------------------------------------------------------------------
(* Luhn's sum: dbl and one are kept for both parities, since only after    *)
(* the loop it is known which digits are doubled.  The accumulator has the *)
(* number of digits and the two totals                                     *)
(*     dbl[k ^ 1] / 2 + dbl[k] + one[k]  for k = 0, 1                      *)
(* between which the code then decides.                                    *)

LuhnDouble(v) == 2 * v + (IF 2 * v >= 10 THEN 1 ELSE 0)
LuhnStep(a, v, period) ==
    LET even == a[1] % 2 = 0
    IN  <<(a[1] + 1) % period,
          (a[2] + IF even THEN LuhnDouble(v) ELSE v) % 10,
          (a[3] + IF even THEN v ELSE LuhnDouble(v)) % 10>>
Total(a, k) == IF k % 2 = 0 THEN a[2] ELSE a[3]

luhn == [kind |-> "luhn", lens |-> 2 .. 100, counts |-> LuhnCounts,
         chars |-> Rep(LuhnLongest, Digits),
         typos |-> Rep(LuhnLongest, Digits),
         start |-> <<0, 0, 0>>,
         catches |-> {"wrong", "swap"}, blind |-> Alike({<<0, 9>>})] ++ Usual
luhnFinish(a) ==
    IF Total(a, a[1]) = 0 THEN Verdict(<<>>, "", FALSE) ELSE Refusal

\* letters are two digits
isinDigits(c) == CASE c \in Digits -> <<c - 48>>
                   [] c \in 65 .. 74 -> <<1, c - 65>>
                   [] c \in 75 .. 84 -> <<2, c - 75>>
                   [] c \in 85 .. 90 -> <<3, c - 85>>
isin == [kind |-> "isin", lens |-> {12}, counts |-> {11},
         chars |-> <<Upper, Upper>> \o Rep(9, Digits \cup Upper),
         typos |-> <<{}, {}>> \o Rep(9, Digits), start |-> <<0, 0, 0>>,
         checks |-> One(Digits \cup Placeholders),
         catches |-> {"wrong", "swap"}, blind |-> Alike({<<0, 9>>})] ++ Usual
isinStep(a, c) ==
    LET e == isinDigits(c)
        b == LuhnStep(a, e[1], 2)
    IN  IF Len(e) = 1 THEN b ELSE LuhnStep(b, e[2], 2)
isinFinish(a, l) ==
    Compare(<<Digit((10000 - Total(a, a[1] + 1)) % 10)>>, l)

\* the raw characters are read: blanks are skipped, but the issuer is found
\* by the first four of the string as it is
credcard == [kind |-> "credcard", lens |-> 12 .. 22, counts |-> 11 .. 21,
             chars |-> Rep(21, Digits \cup {Space}), typos |-> Rep(21, {}),
             start |-> <<0, 0, 0, <<>>>>,
             checks |-> One(Digits \cup {Space})] ++ Usual
credcardStep(a, c) ==
    LET pre == IF Len(a[4]) < 4 THEN Append(a[4], c) ELSE a[4]
    IN  IF c = Space THEN <<a[1], a[2], a[3], pre>>
        ELSE Append(LuhnStep(a, c - 48, 100), pre)

\* the switch over the first characters; case '2' runs on into case '3'
CaseThree(p, k) ==
    IF k = 15 /\ p[2] \in {52, 55} THEN "AMEX"
    ELSE IF k = 16 /\ p[2] = 53 /\ p[3] \in 50 .. 56 THEN "JCB"
    ELSE IF k = 14 /\ p[2] = 48 /\ p[3] \in 48 .. 53 THEN "DC_CB"
    ELSE IF k = 14 /\ p[2] \in {48, 54, 56, 57} THEN "DC_INTL"
    ELSE ""
CaseTwo(p, k) ==
    IF k = 15 /\ p[2] \in {48, 49} THEN "DC_ENROUTE"
    ELSE IF k = 16 /\ p[2] \in 50 .. 55 THEN "MASTER"
    ELSE CaseThree(p, k)
Electron == {<<52, 48, 50, 54>>, <<52, 49, 55, 53>>, <<52, 52, 48, 53>>,
             <<52, 53, 48, 56>>, <<52, 56, 52, 52>>, <<52, 57, 49, 51>>,
             <<52, 57, 49, 55>>}
CaseFour(p, k) ==
    IF k = 16 /\ p \in Electron THEN "VELEC"
    ELSE IF k \in {13, 16} THEN "VISA"
    ELSE ""
Maestro(k) == IF k \in 12 .. 19 THEN "MAESTRO" ELSE ""
CaseFive(p, k) ==
    IF p[2] \in 54 .. 57 THEN Maestro(k)
    ELSE IF k = 16 /\ p[2] \in 48 .. 53 THEN "MASTER"
    ELSE ""

\* mutation: the ranges of 63 in the order of the switch, Maestro first
CaseSixEager(p, k) ==
    CASE p[2] = 50 -> IF k \in 16 .. 19 THEN "CUP" ELSE ""
      [] p[2] \in {48, 52, 53} -> IF k = 16 THEN "DISC" ELSE ""
      [] p[2] \in {49, 51} \cup 54 .. 57 -> Maestro(k)
      [] OTHER -> ""

CaseSix(p, k) ==
    CASE p[2] = 50 -> IF k \in 16 .. 19 THEN "CUP" ELSE ""
      [] p[2] \in {48, 52, 53} -> IF k = 16 THEN "DISC" ELSE ""
      [] p[2] = 51 -> IF k \in 16 .. 19 /\ p[3] = 54 THEN "INTPAY"
                      ELSE IF k = 16 /\ p[3] \in 55 .. 57 THEN "INSTAP"
                      ELSE Maestro(k)
      [] p[2] \in {49} \cup 54 .. 57 -> Maestro(k)
      [] OTHER -> ""

Issuer(p, k) ==
    CASE p[1] = 49 -> IF k = 15 THEN "UATP" ELSE ""
      [] p[1] = 50 -> CaseTwo(p, k)
      [] p[1] = 51 -> CaseThree(p, k)
      [] p[1] = 52 -> CaseFour(p, k)
      [] p[1] = 53 -> CaseFive(p, k)
      [] p[1] = 54 -> CaseSix(p, k)
      [] OTHER -> ""

credcardFinish(a, l) ==
    LET k == a[1] + 1
        iss == Issuer(a[4], k)
        sum == Digit((100000 - Total(a, k)) % 10)
    IN  IF iss = "" THEN Refusal ELSE Verdict(<<sum>>, iss, <<sum>> # l)

-----------------------------------------------------------------------------
(* Two sums *)

TwoChecks == Two(Digits) \cup Two(Placeholders)
Twice == [kind |-> "pair", start |-> <<0, 0>>, checks |-> TwoChecks] ++ Usual

tckimlik == [lens |-> {11}, mod |-> 10, w |-> From(9, 7, 9), u |-> Rep(9, 1),
             catches |-> {"wrong", "swap"},
             blind |-> Alike({<<a, a + 5>> : a \in 0 .. 4})]
            ++ Reads(9, Digits) ++ Twice
tckimlikFinish(a, l) ==
    Compare(<<Digit(a[1]), Digit((a[2] + a[1]) % 10)>>, l)

cpf == [lens |-> 11 .. 14, extra |-> 0 .. 3, w |-> Up(9, 1),
        u |-> Up(9, 0)] ++ Reads(9, Digits) ++ Twice
titulo_eleitoral == [lens |-> 12 .. 15, extra |-> 0 .. 3,
                     w |-> Up(8, 2) \o <<0, 0>>,
                     u |-> Rep(8, 0) \o <<7, 8>>]
                    ++ Reads(10, Digits) ++ Twice
\* s1 %= 11; s1 %= 10; s2 += s1 * 9; s2 %= 11; s2 %= 10
twiceFinish(a, l) ==
    LET s1 == a[1] % 10
        s2 == ((a[2] + s1 * 9) % 11) % 10
    IN  Compare(<<Digit(s1), Digit(s2)>>, l)

-----------------------------------------------------------------------------
(* No check character, but in bic a bit that says something else *)

bic == [kind |-> "code", lens |-> {8, 9, 11, 12}, counts |-> {8, 9, 11, 12},
        chars |-> Rep(6, Upper) \o Rep(6, Digits \cup Upper),
        typos |-> Rep(12, {}), start |-> <<0>>] ++ Usual
bicFinish(m) == Verdict(<<>>, "", m \in {9, 12})

\* the accumulator: whether there was a digit, and which of two names of
\* Commerzbank it still can be
Commerzbank == {<<67, 66, 75, 84, 76, 82>>, <<67, 66, 75, 66, 90, 82>>}
wkn == [kind |-> "wkn", lens |-> {6}, start |-> <<FALSE, Commerzbank>>]
       ++ Reads(6, Digits \cup (Upper \ {73, 79})) ++ Usual
wknFinish(a) ==
    IF a[1] \/ a[2] # {} THEN Verdict(<<>>, "", FALSE) ELSE Refusal

\* an IMEI with two digits of software version instead of a check digit
imeisv == [kind |-> "code", lens |-> 14 .. 18, extra |-> 0 .. 3,
           start |-> <<0>>, checks |-> One(Digits)]
          ++ Reads(15, Digits) ++ Usual

-----------------------------------------------------------------------------
Names == {"devatid", "oib", "idnr", "grid", "isan", "visan", "tfn",
          "dkvatid", "fivatid", "ukvatid", "ievatid", "ievatid9",
          "ievatidOld", "ievatidW", "ievatidOldW", "luhn", "isin",
          "credcard", "tckimlik", "cpf", "titulo_eleitoral", "bic", "wkn",
          "imeisv"}
Schema ==
    [n \in Names |->
        CASE n = "devatid" -> devatid [] n = "oib" -> oib
          [] n = "idnr" -> idnr [] n = "grid" -> grid
          [] n = "isan" -> isan [] n = "visan" -> visan
          [] n = "tfn" -> tfn [] n = "dkvatid" -> dkvatid
          [] n = "fivatid" -> fivatid [] n = "ukvatid" -> ukvatid
          [] n = "ievatid" -> ievatid [] n = "ievatid9" -> ievatid9
          [] n = "ievatidOld" -> ievatidOld
          [] n = "ievatidW" -> ievatidW
          [] n = "ievatidOldW" -> ievatidOldW [] n = "luhn" -> luhn
          [] n = "isin" -> isin [] n = "credcard" -> credcard
          [] n = "tckimlik" -> tckimlik [] n = "cpf" -> cpf
          [] n = "titulo_eleitoral" -> titulo_eleitoral
          [] n = "bic" -> bic [] n = "wkn" -> wkn
          [] n = "imeisv" -> imeisv]

\* the accumulator after the k-th character, c
Take(n, a, k, c) ==
    LET s == Schema[n]
    IN  CASE s.kind = "mod11,10" -> <<Mod11_10(a[1], c - 48)>>
          [] s.kind = "mod37,36" -> <<Mod37_36(a[1], chex(c))>>
          [] s.kind = "isan" -> isanStep(a, k, c)
          [] s.kind = "last" -> <<Weigh(a[1], s.w[k], Xor0(c), s.mod),
                                  Xor0(c)>>
          [] s.kind = "first" -> <<Weigh(a[1], s.w[k], Xor0(c), s.mod),
                                   IF k = 1 THEN Xor0(c) ELSE a[2]>>
          [] s.kind = "sum" -> <<Weigh(a[1], s.w[k], FromIrish(c), s.mod)>>
          [] s.kind = "luhn" -> LuhnStep(a, c - 48, 2)
          [] s.kind = "isin" -> isinStep(a, c)
          [] s.kind = "credcard" -> credcardStep(a, c)
          [] s.kind = "pair" -> <<Weigh(a[1], s.w[k], c - 48, s.mod),
                                  Weigh(a[2], s.u[k], c - 48, s.mod)>>
          [] s.kind = "wkn" -> <<a[1] \/ c \in Digits,
                                 {b \in a[2] : b[k] = c}>>
          [] s.kind = "code" -> a

\* the verdict on count characters and the check characters last
Settle(n, m, a, l) ==
    CASE n \in {"devatid", "oib", "idnr"} ->
            Compare(<<Digit((11 - a[1]) % 10)>>, l)
      [] n = "grid" -> Compare(<<b36c(37 - a[1])>>, l)
      \* without a version there is but one place for both
      [] n = "isan" -> Compare(<<b36c(37 - a[1])>>, l)
      [] n = "visan" -> isanFinish(a, l)
      [] n = "tfn" -> tfnFinish(m, a)
      [] n \in {"dkvatid", "fivatid"} -> ForceDivisibility(a)
      [] n = "ukvatid" -> ukFinish(a)
      [] n \in {"ievatid", "ievatid9", "ievatidOld", "ievatidW",
                "ievatidOldW"} -> Compare(<<Irish(a[1])>>, l)
      [] n = "luhn" -> luhnFinish(a)
      [] n = "isin" -> isinFinish(a, l)
      [] n = "credcard" -> credcardFinish(a, l)
      [] n = "tckimlik" -> tckimlikFinish(a, l)
      [] n \in {"cpf", "titulo_eleitoral"} -> twiceFinish(a, l)
      [] n = "bic" -> bicFinish(m)
      [] n = "wkn" -> wknFinish(a)
      [] n = "imeisv" -> Verdict(<<>>, "", FALSE)
=============================================================================
