------------------------------ MODULE Schemes ------------------------------
(***************************************************************************)
(* The parameters of the weighted-sum checkers, read off their sources.    *)
(* Characters are ASCII codes.                                             *)
(***************************************************************************)
EXTENDS Integers, Sequences, FiniteSets, TLC

LOCAL Refused == 0

\* the fields of f, and of g what others there are; TLC's own operator for it
\* has no definition that a proof could use
f ++ g == [x \in DOMAIN f \cup DOMAIN g |->
             IF x \in DOMAIN f THEN f[x] ELSE g[x]]

Digits == 48 .. 57
Upper == 65 .. 90
Vowels == {65, 69, 73, 79, 85}
X == 88

\* values: of a digit, and of letters counted on from ten
Dec == [c \in Digits |-> c - 48]
Alnum == [c \in Digits \cup Upper |-> IF c < 65 THEN c - 48 ELSE c - 55]
NoVowel == [c \in (Digits \cup Upper) \ Vowels |-> Alnum[c]]
Only(C, f) == [c \in C |-> f[c]]
Zero(C) == [c \in C |-> 0]

\* n times x; n numbers from a on, or down from a
Rep(n, x) == [k \in 1 .. n |-> x]
Up(n, a) == [k \in 1 .. n |-> a + k - 1]
Down(n, a) == [k \in 1 .. n |-> a - k + 1]
\* a, b, a, b, ... and ..., a, b
From(n, a, b) == [k \in 1 .. n |-> IF k % 2 = 1 THEN a ELSE b]
Till(n, a, b) == [k \in 1 .. n |-> IF (n - k) % 2 = 0 THEN b ELSE a]

\* residues as check characters
Digit(r) == 48 + r
Plain(m) == [r \in 0 .. m - 1 |-> Digit(r)]
Roman == [r \in 0 .. 10 |-> IF r < 10 THEN Digit(r) ELSE X]
NoTen == [r \in 0 .. 10 |-> IF r < 10 THEN Digit(r) ELSE Refused]
TenIsNought == [r \in 0 .. 10 |-> Digit(r % 10)]

\* check characters as values
Values(C) == [c \in C |-> {c - 48}]
RomanValues == [c \in Digits \cup {X} |-> IF c = X THEN {10} ELSE {c - 48}]
NoughtOrTen == [c \in Digits |-> IF c = 48 THEN {0, 10} ELSE {c - 48}]
NoughtForTen == [c \in Digits |-> IF c = 48 THEN {10} ELSE {c - 48}]

\* what most schemes have in common
Common == [extra |-> {0}, style |-> "linear", start |-> 0, bias |-> 0,
           mod |-> 10, base |-> 10, glyph |-> Plain(10), check |-> Digits,
           to |-> 0, doc |-> Dec, denotes |-> Values(Digits),
           lax |-> Zero({}), catches |-> {}, blind |-> {}]

\* Luhn's sum detects wrong digits, and swaps but for 0 and 9
Luhn == [catches |-> {"wrong", "swap"}, blind |-> {{48, 57}}]

\* the sums modulo 11, and 23
Elevens == [mod |-> 11, base |-> 11] ++ Common
TwentyThrees == [mod |-> 23, base |-> 23] ++ Common

-----------------------------------------------------------------------------
nhs == [lens |-> {10}, val |-> Rep(9, Dec), w |-> Up(9, 1),
        glyph |-> NoTen, std |-> Down(10, 10),
        catches |-> {"wrong", "swap"}] ++ Elevens

\* documented: "A-Z \ {I, O} -> 1 - 24", and that a number whose sum is
\* divisible by eleven is not handed out
nhiLetters == Upper \ {73, 79}
nhi == [lens |-> {7},
        val |-> Rep(3, [c \in Upper |-> c - (64 + (IF c > 73 THEN 1 ELSE 0)
                                                + (IF c > 79 THEN 1 ELSE 0))])
                \o Rep(3, Dec),
        w |-> Up(6, 4), glyph |-> TenIsNought,
        std |-> Down(6, 7) \o <<1>>,
        doc |-> [c \in nhiLetters |-> Cardinality({d \in nhiLetters : d <= c})]
                ++ Dec,
        denotes |-> NoughtForTen, lax |-> (48 :> {0})] ++ Elevens

\* "ABCDEFGHJKLMNPQRTUVWXYZ"
upnLetters == <<65, 66, 67, 68, 69, 70, 71, 72, 74, 75, 76, 77, 78, 80, 81,
                82, 84, 85, 86, 87, 88, 89, 90>>
upn == [lens |-> {13}, val |-> Rep(12, Dec), w |-> Up(12, 2),
        glyph |-> [r \in 0 .. 22 |-> upnLetters[r + 1]], check |-> Upper,
        std |-> Up(12, 2) \o <<-1>>,
        denotes |-> [c \in Upper |->
            {r \in 0 .. 22 : upnLetters[r + 1] = c}],
        catches |-> {"wrong", "swap"}] ++ TwentyThrees

abartn == [lens |-> {9}, val |-> Rep(8, Dec), w |-> <<7, 3, 9, 7, 3, 9, 7, 3>>,
           std |-> <<3, 7, 1, 3, 7, 1, 3, 7, 1>>, catches |-> {"wrong"}]
          ++ Common

sedol == [lens |-> {7}, val |-> Rep(6, NoVowel), doc |-> NoVowel,
          w |-> <<1, 3, 1, 7, 3, 9>>, bias |-> 840,
          std |-> <<1, 3, 1, 7, 3, 9, 1>>] ++ Common

\* '*', '@' and '#' are 36, 37, 38
cusipChars == (42 :> 36) ++ (64 :> 37) ++ (35 :> 38) ++ Alnum
cusip == [lens |-> {9}, val |-> Rep(8, cusipChars), doc |-> cusipChars,
          w |-> From(8, 1, 2), style |-> "digits", bias |-> 400,
          std |-> From(9, 1, 2)] ++ Common

figi == [lens |-> {12},
         val |-> <<Only({66}, Alnum), Only({66}, Alnum), Only({71}, Alnum)>>
                 \o Rep(8, NoVowel),
         doc |-> NoVowel,
         w |-> From(11, 1, 2), style |-> "digits", bias |-> 700,
         std |-> From(11, 1, 2) \o <<1>>] ++ Common

\* read from the right; n digits before the first hyphen, the pattern admits
\* any number of them
cas(n) == [lens |-> 7 .. 12, extra |-> {2}, val |-> Rep(n + 2, Dec),
           w |-> Up(n + 2, 1), std |-> Up(n + 2, 1) \o <<-1>>]
          ++ Common

imo == [lens |-> 7 .. 11, extra |-> {0, 3, 4}, val |-> Rep(6, Dec),
        w |-> Down(6, 7), std |-> Down(6, 7) \o <<-1>>] ++ Common

\* t[] = " 12345678 12345 7 923456789", the blank being 16
vinLetters == <<1, 2, 3, 4, 5, 6, 7, 8, 16, 1, 2, 3, 4, 5, 16, 7, 16, 9,
                2, 3, 4, 5, 6, 7, 8, 9>>
\* documented: A to H, J to R and S to Z from 1, 1 and 2 on, without I, O, Q
vinDoc == [c \in Upper \ {73, 79, 81} |->
              CASE c <= 72 -> c - 64 [] c \in 74 .. 82 -> c - 73
                [] c >= 83 -> c - 81] ++ Dec
vin == [lens |-> {17},
        val |-> Rep(16, [c \in Digits \cup Upper |->
                            IF c < 65 THEN c - 48 ELSE vinLetters[c - 64]]),
        w |-> Down(7, 8) \o <<10>> \o Down(8, 9), glyph |-> Roman,
        check |-> Digits \cup {X}, doc |-> vinDoc,
        std |-> Down(7, 8) \o <<10>> \o Down(8, 9) \o <<-1>>,
        denotes |-> RomanValues] ++ Elevens

\* _calph: letters from ten on, leaving out multiples of eleven
calph == [c \in Digits \cup Upper |->
             CASE c < 65 -> c - 48
               [] c = 65 -> 10
               [] c \in 66 .. 75 -> c - 54
               [] c \in 76 .. 85 -> c - 53
               [] c \in 86 .. 90 -> c - 52]
\* three letters, then U, J or Z
bicc == [lens |-> {11},
         val |-> Rep(3, Only(Upper, calph)) \o <<Only({85, 74, 90}, calph)>>
                 \o Rep(6, Dec),
         doc |-> calph,
         w |-> [k \in 1 .. 10 |-> 2 ^ (k - 1)],
         glyph |-> TenIsNought, std |-> [k \in 1 .. 10 |-> 2 ^ (k - 1)] \o <<-1>>,
         denotes |-> NoughtOrTen] ++ Elevens

\* the birthdate, two random digits, and behind the check digit the century
kennitala == [lens |-> {10, 11}, extra |-> {0, 1},
              val |-> <<Only(48 .. 55, Dec)>> \o Rep(5, Dec)
                      \o <<Only(50 .. 57, Dec), Dec, Only({48, 56, 57}, Dec)>>,
              w |-> <<3, 2, 7, 6, 5, 4, 3, 2, 0>>,
              glyph |-> [r \in 0 .. 10 |->
                  CASE r = 10 -> Refused [] r = 0 -> Digit(0)
                    [] OTHER -> Digit(11 - r)],
              std |-> <<3, 2, 7, 6, 5, 4, 3, 2, 0, 1>>] ++ Elevens

\* with a second letter behind the check character, from W on worth nothing
ppsnLetter == [c \in Upper |-> IF c < 87 THEN c - 64 ELSE 0]
ppsn(letters) ==
    [lens |-> 8 .. 10, extra |-> 0 .. letters,
     val |-> Rep(7, Dec) \o Rep(letters, ppsnLetter),
     w |-> Down(7, 8) \o Rep(letters, 9),
     glyph |-> [r \in 0 .. 22 |-> 64 + r], check |-> Upper,
     std |-> Down(7, 8) \o Rep(letters, 9) \o <<-1>>,
     doc |-> [c \in 65 .. 87 |-> (c - 64) % 23] ++ Dec,
     denotes |-> [c \in Upper |-> IF c > 87 THEN {} ELSE {(c - 64) % 23}]]
    ++ TwentyThrees

\* the value of the hyphens is never asked for
imei == [lens |-> 14 .. 18, extra |-> {0, 1, 2, 3},
         val |-> Rep(14, [c \in Digits |-> c - 48]), w |-> From(14, 1, 2),
         style |-> "carry",
         glyph |-> [r \in 0 .. 9 |-> Digit((10 - r) % 10)],
         std |-> From(15, 1, 2)] ++ Luhn ++ Common

\* 80840 is prefixed
npi == [lens |-> {10}, val |-> Rep(9, Dec), w |-> From(9, 2, 1),
        style |-> "carry", start |-> 4,
        glyph |-> [r \in 0 .. 9 |-> Digit((10 - r) % 10)],
        std |-> From(10, 2, 1), to |-> 6] ++ Luhn ++ Common

\* s1 * 9 + s2 * 7, the digit before the check digit having weight 7; the
\* pattern admits all lengths from 8 to 18
gtin(n) == [lens |-> {8, 12, 13, 14, 17, 18}, val |-> Rep(n - 1, Dec),
            w |-> Till(n - 1, 9, 7), std |-> Till(n, 3, 1),
            catches |-> {"wrong"}] ++ Common

isbn10 == [lens |-> 10 .. 13, extra |-> {0, 1, 2, 3}, val |-> Rep(9, Dec),
           w |-> Up(9, 1), glyph |-> Roman,
           check |-> Digits \cup {X}, std |-> Down(10, 10),
           denotes |-> RomanValues, catches |-> {"wrong", "swap"}] ++ Elevens

\* 97, then 8 or 9
isbn13 == [lens |-> 13 .. 18, extra |-> {0, 1, 2, 3, 4},
           val |-> <<Only({57}, Dec), Only({55}, Dec), Only({56, 57}, Dec)>>
                   \o Rep(9, Dec),
           w |-> From(12, 1, 3), bias |-> 400, std |-> From(13, 1, 3),
           catches |-> {"wrong"}] ++ Common

issn8 == [lens |-> {8, 9}, extra |-> {0, 1}, val |-> Rep(7, Dec),
          w |-> Up(7, 1), glyph |-> Roman,
          check |-> Digits \cup {X}, std |-> Down(8, 8),
          denotes |-> RomanValues, catches |-> {"wrong", "swap"}] ++ Elevens

issn13 == [lens |-> 13 .. 18,
           val |-> <<Only({57}, Dec), Only({55}, Dec), Only({55}, Dec)>>
                   \o Rep(9, Dec),
           w |-> From(12, 1, 3), bias |-> 400, std |-> From(13, 1, 3),
           catches |-> {"wrong"}] ++ Common

\* M counts 3 in ISO 10957, where the check digit is that of the 13 digits
ismn10 == [lens |-> 10 .. 13, extra |-> {0, 1, 2, 3},
           val |-> <<(77 :> 3)>> \o Rep(8, Dec), w |-> <<0>> \o Up(8, 2),
           doc |-> (77 :> 3) ++ Dec, mod |-> 11, glyph |-> Roman,
           check |-> Digits \cup {X},
           std |-> From(10, 3, 1)] ++ Common

ismn13 == [lens |-> 13 .. 18,
           val |-> <<Only({57}, Dec), Only({55}, Dec), Only({57}, Dec),
                     Only({48}, Dec)>> \o Rep(8, Dec),
           w |-> From(12, 1, 3), bias |-> 400, std |-> From(13, 1, 3),
           catches |-> {"wrong"}] ++ Common

-----------------------------------------------------------------------------
(* VAT ids; the country code and blanks may be left out *)

itvatid == [lens |-> 11 .. 14, extra |-> {0, 2, 3}, val |-> Rep(10, Dec),
            w |-> From(10, 1, 2), style |-> "carry", bias |-> 200,
            std |-> From(11, 1, 2)] ++ Luhn ++ Common

\* behind a U; Luhn's sum is to leave 6
atvatid == [lens |-> 9 .. 12, extra |-> {1, 3, 4}, val |-> Rep(7, Dec),
            w |-> From(7, 1, 2), style |-> "carry", bias |-> 96,
            std |-> From(7, 1, 2) \o <<1>>, to |-> 6] ++ Luhn ++ Common

\* two more digits follow
sevatid == [lens |-> 12 .. 15, extra |-> {2, 4, 5}, val |-> Rep(9, Dec),
            w |-> From(9, 2, 1), style |-> "carry", bias |-> 970,
            std |-> From(10, 2, 1)] ++ Luhn ++ Common

\* behind an A
esvatid == [lens |-> 9 .. 14, extra |-> 1 .. 6, val |-> Rep(7, Dec),
            w |-> From(7, 2, 1), style |-> "carry", bias |-> 970,
            std |-> From(8, 2, 1)] ++ Luhn ++ Common

\* B and two digits follow
nlvatid == [lens |-> 12 .. 14, extra |-> {3, 5}, val |-> Rep(8, Dec),
            w |-> Down(8, 9), glyph |-> NoTen,
            std |-> Down(8, 9) \o <<-1>>, catches |-> {"wrong", "swap"}]
           ++ Elevens

plvatid == [lens |-> 10 .. 13, extra |-> 0 .. 6, val |-> Rep(9, Dec),
            w |-> <<6, 5, 7, 2, 3, 4, 5, 6, 7>>, glyph |-> NoTen,
            std |-> <<6, 5, 7, 2, 3, 4, 5, 6, 7, -1>>,
            catches |-> {"wrong", "swap"}] ++ Elevens

ptvatid == [lens |-> 9 .. 14, extra |-> 0 .. 5, val |-> Rep(8, Dec),
            w |-> Up(8, 2), glyph |-> TenIsNought,
            std |-> Down(9, 9), denotes |-> NoughtOrTen] ++ Elevens

\* residue 0 is not handed out, 10 is written 0
sivatid == [lens |-> 9 .. 14, extra |-> 0 .. 4, val |-> Rep(7, Dec),
            w |-> Up(7, 3),
            glyph |-> [r \in 0 .. 10 |-> IF r = 0 THEN Refused ELSE Digit(r % 10)],
            std |-> Down(8, 8),
            denotes |-> NoughtForTen,
            catches |-> {"wrong", "swap"}] ++ Elevens
=============================================================================
