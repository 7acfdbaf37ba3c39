-------------------------- MODULE RemainderSchemes --------------------------
(***************************************************************************)
(* The parameters of the checkers of Remainder, read off their sources.    *)
(* Characters are ASCII codes.                                             *)
(***************************************************************************)
EXTENDS Integers, Sequences, TLC

Digits == 48 .. 57
Upper == 65 .. 90
Placeholder == <<63>>

Rep(n, x) == [k \in 1 .. n |-> x]

\* the digits of a character; letters have two
Decimal == [c \in Digits |-> <<c - 48>>]
Expanded ==
    [c \in Digits \cup Upper |->
        CASE c < 65 -> <<c - 48>>
          [] c \in 65 .. 74 -> <<1, c - 65>>
          [] c \in 75 .. 84 -> <<2, c - 75>>
          [] c \in 85 .. 90 -> <<3, c - 85>>]
\* a letter counts on from ten
ASSUME ExpandedIsAlnum ==
    \A c \in Upper : 10 * Expanded[c][1] + Expanded[c][2] = c - 55

\* one hexadecimal digit, in either case
_chex == [c \in Digits \cup 65 .. 70 \cup 97 .. 102 |->
            <<IF c < 65 THEN c - 48 ELSE (c % 32) + 9>>]
Century == [c \in {49, 50} |-> <<c - 48>>]
_hexc(r) == IF r < 10 THEN r + 48 ELSE r + 55

\* two check digits
Two(r) == <<48 + (r \div 10), 48 + (r % 10)>>
Twos == {Two(r) : r \in 0 .. 99} \cup {Placeholder}
Ones == {<<c>> : c \in Digits} \cup {Placeholder}

\* reduced after nine digits, then every seven
Sevens == {9 + 7 * k : k \in 0 .. 9}

NoTail(counts) == <<>> :> counts
\* E others for each number of characters
Each(counts, E) == [m \in counts |-> E]
Common == [buf |-> 0, before |-> FALSE, radix |-> 10, mod |-> 97, bias |-> 0,
           reduced |-> {}, check |-> Twos, refuses |-> TRUE]

\* ISO 7064 MOD 97-10: 98 minus the remainder of the number with 00
Mod97 == [reduced |-> Sevens,
          answer |-> [r \in 0 .. 96 |-> Two(98 - r)],
          documented |-> [r \in 0 .. 96 |->
              {Two(c) : c \in {d \in 2 .. 98 : (r + d) % 97 = 1}}]] @@ Common

-----------------------------------------------------------------------------
\* cc_len, of iban-cc.ccl: some short, long and unknown countries; the code
\* is put behind the string with 00
cc_len == [NO |-> 15, BE |-> 16, DE |-> 22, FR |-> 27, MT |-> 31]
CountryDigits == [NO |-> <<2, 3, 2, 4>>, BE |-> <<1, 1, 1, 4>>,
                  DE |-> <<1, 3, 1, 4>>, FR |-> <<1, 5, 2, 7>>,
                  MT |-> <<2, 2, 2, 9>>]
IbanTails ==
    [t \in {CountryDigits[c] \o <<0, 0>> : c \in DOMAIN cc_len}
                \cup {<<3, 3, 3, 3, 0, 0>>} |->
        {cc_len[c] - 4 : c \in {d \in DOMAIN cc_len :
                                    CountryDigits[d] \o <<0, 0>> = t}}]

\* eleven to forty-two characters, blanks among them wherever they please; few,
\* many and most of them, the lengths beside the limits, and blocks of four
IbanExtra(m) ==
    {e \in {4, 8, 10, 15 - m, 34 - m, 35 - m, 46 - m} :
        e >= 4 /\ m + e \in 15 .. 46}
iban == [lens |-> 15 .. 34,
         extra |-> [m \in {0, 11, 12, 18, 23, 27, 30, 42} |-> IbanExtra(m)],
         val |-> Rep(42, Expanded), tails |-> IbanTails, buf |-> 78] @@ Mod97

\* RF, then two to twenty-one characters, blanks among them
credref == [lens |-> 6 .. 33,
            extra |-> [m \in 0 .. 21 |->
                {e \in {4, 6 - m, 25 - m} : e >= 4 /\ m + e \in 6 .. 25}],
            val |-> Rep(21, Expanded),
            tails |-> <<2, 7, 1, 5, 0, 0>> :> 0 .. 21, buf |-> 50] @@ Mod97

lei == [lens |-> {20}, extra |-> Each({18}, {2}),
        val |-> Rep(18, Expanded), tails |-> <<0, 0>> :> {18}, buf |-> 40]
       @@ Mod97

\* 97 minus the remainder
bevatid == [lens |-> 9 .. 14, extra |-> Each({7, 8}, 2 .. 7),
            val |-> Rep(8, Decimal), tails |-> NoTail({7, 8}),
            answer |-> [r \in 0 .. 96 |-> Two(97 - r)],
            documented |-> [r \in 0 .. 96 |->
                {Two(c) : c \in {d \in 1 .. 97 : (r + d) % 97 = 0}}]] @@ Common

luvatid == [lens |-> 8 .. 13, extra |-> Each({6}, 2 .. 7),
            val |-> Rep(6, Decimal), tails |-> NoTail({6}), mod |-> 89,
            answer |-> [r \in 0 .. 88 |-> Two(r)],
            documented |-> [r \in 0 .. 88 |-> {Two(r)}]] @@ Common

\* the check digits, which come first, leave 12 when three times the number
\* is taken off
frvatid == [lens |-> 8 .. 17, extra |-> Each({9}, 2 .. 8),
            val |-> Rep(9, Decimal), tails |-> NoTail({9}),
            answer |-> [r \in 0 .. 96 |-> Two((3 * r + 12) % 97)],
            documented |-> [r \in 0 .. 96 |->
                {Two(c) : c \in {d \in 0 .. 96 : (d - 3 * r) % 97 = 12}}]]
           @@ Common

-----------------------------------------------------------------------------
\* ISO 7064 MOD 11-2: the sum and the last digit leave 1
isni == [lens |-> 16 .. 19, extra |-> Each({15}, 1 .. 4),
         val |-> Rep(15, Decimal), tails |-> NoTail({15}),
         before |-> TRUE, radix |-> 2, mod |-> 11, bias |-> 1358017,
         answer |-> [r \in 0 .. 10 |-> IF r < 10 THEN <<r + 48>> ELSE <<88>>],
         check |-> Ones \cup {<<88>>},
         documented |-> [r \in 0 .. 10 |->
            {IF c < 10 THEN <<c + 48>> ELSE <<88>> :
                c \in {d \in 0 .. 10 : (r + d) % 11 = 1}}]] @@ Common

\* three, four and eight digits between hyphens; with more than three in front,
\* which the recogniser lets through, too long (the last position is for these)
istc == [lens |-> 13 .. 19, extra |-> Each({15, 16}, {4}),
         val |-> Rep(3, _chex) \o <<Century>> \o Rep(3, Decimal)
                 \o Rep(9, _chex),
         tails |-> NoTail({15}), before |-> TRUE, radix |-> 3, mod |-> 16,
         reduced |-> {3, 7},
         answer |-> [r \in 0 .. 15 |-> <<_hexc(r)>>],
         check |-> {<<c>> : c \in DOMAIN _chex} \cup {Placeholder},
         documented |-> [r \in 0 .. 15 |->
            {<<c>> : c \in {d \in Digits \cup 65 .. 70 : _chex[d] = <<r>>}}]]
        @@ Common

\* the same without hyphens, which the recogniser lets through, too: nmck_istc
\* looks for the first hyphen up to the end and refuses; what it has summed by
\* then is lost, no character counts
istcPlain == [lens |-> 13 .. 19, extra |-> Each(15 .. 19, {1}),
              val |-> Rep(19, <<>>), tails |-> NoTail(15 .. 19)] @@ istc

\* remainder ten is written 0; any character is a digit
grvatid == [lens |-> 8 .. 11, extra |-> Each({8}, {1, 3, 4}),
            val |-> Rep(8, Decimal), tails |-> NoTail({8}),
            refuses |-> FALSE, before |-> TRUE, radix |-> 2, mod |-> 11,
            answer |-> [r \in 0 .. 10 |-> <<(r % 10) + 48>>], check |-> Ones,
            documented |-> [r \in 0 .. 10 |->
                {<<c + 48>> : c \in {d \in 0 .. 9 : d = r \/ d + 10 = r}}]]
           @@ Common
=============================================================================
