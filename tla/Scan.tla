-------------------------------- MODULE Scan --------------------------------
(***************************************************************************)
(* A checker that reads a string from left to right into an accumulator    *)
(* and settles at the end: nmck_isin, nmck_credcard, nmck_isan,            *)
(* nmck_tckimlik, nmck_tfn, ...  ScanSchemes holds their steps.            *)
(*                                                                         *)
(* As in Quasigroup two calls run in lockstep: on a number as written, and *)
(* on the same number after at most one slip of the typist.  Beside them   *)
(* runs what the standard of the number says of both strings.              *)
(*                                                                         *)
(* Abstraction: a string is met lazily, character by character in the      *)
(* order of the loop.  Prefixes and separators, which add nothing, only    *)
(* count for the length.                                                   *)
(***************************************************************************)
EXTENDS Integers, Sequences

CONSTANTS
    Scheme,             \* from the name of a checker to its parameters
    Use,                \* the checkers called
    Step(_, _, _, _),   \* the accumulator after the k-th character
    Finish(_, _, _, _), \* the verdict
    Typed(_, _, _),     \* of the characters accepted: those that get typed
    \* how the accumulators of a checker that detects slips are told apart
    Acc(_), Differ(_, _, _),
    Turn(_, _),         \* a position whose step is the same
    \* the standard
    StdStart(_), StdStep(_, _, _, _), StdRight(_, _, _), Exempt(_, _, _, _),
    Corrected(_, _, _, _),
    \* the accumulators at a position, each with the standard's view of what
    \* has been read so far
    Meets(_, _),
    Misfit              \* checkers whose pattern lets longer strings through

S(n) == Scheme[n]
Places(n) == DOMAIN S(n).chars
Accepted(n, k) == S(n).chars[k]
\* those a typist may take for each other, at both of two neighbours
Mistaken(n, k) == S(n).typos[k]
Swapped(n, k) == Mistaken(n, k) \cap Mistaken(n, k + 1)
Detects(n) == S(n).catches # {}

\* the verdict that says the string is no such number
Unknown == [neg |-> TRUE, chars |-> <<>>, state |-> "", wrong |-> TRUE]
Right(v) == ~v.neg /\ ~v.wrong

ASSUME ScanAssumption ==
    \A n \in Use :
        /\ S(n).extra \subseteq Nat
        /\ S(n).counts \subseteq Nat \ {0}
        /\ \A m \in S(n).counts : 1 .. m \subseteq Places(n)
        /\ \A k \in Places(n) : \A s \in {"never", "none", "half", "full"} :
              Typed(n, k, s) \subseteq Accepted(n, k)

(* A checker detects slips if its accumulators, once they differ, differ   *)
(* to the end, and lead to different check characters.                     *)
Turns(n) == {Turn(n, k) : k \in Places(n)}
Separates(n) ==
    /\ S(n).start \in Acc(n)
    /\ \A k \in Places(n) :
        /\ Accepted(n, Turn(n, k)) = Accepted(n, k)
        /\ \A a \in Acc(n) : \A c \in Accepted(n, k) :
              Step(n, a, Turn(n, k), c) = Step(n, a, k, c)
    /\ \A k \in Places(n) : \A a \in Acc(n) :
        /\ Mistaken(n, k) \subseteq Accepted(n, k)
        /\ \A c \in Accepted(n, k) : Step(n, a, k, c) \in Acc(n)
        /\ "wrong" \in S(n).catches =>
            \A c, d \in Mistaken(n, k) :
                c # d => Differ(n, Step(n, a, k, c), Step(n, a, k, d))
        /\ "swap" \in S(n).catches /\ k + 1 \in Places(n) =>
            \A c, d \in Swapped(n, k) :
                c # d /\ {c, d} \notin S(n).blind =>
                    Differ(n, Step(n, Step(n, a, k, c), k + 1, d),
                              Step(n, Step(n, a, k, d), k + 1, c))
    /\ \A a, b \in Acc(n) : Differ(n, a, b) =>
        /\ \A k \in Turns(n) : \A c \in Accepted(n, k) :
              Differ(n, Step(n, a, k, c), Step(n, b, k, c))
        /\ \A m \in S(n).counts : \A l \in S(n).checks :
              ~(Right(Finish(n, m, a, l)) /\ Right(Finish(n, m, b, l)))
    /\ "wrong" \in S(n).catches =>
        \A a \in Acc(n) : \A m \in S(n).counts : \A l, r \in S(n).checks :
            l # r => ~(Right(Finish(n, m, a, l)) /\ Right(Finish(n, m, a, r)))
ASSUME Separation == \A n \in Use : Detects(n) => Separates(n)

\* refusals of these mean an issuer or a name they do not know
Identifies(n) == n \in {"credcard", "wkn"}

(* A checker follows its standard if reading a character leads from        *)
(* accumulators and views that belong together to such again, and if at    *)
(* the end both find the same right, but for what is exempt, and what is   *)
(* suggested instead repairs the number.                                   *)
Alphabet(n, k) == IF Detects(n) THEN Accepted(n, k) ELSE Typed(n, k, "never")
Agrees(n, v, m, s, l) ==
    ~(v.neg /\ Identifies(n)) =>
        ((Right(v) <=> StdRight(n, s, l)) <=> ~Exempt(n, m, s, l))
\* '[' stands for 0 and ':' for no digit at all; not where nothing is said
Repairs(n, v, m, s) ==
    v.neg \/ ~v.wrong \/ v.chars = <<>> \/ (n = "tfn" /\ m = 8) \/ n = "ievatidW"
    \/ IF \E i \in DOMAIN v.chars : v.chars[i] = 58
       THEN \A c \in 48 .. 57 : ~Corrected(n, m, s, <<c>>)
       ELSE Corrected(n, m, s, [i \in DOMAIN v.chars |->
                                   IF v.chars[i] = 91 THEN 48 ELSE v.chars[i]])
Follows(n) ==
    /\ <<S(n).start, StdStart(n)>> \in Meets(n, 1)
    /\ \A k \in Places(n) : \A b \in Meets(n, k) : \A c \in Alphabet(n, k) :
          <<Step(n, b[1], k, c), StdStep(n, b[2], k, c)>> \in Meets(n, k + 1)
    /\ \A m \in S(n).counts : \A b \in Meets(n, m + 1) : \A l \in S(n).checks :
          LET v == Finish(n, m, b[1], l)
          IN  /\ v.neg \in BOOLEAN /\ v.wrong \in BOOLEAN
              /\ Agrees(n, v, m, b[2], l) /\ Repairs(n, v, m, b[2])
ASSUME FollowAssumption ==
    \A n \in Use : Follows(n) /\ <<0>> \notin S(n).checks

\* how the lengths of a pattern and of its checker fit
Behind(n) == LET l == CHOOSE c \in S(n).checks : TRUE IN Len(l)
ASSUME LengthAssumption ==
    \A n \in Use \ Misfit : \A m \in S(n).counts : \A e \in S(n).extra :
        m + e + Behind(n) \in S(n).lens

VARIABLES
    scheme,     \* the checker called
    pc,
    count,      \* of the characters to be used
    q,          \* position to be read
    acc,        \* the accumulator of either call
    last,       \* the check characters of either string, once compared
    ret,        \* what either call has returned
    slip,       \* "never", or how far the typist has got
    due,        \* the characters that complete a swap
    std         \* observer: the standard's view of either string

vars == <<scheme, pc, count, q, acc, last, ret, slip, due, std>>

Call == {"written", "typed"}
Both(v) == [x \in Call |-> v]
Unread == <<0>>

Init ==
    /\ scheme \in Use
    /\ pc = "enter"
    /\ count \in S(scheme).counts
    /\ q = 1
    /\ acc = Both(S(scheme).start)
    /\ last = Both(Unread)
    /\ ret = Both(Unknown)
    /\ slip \in IF Detects(scheme) THEN {"never", "none"} ELSE {"never"}
    /\ due = <<0, 0>>
    /\ std = Both(StdStart(scheme))

Refuse ==
    /\ pc' = "done"
    /\ ret' = Both(Unknown)
    /\ UNCHANGED <<scheme, count, q, acc, last, slip, due, std>>

\* lengths of the strings with the characters used, e more, and a check
Length(e) == count + e + Behind(scheme)

\* mutation: the longest form forgotten
EnterStrict ==
    /\ pc = "enter"
    /\ \E e \in S(scheme).extra :
        IF Length(e) \in S(scheme).lens /\ e < 5
        THEN /\ pc' = "loop"
             /\ UNCHANGED <<scheme, count, q, acc, last, ret, slip, due, std>>
        ELSE Refuse

Enter ==
    /\ pc = "enter"
    /\ \E e \in S(scheme).extra :
        IF Length(e) \in S(scheme).lens
        THEN /\ pc' = "loop"
             /\ UNCHANGED <<scheme, count, q, acc, last, ret, slip, due, std>>
        ELSE Refuse

\* a character that has no place there, or a country that is not listed
Foreign == pc = "loop" /\ q <= count /\ Refuse

\* the next characters of the strings, w and t, and the slip between them
Types(w, t) ==
    LET Claim(k) == slip = "none" /\ k \in S(scheme).catches
    IN  \/ /\ slip # "half" /\ w \in Typed(scheme, q, slip) /\ t = w
           /\ UNCHANGED <<slip, due>>
        \/ /\ Claim("wrong") /\ w \in Mistaken(scheme, q)
           /\ t \in Mistaken(scheme, q) \ {w}
           /\ slip' = "full" /\ UNCHANGED due
        \/ /\ Claim("swap") /\ q < count
           /\ w \in Swapped(scheme, q) /\ t \in Swapped(scheme, q) \ {w}
           /\ {w, t} \notin S(scheme).blind
           /\ slip' = "half" /\ due' = <<t, w>>
        \/ /\ slip = "half" /\ due = <<w, t>>
           /\ slip' = "full" /\ UNCHANGED due

Chars(w, t) == [x \in Call |-> IF x = "written" THEN w ELSE t]

\* mutation: the loop leaves the last character out
AfterShort(x, c) ==
    IF q = count THEN acc[x] ELSE Step(scheme, acc[x], q, c)

\* mutation: = for += where a second loop goes on
AfterRestart(x, c) ==
    Step(scheme, IF q = 2 THEN S(scheme).start ELSE acc[x], q, c)

After(x, c) == Step(scheme, acc[x], q, c)

\* mutation: a separator taken for granted
ReadSkip ==
    /\ pc = "loop" /\ q <= count
    /\ \E w \in Accepted(scheme, q) :
       \E t \in IF slip \in {"never", "full"} THEN {w}
                ELSE Accepted(scheme, q) :
        /\ Types(w, t)
        /\ acc' = [x \in Call |-> After(x, Chars(w, t)[x])]
        /\ std' = [x \in Call |-> StdStep(scheme, std[x], q, Chars(w, t)[x])]
    /\ q' = q + 2
    /\ UNCHANGED <<scheme, pc, count, last, ret>>

Read ==
    /\ pc = "loop" /\ q <= count
    /\ \E w \in Accepted(scheme, q) :
       \E t \in IF slip \in {"never", "full"} THEN {w}
                ELSE Accepted(scheme, q) :
        /\ Types(w, t)
        /\ acc' = [x \in Call |-> After(x, Chars(w, t)[x])]
        /\ std' = [x \in Call |-> StdStep(scheme, std[x], q, Chars(w, t)[x])]
    /\ q' = q + 1
    /\ UNCHANGED <<scheme, pc, count, last, ret>>

\* the end of the loop, and the check characters; the typist may still slip
Finishes ==
    /\ pc = "loop" /\ q = count + 1
    /\ \E w \in S(scheme).checks :
       \E t \in IF slip \in {"never", "full"} THEN {w} ELSE S(scheme).checks :
        /\ w # t => slip = "none" /\ "wrong" \in S(scheme).catches
        /\ slip' = IF w # t THEN "full" ELSE slip
        /\ last' = Chars(w, t)
        /\ ret' = [x \in Call |->
                      Finish(scheme, count, acc[x], Chars(w, t)[x])]
    /\ pc' = "done"
    /\ UNCHANGED <<scheme, count, q, acc, due, std>>

Returned == pc = "done" /\ UNCHANGED vars

Next == Enter \/ Foreign \/ Read \/ Finishes \/ Returned

Spec == Init /\ [][Next]_vars

-----------------------------------------------------------------------------
Settled(x) == last[x] # Unread
Conformant(x) == Settled(x) /\ Right(ret[x])
Documented(x) == Settled(x) /\ StdRight(scheme, std[x], last[x])

TypeOK ==
    /\ scheme \in Use /\ pc \in {"enter", "loop", "done"}
    /\ count \in S(scheme).counts /\ q \in 1 .. count + 1
    /\ \A x \in Call :
        /\ last[x] \in S(scheme).checks \cup {Unread}
        /\ ret[x].neg \in BOOLEAN /\ ret[x].wrong \in BOOLEAN
        /\ Detects(scheme) => acc[x] \in Acc(scheme)
    /\ slip \in {"never", "none", "half", "full"}

(* The checkers fold the check character, the parity of the length, the    *)
(* country code's absence and the direction of reading into their loops.   *)
(* A string that is read to its end is found conformant if and only if its *)
(* standard says it is right; exactly the strings that are exempt are      *)
(* found to be the contrary.                                               *)
AcceptsDocumented ==
    \A x \in Call :
        Settled(x) /\ ~(ret[x].neg /\ Identifies(scheme)) =>
            ((Conformant(x) <=> Documented(x))
                <=> ~Exempt(scheme, count, std[x], last[x]))

(* What is printed after "should be" makes the number right when it is     *)
(* typed; where that cannot be typed, '[' stands for 0 and ':' for no      *)
(* digit at all.  Not so for tax file numbers of eight digits, and Irish   *)
(* VAT-IDs of two letters with a W, which gets replaced.                   *)
SuggestionRight ==
    \A x \in Call : Settled(x) => Repairs(scheme, ret[x], count, std[x])

(* Recogniser and checker agree on the form: no string that matches the    *)
(* pattern of a scheme is turned down for its length, but for the misfits: *)
(* an IMEISV with three hyphens, and an Irish VAT-ID with all its parts,   *)
(* the prefix, a blank, two letters and the W.                             *)
LengthsAgree == [][pc = "enter" /\ pc' = "done" => scheme \in Misfit]_vars

(* Why slips are caught: before the slip both calls have accumulated the   *)
(* same, after it they differ, whatever follows; halfway through a swap    *)
(* the characters that complete it will make them differ.                  *)
Apart ==
    /\ scheme \in Use /\ count \in S(scheme).counts /\ q \in Nat
    /\ pc \in {"enter", "loop", "done"}
    /\ slip \in {"never", "none", "half", "full"}
    /\ q >= 1
    /\ slip # "never" => Detects(scheme)
    /\ Detects(scheme) => \A x \in Call : acc[x] \in Acc(scheme)
    /\ slip \in {"never", "none"} => acc["written"] = acc["typed"]
    /\ pc # "done" /\ slip = "half" =>
        /\ q <= count
        /\ \A k \in {1, 2} : due[k] \in Accepted(scheme, q)
        /\ Differ(scheme, Step(scheme, acc["written"], q, due[1]),
                          Step(scheme, acc["typed"], q, due[2]))
    /\ pc # "done" /\ slip = "full" =>
        Differ(scheme, acc["written"], acc["typed"])

(* A number as issued and the same number after one slip that its scheme   *)
(* is made to detect are not both found conformant, whatever the rest of   *)
(* the number is and wherever the slip happens.                            *)
SlipCaught ==
    slip \in {"half", "full"} => \E x \in Call : ~Conformant(x)
=============================================================================
