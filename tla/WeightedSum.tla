---------------------------- MODULE WeightedSum ----------------------------
(***************************************************************************)
(* The checkers that add up weighted character values and compare one      *)
(* check character: nmck_nhs, nmck_cusip, nmck_gtin, nmck_isbn10, ...      *)
(* They are one loop with different parameters; Schemes holds these, as    *)
(* the source of each checker gives them.                                  *)
(*                                                                         *)
(* As in Quasigroup two calls run in lockstep: on a number as written, and *)
(* on the same number after at most one slip of the typist.                *)
(*                                                                         *)
(* Abstraction: a string is met lazily, character by character in the      *)
(* order of the loop, the check character last wherever it stands.         *)
(* Prefixes and separators, which add nothing, only count for the length.  *)
(***************************************************************************)
EXTENDS Integers, Sequences

CONSTANTS
    Scheme,     \* from the name of a checker to its parameters, below
    Use,        \* the checkers called
    Typed(_, _),\* of the characters accepted: those that get typed rightly
    Misfit      \* the checkers whose lengths are not those of their patterns

(* Fields of a scheme:                                                     *)
(*   lens   lengths the checker admits                                     *)
(*   extra  how many prefix characters and separators the recogniser lets  *)
(*          into the string                                                *)
(*   val    per position: from the characters accepted to their values     *)
(*   w      per position: the weight                                       *)
(*   style  what becomes of a product: "linear": nothing, "carry": one is  *)
(*          added from ten on, "digits": its two digits are added          *)
(*   start  the initial sum                                                *)
(*   bias   what the sum is subtracted from, or 0 if it is not             *)
(*   mod    the modulus                                                    *)
(*   glyph  from residues to check characters, or Refused                  *)
(*   check  the check characters the recogniser admits                     *)
(*   std    what the scheme documents: weights, the check character's last *)
(*   base   the modulus for it                                             *)
(*   to     and the residue the sum must have                              *)
(*   doc    from the characters it knows to the values it gives them       *)
(*   denotes  from check characters to the values they stand for           *)
(*   lax    the same for check characters the code takes without its leave *)
(*   catches  the slips it claims to detect: "wrong" digits, "swap"s       *)
(*   blind  but for swaps of these                                         *)
Refused == 0        \* no character
Placeholder == 63   \* '?', or '_'

S(n) == Scheme[n]
Places(n) == DOMAIN S(n).val
Accepted(n, q) == DOMAIN S(n).val[q]

\* what character c adds at position q
Adds(n, q, c) ==
    LET x == S(n).w[q] * S(n).val[q][c]
    IN  CASE S(n).style = "linear" -> x
          [] S(n).style = "carry" -> x + (IF x >= 10 THEN 1 ELSE 0)
          [] S(n).style = "digits" -> (x \div 10) + (x % 10)

\* the value the scheme documents; of a character it does not know, the code's
Value(n, q, c) ==
    IF c \in DOMAIN S(n).doc THEN S(n).doc[c] ELSE S(n).val[q][c]

\* the check character after all positions
Residue(n, x) ==
    (IF S(n).bias = 0 THEN x ELSE S(n).bias - x) % S(n).mod
Expected(n, x) == S(n).glyph[Residue(n, x)]

ASSUME SchemeAssumption ==
    \A n \in Use :
        /\ Len(S(n).val) \in Nat /\ Places(n) = 1 .. Len(S(n).val)
        /\ S(n).mod \in Nat \ {0} /\ S(n).bias \in Nat /\ S(n).start \in Nat
        /\ S(n).style \in {"linear", "carry", "digits"}
        /\ \A q \in Places(n) :
            /\ S(n).w[q] \in Nat
            /\ \A c \in Accepted(n, q) : S(n).val[q][c] \in Nat
            /\ \A s \in {"never", "none", "half", "full"} :
                  Typed(Accepted(n, q), s) \subseteq Accepted(n, q)
        /\ S(n).extra \subseteq Nat

(* A scheme detects a slip that changes its sum, modulo the modulus.       *)
Differs(n, a, b) == (a - b) % S(n).mod # 0
Separates(n) ==
    /\ "wrong" \in S(n).catches =>
        \A q \in Places(n) : \A c, d \in Accepted(n, q) :
            c # d => Differs(n, Adds(n, q, c), Adds(n, q, d))
    /\ "swap" \in S(n).catches =>
        \A q \in {r \in Places(n) : r + 1 \in Places(n)} :
        \A c, d \in Accepted(n, q) \cap Accepted(n, q + 1) :
            c # d /\ {c, d} \notin S(n).blind =>
                Differs(n, Adds(n, q, c) + Adds(n, q + 1, d),
                           Adds(n, q, d) + Adds(n, q + 1, c))
    /\ S(n).catches # {} =>
        \A r, s \in 0 .. S(n).mod - 1 :
            S(n).glyph[r] = S(n).glyph[s] =>
                r = s \/ S(n).glyph[r] = Refused
ASSUME Separation == \A n \in Use : Separates(n)

VARIABLES
    scheme,     \* the checker called
    pc,
    len,        \* length of the string
    p,          \* position to be read
    sum,        \* the sum of either call
    last,       \* the check character of either string, once compared
    ret,        \* what either call has returned
    slip, due,  \* as in Quasigroup, or "never"
    std,        \* observer: the documented sum, modulo S(scheme).base
    odd         \* observer: characters were read that the scheme does not know

vars == <<scheme, pc, len, p, sum, last, ret, slip, due, std, odd>>

Call == {"written", "typed"}

\* nmck_t: the sign, the character in the upper bits, the lowest bit
Verdict(neg, char, wrong) == [neg |-> neg, char |-> char, wrong |-> wrong]
Running == Verdict(FALSE, 0, FALSE)
Refusal == Verdict(TRUE, 0, TRUE)
Conformant(x) == pc = "done" /\ ~ret[x].neg /\ ~ret[x].wrong

Init ==
    /\ scheme \in Use
    /\ pc = "enter"
    /\ len \in {Len(S(scheme).val) + 1 + e : e \in S(scheme).extra}
    /\ p = 1
    /\ sum = [x \in Call |-> S(scheme).start]
    /\ last = [x \in Call |-> Refused]
    /\ ret = [x \in Call |-> Running]
    /\ slip \in IF S(scheme).catches = {} THEN {"never"} ELSE {"never", "none"}
    /\ due = <<0, 0>>
    /\ std = [x \in Call |-> 0] /\ odd = [x \in Call |-> FALSE]

Refuse ==
    /\ pc' = "done"
    /\ ret' = [x \in Call |-> Refusal]
    /\ UNCHANGED <<scheme, len, p, sum, last, slip, due, std, odd>>

\* mutation: the upper limit turned down
EnterStrict ==
    /\ pc = "enter"
    /\ IF \E l \in S(scheme).lens : len < l /\ len \in S(scheme).lens
       THEN pc' = "loop"
            /\ UNCHANGED <<scheme, len, p, sum, last, ret, slip, due, std, odd>>
       ELSE Refuse

Enter ==
    /\ pc = "enter"
    /\ IF len \in S(scheme).lens
       THEN pc' = "loop"
            /\ UNCHANGED <<scheme, len, p, sum, last, ret, slip, due, std, odd>>
       ELSE Refuse

\* the loop meets a character that has no place there
Foreign == pc = "loop" /\ p \in Places(scheme) /\ Refuse

\* the next characters of the strings, w and t, and the slip between them
Types(w, t) ==
    LET Right == Typed(Accepted(scheme, p), slip)
        All == Accepted(scheme, p)
        Claim(k) == slip = "none" /\ k \in S(scheme).catches
    IN  \/ /\ slip # "half" /\ w \in Right /\ t = w
           /\ UNCHANGED <<slip, due>>
        \/ /\ Claim("wrong") /\ w \in All /\ t \in All \ {w}
           /\ slip' = "full" /\ UNCHANGED due
        \/ /\ Claim("swap") /\ p + 1 \in Places(scheme)
           /\ w \in All /\ t \in (All \cap Accepted(scheme, p + 1)) \ {w}
           /\ w \in Accepted(scheme, p + 1) /\ {w, t} \notin S(scheme).blind
           /\ slip' = "half" /\ due' = <<t, w>>
        \/ /\ slip = "half" /\ due = <<w, t>>
           /\ slip' = "full" /\ UNCHANGED due

Chars(w, t) == [x \in Call |-> IF x = "written" THEN w ELSE t]

\* the standard's version of what a character adds
Digitsum(x) == (x \div 10) + (x % 10)
Counts(n, q, v) ==
    LET x == S(n).std[q] * v
    IN  IF S(n).style = "linear" THEN x ELSE Digitsum(x)

\* the observers follow
Observes(w, t) ==
    /\ std' = [x \in Call |->
          (std[x] + Counts(scheme, p, Value(scheme, p, Chars(w, t)[x])))
              % S(scheme).base]
    /\ odd' = [x \in Call |->
          odd[x] \/ Chars(w, t)[x] \notin DOMAIN S(scheme).doc]

\* mutation: a separator taken for granted
ReadSkip ==
    /\ pc = "loop" /\ p \in Places(scheme)
    /\ \E w \in Accepted(scheme, p) :
       \E t \in IF slip = "never" THEN {w} ELSE Accepted(scheme, p) :
        /\ Types(w, t)
        /\ sum' = [x \in Call |-> sum[x] + Adds(scheme, p, Chars(w, t)[x])]
        /\ Observes(w, t)
    /\ p' = p + 2
    /\ UNCHANGED <<scheme, pc, len, last, ret>>

\* mutation: = for += in the second of two loops
ReadRestart ==
    /\ pc = "loop" /\ p \in Places(scheme)
    /\ \E w \in Accepted(scheme, p) :
       \E t \in IF slip = "never" THEN {w} ELSE Accepted(scheme, p) :
        /\ Types(w, t)
        /\ sum' = [x \in Call |-> (IF p = 4 THEN 0 ELSE sum[x])
                                    + Adds(scheme, p, Chars(w, t)[x])]
        /\ Observes(w, t)
    /\ p' = p + 1
    /\ UNCHANGED <<scheme, pc, len, last, ret>>

\* mutation: products of two digits added as they are
ReadProducts ==
    /\ pc = "loop" /\ p \in Places(scheme)
    /\ \E w \in Accepted(scheme, p) :
       \E t \in IF slip = "never" THEN {w} ELSE Accepted(scheme, p) :
        /\ Types(w, t)
        /\ sum' = [x \in Call |-> sum[x]
              + S(scheme).w[p] * S(scheme).val[p][Chars(w, t)[x]]]
        /\ Observes(w, t)
    /\ p' = p + 1
    /\ UNCHANGED <<scheme, pc, len, last, ret>>

Read ==
    /\ pc = "loop" /\ p \in Places(scheme)
    /\ \E w \in Accepted(scheme, p) :
       \E t \in IF slip = "never" THEN {w} ELSE Accepted(scheme, p) :
        /\ Types(w, t)
        /\ sum' = [x \in Call |-> sum[x] + Adds(scheme, p, Chars(w, t)[x])]
        /\ Observes(w, t)
    /\ p' = p + 1
    /\ UNCHANGED <<scheme, pc, len, last, ret>>

\* mutation: residue ten not refused
CompareTen ==
    /\ pc = "loop" /\ p = Len(S(scheme).val) + 1
    /\ \E w, t \in S(scheme).check \cup {Placeholder} :
        /\ w # t => slip = "none"
        /\ slip' = IF w # t THEN "full" ELSE slip
        /\ last' = Chars(w, t)
        /\ ret' = [x \in Call |->
              LET c == Expected(scheme, sum[x])
              IN  Verdict(FALSE, c, c # Chars(w, t)[x])]
    /\ pc' = "done"
    /\ UNCHANGED <<scheme, len, p, sum, due, std, odd>>

\* the check character, or a placeholder; the typist may still slip on it
Compare ==
    /\ pc = "loop" /\ p = Len(S(scheme).val) + 1
    /\ \E w, t \in S(scheme).check \cup {Placeholder} :
        /\ w # t => slip = "none"
        /\ slip' = IF w # t THEN "full" ELSE slip
        /\ last' = Chars(w, t)
        /\ ret' = [x \in Call |->
              LET c == Expected(scheme, sum[x])
              IN  IF c = Refused THEN Refusal
                  ELSE Verdict(FALSE, c, c # Chars(w, t)[x])]
    /\ pc' = "done"
    /\ UNCHANGED <<scheme, len, p, sum, due, std, odd>>

Returned == pc = "done" /\ UNCHANGED vars

Next == Enter \/ Foreign \/ Read \/ Compare \/ Returned

Spec == Init /\ [][Next]_vars

-----------------------------------------------------------------------------
TypeOK ==
    /\ scheme \in Use /\ pc \in {"enter", "loop", "done"}
    /\ len \in Nat /\ p \in 1 .. Len(S(scheme).val) + 1
    /\ sum \in [Call -> Nat] /\ std \in [Call -> Nat]
    /\ last \in [Call -> Nat]
    /\ \A x \in Call : /\ ret[x].neg \in BOOLEAN /\ ret[x].char \in Nat
                       /\ ret[x].wrong \in BOOLEAN
    /\ slip \in {"never", "none", "half", "full"}
    /\ odd \in [Call -> BOOLEAN]

(* Unsigned subtraction: where the code takes the sum from a constant, the *)
(* constant is large enough for every string, so bias - sum does not wrap. *)
NoWraparound ==
    \A x \in Call : S(scheme).bias > 0 => sum[x] <= S(scheme).bias

(* The check character c closes a number of the residue r, going by D.     *)
Closes(n, r, c, D) ==
    /\ c \in DOMAIN D
    /\ \E v \in D[c] :
          (r + Counts(n, Len(S(n).std), v)) % S(n).base = S(n).to

(* The code folds signs, prefixes and the check character's own weight     *)
(* into its weights and constants.  A string is found conformant if and    *)
(* only if the documented weighted sum, check character included, has the  *)
(* documented residue and nothing in the string is foreign to the scheme;  *)
(* so a placeholder never is.  Apart from these, which the code accepts:   *)
(* strings with characters that it gives a value of its own (nmck_vin: I,  *)
(* O, Q; nmck_nhi: I, O), and numbers that the scheme leaves without a     *)
(* check character, which it closes all the same (nmck_nhi).               *)
Documented(x) ==
    ~odd[x] /\ Closes(scheme, std[x], last[x], S(scheme).denotes)
Departs(x) ==
    \/ odd[x] /\ Closes(scheme, std[x], last[x], S(scheme).denotes)
    \/ Closes(scheme, std[x], last[x], S(scheme).lax)
AcceptsDocumented ==
    \A x \in Call : last[x] # Refused =>
        ((Conformant(x) <=> Documented(x)) <=> ~Departs(x))

(* No character that the scheme does not know is in a conformant string.   *)
AlphabetKept == \A x \in Call : Conformant(x) => ~odd[x]

(* The character printed after "should be" is one that the recogniser      *)
(* takes there, so that a correction can be fed back.                      *)
SuggestionTypable ==
    \A x \in Call : pc = "done" /\ ~ret[x].neg => ret[x].char \in S(scheme).check

(* Recogniser and checker agree on the form: no string that matches the    *)
(* pattern of a scheme is turned down by its checker for its length, the   *)
(* misfits apart.                                                          *)
LengthsAgree ==
    [][pc = "enter" /\ pc' = "done" => scheme \in Misfit]_vars

(* Why: the sums are equal before the slip, and after it they differ       *)
(* modulo the modulus, whatever follows; halfway through a swap they       *)
(* differ by what the second character is about to complete.               *)
SumsApart ==
    /\ scheme \in Use /\ p \in Nat /\ sum \in [Call -> Int]
    /\ pc \in {"enter", "loop", "done"}
    /\ slip \in {"never", "none", "half", "full"}
    /\ pc # "done" /\ slip \in {"never", "none"} => sum["written"] = sum["typed"]
    /\ pc # "done" /\ slip = "half" =>
        /\ "swap" \in S(scheme).catches
        /\ p \in Places(scheme) /\ p - 1 \in Places(scheme)
        /\ \A k \in {1, 2} :
              due[k] \in Accepted(scheme, p - 1) \cap Accepted(scheme, p)
        /\ due[1] # due[2] /\ {due[2], due[1]} \notin S(scheme).blind
        /\ sum["written"] - sum["typed"]
              = Adds(scheme, p - 1, due[2]) - Adds(scheme, p - 1, due[1])
    /\ pc # "done" /\ slip = "full" =>
        /\ S(scheme).catches # {}
        /\ Differs(scheme, sum["written"], sum["typed"])

(* A number as issued and the same number after one slip the scheme is     *)
(* made to detect are not both conformant.                                 *)
SlipCaught ==
    slip \in {"half", "full"} => \E x \in Call : ~Conformant(x)
=============================================================================
