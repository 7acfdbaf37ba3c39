----------------------------- MODULE Countries -----------------------------
(***************************************************************************)
(* build-aux/cccc.c, which compiles a list of country codes to C, and the  *)
(* two functions that it writes, valid_cc_p and cc_len.  A line has a code *)
(* of two letters and, in the list for IBANs, a length.                    *)
(*                                                                         *)
(* Abstraction: the letters are First .. Last, 'A' .. 'Z' in the code; the *)
(* C printed is the values of its tables.  lst is indexed from 1.          *)
(***************************************************************************)
EXTENDS Integers, Sequences, FiniteSets

CONSTANTS
    First, Last,    \* letters
    Lengths,        \* on the lines, 0 if there is none
    Chunk,          \* entries allocated at first, 64 in the code
    MaxLines        \* bound: lines of the list

Letter == First .. Last
Code == Letter \X Letter

ASSUME CountryAssumption ==
    /\ First \in Nat /\ Last \in Nat /\ First <= Last
    /\ Lengths \subseteq Nat /\ Chunk \in Nat \ {0} /\ MaxLines \in Nat

VARIABLES
    pc,         \* what is being read or written
    lines,      \* how many lines were read
    lst, lnt, lzt,      \* the array, entries used, entries allocated
    has_lens,
    c,          \* the letter whose entries are being written
    off,        \* how many codes come before
    valid_cc,   \* _cc of valid_cc_p: per letter, the letters that may follow
    offs, cc,   \* _offs and _cc of cc_len
    answer      \* of the functions compiled, to the call made last

list == <<lines, lst, lnt, lzt, has_lens>>
tables == <<valid_cc, offs, cc>>
vars == <<pc, list, c, off, tables, answer>>

Junk == [cc |-> <<0, 0>>, len |-> 0]
Unasked == [code |-> <<>>, valid |-> FALSE, len |-> 0]

Init ==
    /\ pc = "lines" /\ lines = 0
    /\ lst = <<>> /\ lnt = 0 /\ lzt = 0 /\ has_lens = FALSE
    /\ c = First /\ off = 0
    /\ valid_cc = <<>> /\ offs = <<>> /\ cc = <<>>
    /\ answer = Unasked

\* lnt * 2U ?: 64U
Nuz == IF lnt = 0 THEN Chunk ELSE lnt * 2

\* mutation: enlarged one entry too late
FullLate == lnt > lzt

Full == lnt >= lzt

Allocated ==
    IF Full THEN [i \in 1 .. Nuz |-> IF i <= lnt THEN lst[i] ELSE Junk]
    ELSE lst

\* mutation: only the entry before is looked at, as if the list was sorted
PlacesSorted(ln) == {i \in 1 .. lnt : i = lnt /\ lst[i].cc = ln}

Places(ln) == {i \in 1 .. lnt : lst[i].cc = ln}

\* the entry with the code gets the length, the first unused one otherwise
Store(ln, l) ==
    LET i == IF Places(ln) = {} THEN lnt + 1
             ELSE CHOOSE p \in Places(ln) : \A o \in Places(ln) : p <= o
    IN  [Allocated EXCEPT ![i] = [cc |-> ln, len |-> l % 256]]

ccl_add(ln, l) ==
    /\ lzt' = IF Full THEN Nuz ELSE lzt
    /\ lst' = Store(ln, l)
    /\ lnt' = IF Places(ln) = {} THEN lnt + 1 ELSE lnt
    /\ has_lens' = (has_lens \/ l # 0)

Line ==
    /\ pc = "lines" /\ lines < MaxLines
    /\ \E ln \in Code, l \in Lengths : ccl_add(ln, l)
    /\ lines' = lines + 1
    /\ UNCHANGED <<pc, c, off, tables, answer>>

\* realloc returned NULL
OutOfMemory ==
    /\ pc = "lines" /\ lines < MaxLines /\ Full
    /\ pc' = "exit"
    /\ UNCHANGED <<list, c, off, tables, answer>>

EndOfInput ==
    /\ pc = "lines"
    /\ pc' = "valid_cc_p"
    /\ UNCHANGED <<list, c, off, tables, answer>>

\* the entries of a letter, and those of the letters before it
Of(x) == {i \in 1 .. lnt : lst[i].cc[1] = x}
Before(x) == {i \in 1 .. lnt : lst[i].cc[1] < x}
\* the entries of a letter in the order of their second letters
Ahead(x, i) == {k \in Of(x) : lst[k].cc[2] < lst[i].cc[2]}
Place(x, n) == CHOOSE i \in Of(x) : Cardinality(Ahead(x, i)) = n - 1
Seconds(x) == [n \in 1 .. Cardinality(Of(x)) |-> lst[Place(x, n)].cc[2]]
Lens(x) == [n \in 1 .. Cardinality(Of(x)) |-> lst[Place(x, n)].len]

\* one turn of a loop over the letters; then comes what is next
Turn(next) ==
    IF c = Last THEN pc' = next /\ c' = First ELSE pc' = pc /\ c' = c + 1

WriteValid ==
    /\ pc = "valid_cc_p"
    /\ valid_cc' = Append(valid_cc, {lst[i].cc[2] : i \in Of(c)})
    /\ Turn(IF has_lens THEN "offs" ELSE "compiled")
    /\ UNCHANGED <<list, off, offs, cc, answer>>

\* mutation: as if only the codes were in _cc
WriteOffsOnce ==
    /\ pc = "offs"
    /\ offs' = Append(offs, <<Cardinality(Of(c)), off>>)
    /\ off' = off + Cardinality(Of(c))
    /\ Turn("cc")
    /\ UNCHANGED <<list, valid_cc, cc, answer>>

\* a letter's codes and their lengths come one after the other
WriteOffs ==
    /\ pc = "offs"
    /\ offs' = Append(offs, <<Cardinality(Of(c)), 2 * off>>)
    /\ off' = off + Cardinality(Of(c))
    /\ Turn("cc")
    /\ UNCHANGED <<list, valid_cc, cc, answer>>

WriteCc ==
    /\ pc = "cc"
    /\ cc' = cc \o Seconds(c) \o Lens(c)
    /\ Turn("compiled")
    /\ UNCHANGED <<list, off, valid_cc, offs, answer>>

C2I(x) == x - First + 1
valid_cc_p(x) ==
    x[1] \in Letter /\ x[2] \in Letter /\ x[2] \in valid_cc[C2I(x[1])]

\* mutation: the length is looked for next to the code
cc_lenBeside(x) ==
    LET len == offs[C2I(x[1])][1]
        start == offs[C2I(x[1])][2]
        Hits == {i \in start .. start + len - 1 : cc[i + 1] = x[2]}
    IN  IF Hits = {} THEN 0
        ELSE cc[(CHOOSE i \in Hits : \A k \in Hits : i <= k) + 2]

cc_len(x) ==
    LET len == offs[C2I(x[1])][1]
        start == offs[C2I(x[1])][2]
        Hits == {i \in start .. start + len - 1 : cc[i + 1] = x[2]}
    IN  IF Hits = {} THEN 0
        ELSE cc[(CHOOSE i \in Hits : \A k \in Hits : i <= k) + len + 1]

\* a checker asks; there is no cc_len if no line had a length
Ask ==
    /\ pc = "compiled"
    /\ \E x \in Code :
        answer' = [code |-> x, valid |-> valid_cc_p(x),
                   len |-> IF has_lens THEN cc_len(x) ELSE 0]
    /\ UNCHANGED <<pc, list, c, off, tables>>

Exited == pc = "exit" /\ UNCHANGED vars

Next == \/ Line \/ OutOfMemory \/ EndOfInput
        \/ WriteValid \/ WriteOffs \/ WriteCc \/ Ask \/ Exited

Spec == Init /\ [][Next]_vars

-----------------------------------------------------------------------------
(* No entry is stored behind the end of the array, which grows by          *)
(* doubling from nothing.                                                  *)
TypeOK ==
    /\ pc \in {"lines", "exit", "valid_cc_p", "offs", "cc", "compiled"}
    /\ lines \in 0 .. MaxLines /\ has_lens \in BOOLEAN
    /\ lnt \in Nat /\ lzt \in Nat /\ lnt <= lzt
    /\ DOMAIN lst = 1 .. lzt
    /\ \A i \in 1 .. lnt : lst[i].cc \in Code /\ lst[i].len \in 0 .. 255

(* However often a code is listed, it has one entry, so that the counts in *)
(* _offs are those of the codes in _cc.                                    *)
OncePerCode ==
    \A i, k \in 1 .. lnt : lst[i].cc = lst[k].cc => i = k

(* Whatever has been written of the tables belongs to the list, which does *)
(* not change any more: the letters that may follow; how many codes a      *)
(* letter has, and twice the number of those before it; from there on,     *)
(* these codes, and behind them their lengths.                             *)
Letters == Last - First + 1
ValidWritten ==
    /\ valid_cc \in Seq(SUBSET Letter)
    /\ Len(valid_cc) = CASE pc \in {"lines", "exit"} -> 0
                        [] pc = "valid_cc_p" -> c - First
                        [] OTHER -> Letters
    /\ \A x \in Letter : C2I(x) <= Len(valid_cc) =>
          valid_cc[C2I(x)] = {lst[i].cc[2] : i \in Of(x)}
OffsWritten ==
    /\ offs \in Seq(Nat \X Nat)
    /\ Len(offs) = CASE pc = "offs" -> c - First
                    [] pc = "cc" \/ (pc = "compiled" /\ has_lens) -> Letters
                    [] OTHER -> 0
    /\ \A x \in Letter : C2I(x) <= Len(offs) =>
          offs[C2I(x)] = <<Cardinality(Of(x)), 2 * Cardinality(Before(x))>>
    /\ pc \in {"lines", "exit", "valid_cc_p"} => off = 0
    /\ pc = "offs" => off = Cardinality(Before(c))
CcWritten ==
    /\ cc \in Seq(Nat)
    /\ pc \in {"lines", "exit", "valid_cc_p", "offs"} => cc = <<>>
    /\ pc = "cc" => Len(cc) = 2 * Cardinality(Before(c))
    /\ \A x \in Letter :
          (pc = "cc" /\ x < c) \/ (pc = "compiled" /\ has_lens) =>
            LET n == Cardinality(Of(x))
                s == 2 * Cardinality(Before(x))
            IN  /\ s + 2 * n <= Len(cc)
                /\ \A k \in 1 .. n : /\ cc[s + k] = Seconds(x)[k]
                                     /\ cc[s + n + k] = Lens(x)[k]
TablesWritten ==
    /\ c \in Letter
    /\ pc \in {"lines", "exit", "compiled"} => c = First
    /\ pc \in {"offs", "cc"} => has_lens
    /\ ~has_lens => \A i \in 1 .. lnt : lst[i].len = 0
    /\ pc # "compiled" => answer = Unasked
    /\ ValidWritten /\ OffsWritten /\ CcWritten

(* The tables written, the packed bits, the offsets and the interleaved    *)
(* codes and lengths, answer every question as the list read would.        *)
Listed == {lst[i].cc : i \in 1 .. lnt}
Map == INSTANCE CountryMap WITH
    Codes <- Code,
    listed <- [x \in Listed |->
                  (lst[CHOOSE i \in 1 .. lnt : lst[i].cc = x]).len]
Implements == Map!Spec
=============================================================================
