------------------------------- MODULE Numchk -------------------------------
(***************************************************************************)
(* The driver: main() of src/src/numchk.c and chck1() of src/src/numchk.rl. *)
(*                                                                         *)
(* numchk reads identifiers, from its arguments or line by line from       *)
(* stdin.  chck1 runs the recogniser over one identifier; whenever one of  *)
(* its patterns matches, the action c(x) or g(x) calls the checker nmck_x  *)
(* and, unless that refuses the string, files its verdict in one of two    *)
(* static arrays.  prnt1_mln or prnt1_1ln then walks the arrays.  Arrays   *)
(* and counters are static: they outlive the input they were filled for.   *)
(*                                                                         *)
(* Abstraction: a string is what chck1 can tell of it, the actions the     *)
(* recogniser executes on it, in order (fired), and what every checker     *)
(* returns for it (verdict).                                               *)
(***************************************************************************)
EXTENDS Integers, Sequences, FiniteSets

CONSTANTS
    Check,      \* the checkers, named by the x of nmck_x
    Generic,    \* those invoked as g(x): luhn, verhoeff, damm10, damm16
    Input,      \* the strings
    NNMCK,      \* capacity of the arrays
    MaxArgs,    \* at most so many arguments on the command line
    NoInput     \* before the first string

(* What numchk.rl relies on: one slot per checker is enough because a      *)
(* string executes an action at most once, except @{c(istc)}, a finishing  *)
(* action, which may run again but whose checker then refuses the string.  *)
Strings ==
    {s \in [fired : Seq(Check), verdict : [Check -> Int]] :
        \A j, n \in DOMAIN s.fired :
            s.fired[j] = s.fired[n] /\ s.verdict[s.fired[j]] >= 0 => j = n}

ASSUME DriverAssumption ==
    /\ IsFiniteSet(Check) /\ Generic \subseteq Check
    /\ Input \subseteq Strings
    /\ NNMCK \in Nat /\ Cardinality(Check) <= NNMCK
    /\ MaxArgs \in Nat
    /\ NoInput \notin Input

VARIABLES
    pc,         \* where main is
    allp,       \* --all
    prnt1,      \* which printer --one-line selects
    nargs,      \* number of arguments; 0 means stdin
    argi,       \* arguments consumed
    str,        \* the identifier being worked on
    k,          \* next action of the recogniser to execute on str
    ncand, candpr, candck,      \* candidates: printer and verdict
    nsure, surepr, sureck,      \* sure identifications
    i,          \* loop index of the printer
    cells,      \* what has been printed about str, in order
    names,      \* how often str itself has been printed for it
    lines,      \* how many newlines have been printed for it
    rc,         \* exit code
    disrupted   \* "reading from stdin disrupted" went to stderr

arrays == <<ncand, candpr, candck, nsure, surepr, sureck>>
options == <<allp, prnt1, nargs>>
output == <<i, cells, names, lines>>
vars == <<pc, options, argi, str, k, arrays, output, rc, disrupted>>

None == "none"              \* a null printer
Slots == 0 .. NNMCK - 1

-----------------------------------------------------------------------------
Init ==
    /\ pc = "parse"
    /\ allp = FALSE /\ prnt1 = "mln" /\ nargs = 0 /\ argi = 0
    /\ str = NoInput /\ k = 1
    /\ ncand = 0 /\ nsure = 0
    /\ candpr = [j \in Slots |-> None] /\ candck = [j \in Slots |-> 0]
    /\ surepr = [j \in Slots |-> None] /\ sureck = [j \in Slots |-> 0]
    /\ i = 0 /\ cells = <<>> /\ names = 0 /\ lines = 0
    /\ rc = 0 /\ disrupted = FALSE

ParseError ==
    /\ pc = "parse"
    /\ rc' = 1 /\ pc' = "out"
    /\ UNCHANGED <<options, argi, str, k, arrays, output, disrupted>>

Parse ==
    /\ pc = "parse"
    /\ allp' \in BOOLEAN
    /\ prnt1' \in {"mln", "1ln"}
    /\ nargs' \in 0 .. MaxArgs
    /\ argi' = 0
    /\ pc' = "next"
    /\ UNCHANGED <<str, k, arrays, output, rc, disrupted>>

\* mutation: the loop over the arguments runs once too often
NextInputOverrun ==
    /\ pc = "next"
    /\ \/ nargs = 0 /\ UNCHANGED argi
       \/ nargs > 0 /\ argi <= nargs /\ argi' = argi + 1
    /\ str' \in Input
    /\ pc' = "chck1"
    /\ UNCHANGED <<options, k, arrays, output, rc, disrupted>>

\* mutation: the loop over the arguments does not advance
NextInputStuck ==
    /\ pc = "next"
    /\ nargs = 0 \/ argi < nargs
    /\ str' \in Input
    /\ pc' = "chck1"
    /\ UNCHANGED <<options, argi, k, arrays, output, rc, disrupted>>

\* getline() > 0, or the next of argi->args
NextInput ==
    /\ pc = "next"
    /\ \/ nargs = 0 /\ UNCHANGED argi
       \/ argi < nargs /\ argi' = argi + 1
    /\ str' \in Input
    /\ pc' = "chck1"
    /\ UNCHANGED <<options, k, arrays, output, rc, disrupted>>

\* getline() <= 0, for the end of the input and for an error alike
EndOfInput ==
    /\ pc = "next" /\ nargs = 0
    /\ disrupted' \in BOOLEAN
    /\ pc' = "out"
    /\ UNCHANGED <<options, argi, str, k, arrays, output, rc>>

EndOfArgs ==
    /\ pc = "next" /\ nargs > 0 /\ argi >= nargs
    /\ pc' = "out"
    /\ UNCHANGED <<options, argi, str, k, arrays, output, rc, disrupted>>

-----------------------------------------------------------------------------
(* chck1 *)

\* mutation: the counters keep the entries of the previous input
Chck1NoReset ==
    /\ pc = "chck1"
    /\ k' = 1
    /\ pc' = "exec"
    /\ UNCHANGED <<options, argi, str, arrays, output, rc, disrupted>>

Chck1 ==
    /\ pc = "chck1"
    /\ ncand' = 0 /\ nsure' = 0
    /\ k' = 1
    /\ pc' = "exec"
    /\ UNCHANGED <<options, argi, str, candpr, candck, surepr, sureck,
                   output, rc, disrupted>>

Fires == pc = "exec" /\ k <= Len(str.fired)
Fired == str.fired[k]
y == str.verdict[Fired]

\* mutation: break does not leave the action, which is executed again
RefuseAgain ==
    /\ Fires /\ y < 0
    /\ UNCHANGED vars

\* the checker refuses the string
Refuse ==
    /\ Fires /\ y < 0
    /\ k' = k + 1
    /\ UNCHANGED <<pc, options, argi, str, arrays, output, rc, disrupted>>

IsCand(x, v) == x \in Generic \/ v % 2 = 1

\* mutation: the verdict is stored after the counter has moved
maybeLateStore ==
    /\ Fires /\ y >= 0 /\ IsCand(Fired, y)
    /\ candpr' = [candpr EXCEPT ![ncand] = Fired]
    /\ candck' = [candck EXCEPT ![ncand + 1] = y]
    /\ ncand' = ncand + 1
    /\ k' = k + 1
    /\ UNCHANGED <<pc, options, argi, str, nsure, surepr, sureck, output,
                   rc, disrupted>>

maybe ==
    /\ Fires /\ y >= 0 /\ IsCand(Fired, y)
    /\ candpr' = [candpr EXCEPT ![ncand] = Fired]
    /\ candck' = [candck EXCEPT ![ncand] = y]
    /\ ncand' = ncand + 1
    /\ k' = k + 1
    /\ UNCHANGED <<pc, options, argi, str, nsure, surepr, sureck, output,
                   rc, disrupted>>

\* mutation: the entry is stored but the action not left
defoTwice ==
    /\ Fires /\ y >= 0 /\ ~IsCand(Fired, y) /\ nsure < NNMCK
    /\ surepr' = [surepr EXCEPT ![nsure] = Fired]
    /\ sureck' = [sureck EXCEPT ![nsure] = y]
    /\ nsure' = nsure + 1
    /\ UNCHANGED <<pc, options, argi, str, k, ncand, candpr, candck, output,
                   rc, disrupted>>

defo ==
    /\ Fires /\ y >= 0 /\ ~IsCand(Fired, y)
    /\ surepr' = [surepr EXCEPT ![nsure] = Fired]
    /\ sureck' = [sureck EXCEPT ![nsure] = y]
    /\ nsure' = nsure + 1
    /\ k' = k + 1
    /\ UNCHANGED <<pc, options, argi, str, ncand, candpr, candck, output,
                   rc, disrupted>>

ExecDone ==
    /\ pc = "exec" /\ k > Len(str.fired)
    /\ pc' = "prnt1"
    /\ UNCHANGED <<options, argi, str, k, arrays, output, rc, disrupted>>

-----------------------------------------------------------------------------
(* prnt1_mln prints str and a newline with every entry, prnt1_1ln once per *)
(* input.                                                                  *)

Multi == prnt1 = "mln"
PerEntry(n) == IF Multi THEN n + 1 ELSE n
Entry(pr, ck) == [by |-> pr, ck |-> ck]
Unknown == Entry("unknown", 0)

PrntUnknown ==
    /\ pc = "prnt1" /\ ncand = 0 /\ nsure = 0
    /\ cells' = <<Unknown>> /\ names' = 1 /\ lines' = 1
    /\ pc' = "next"
    /\ UNCHANGED <<options, argi, str, k, arrays, i, rc, disrupted>>

PrntBegin ==
    /\ pc = "prnt1" /\ (ncand > 0 \/ nsure > 0)
    /\ cells' = <<>> /\ lines' = 0
    /\ names' = IF Multi THEN 0 ELSE 1
    /\ i' = 0
    /\ pc' = "sure"
    /\ UNCHANGED <<options, argi, str, k, arrays, rc, disrupted>>

PrntSure ==
    /\ pc = "sure" /\ i < nsure
    /\ cells' = Append(cells, Entry(surepr[i], sureck[i]))
    /\ names' = PerEntry(names) /\ lines' = PerEntry(lines)
    /\ i' = i + 1
    /\ UNCHANGED <<pc, options, argi, str, k, arrays, rc, disrupted>>

\* mutation: candidates only on request, even if nothing is sure
SureDoneOnlyAll ==
    /\ pc = "sure" /\ i >= nsure
    /\ IF allp
       THEN pc' = "cand" /\ i' = 0
       ELSE pc' = "nl" /\ UNCHANGED i
    /\ UNCHANGED <<options, argi, str, k, arrays, cells, names, lines, rc,
                   disrupted>>

SureDone ==
    /\ pc = "sure" /\ i >= nsure
    /\ IF allp \/ nsure = 0
       THEN pc' = "cand" /\ i' = 0
       ELSE pc' = "nl" /\ UNCHANGED i
    /\ UNCHANGED <<options, argi, str, k, arrays, cells, names, lines, rc,
                   disrupted>>

PrntCand ==
    /\ pc = "cand" /\ i < ncand
    /\ cells' = Append(cells, Entry(candpr[i], candck[i]))
    /\ names' = PerEntry(names) /\ lines' = PerEntry(lines)
    /\ i' = i + 1
    /\ UNCHANGED <<pc, options, argi, str, k, arrays, rc, disrupted>>

CandDone ==
    /\ pc = "cand" /\ i >= ncand
    /\ pc' = "nl"
    /\ UNCHANGED <<options, argi, str, k, arrays, output, rc, disrupted>>

\* mutation: the closing newline is printed by either printer
PrntEndAlways ==
    /\ pc = "nl"
    /\ lines' = lines + 1
    /\ pc' = "next"
    /\ UNCHANGED <<options, argi, str, k, arrays, i, cells, names, rc,
                   disrupted>>

PrntEnd ==
    /\ pc = "nl"
    /\ lines' = IF Multi THEN lines ELSE lines + 1
    /\ pc' = "next"
    /\ UNCHANGED <<options, argi, str, k, arrays, i, cells, names, rc,
                   disrupted>>

Chck == Chck1 \/ Refuse \/ maybe \/ defo \/ ExecDone
Prnt == \/ PrntUnknown \/ PrntBegin \/ PrntSure \/ SureDone
        \/ PrntCand \/ CandDone \/ PrntEnd

\* main has returned: the process is gone
Terminated == pc = "out" /\ UNCHANGED vars

Next ==
    \/ ParseError \/ Parse \/ NextInput \/ EndOfInput \/ EndOfArgs
    \/ Chck \/ Prnt
    \/ Terminated

Spec == Init /\ [][Next]_vars

(* A running process is scheduled; whether stdin delivers another line or  *)
(* ends is its writer's choice, so NextInput and EndOfInput get no         *)
(* fairness.  Arguments are all there from the start.                      *)
FairSpec ==
    /\ Spec
    /\ WF_vars(Chck) /\ WF_vars(Prnt)
    /\ WF_vars(ParseError \/ Parse)
    /\ WF_vars(nargs > 0 /\ (NextInput \/ EndOfArgs))

-----------------------------------------------------------------------------
(* between the recogniser's start and the end of the report *)
Working == {"exec", "prnt1", "sure", "cand", "nl"}

(* Every variable of the driver holds a value of its C type. *)
TypeOK ==
    /\ pc \in {"parse", "next", "chck1", "exec", "prnt1", "sure", "cand",
               "nl", "out"}
    /\ allp \in BOOLEAN /\ prnt1 \in {"mln", "1ln"}
    /\ nargs \in 0 .. MaxArgs /\ argi \in 0 .. nargs
    /\ str \in Input \cup {NoInput} /\ k \in Nat \ {0}
    /\ ncand \in Nat /\ nsure \in Nat
    /\ candpr \in [Slots -> Check \cup {None}] /\ candck \in [Slots -> Int]
    /\ surepr \in [Slots -> Check \cup {None}] /\ sureck \in [Slots -> Int]
    /\ i \in Nat /\ names \in Nat /\ lines \in Nat
    /\ cells \in Seq([by : Check \cup {None, "unknown"}, ck : Int])
    /\ rc \in {0, 1} /\ disrupted \in BOOLEAN

(* The static arrays never overflow, however many inputs went before: when *)
(* maybe or defo is about to store, its slot is one of the NNMCK there are *)
(* (numchk.rl declares NNMCK slots for each kind of entry, unchecked).     *)
StoresInBounds ==
    Fires /\ y >= 0 => IF IsCand(Fired, y) THEN ncand \in Slots
                                           ELSE nsure \in Slots

(* What the printers walk is about the current string only: every occupied *)
(* slot pairs a printer with the verdict its own checker gave for str, and *)
(* the two arrays split the verdicts by their lowest bit.                  *)
EntriesCurrent ==
    pc \in Working =>
        /\ \A j \in 0 .. ncand - 1 :
              candpr[j] \in Check /\ candck[j] = str.verdict[candpr[j]]
                 /\ candck[j] >= 0 /\ IsCand(candpr[j], candck[j])
        /\ \A j \in 0 .. nsure - 1 :
              surepr[j] \in Check /\ sureck[j] = str.verdict[surepr[j]]
                 /\ sureck[j] >= 0 /\ ~IsCand(surepr[j], sureck[j])

(* Why slots never run out.  EntriesCurrent is not inductive alone: that a *)
(* slot is free follows from the occupied ones holding distinct checkers,  *)
(* and that from the entries standing for actions executed earlier.        *)
(* The string is there while it is worked on, and the counters fit. *)
Bounded ==
    /\ pc \in Working \cup {"chck1"} => str \in Input
    /\ ncand <= NNMCK /\ nsure <= NNMCK

(* Every entry was filed by an action executed earlier on this string. *)
Executed ==
    pc = "exec" =>
        /\ \A j \in 0 .. ncand - 1 :
              \E n \in DOMAIN str.fired : n < k /\ str.fired[n] = candpr[j]
        /\ \A j \in 0 .. nsure - 1 :
              \E n \in DOMAIN str.fired : n < k /\ str.fired[n] = surepr[j]

(* No two slots of an array hold the same checker. *)
Distinct ==
    /\ \A j, n \in 0 .. ncand - 1 : candpr[j] = candpr[n] => j = n
    /\ \A j, n \in 0 .. nsure - 1 : surepr[j] = surepr[n] => j = n

IInv == TypeOK /\ Bounded /\ EntriesCurrent /\ Executed /\ Distinct

(* Line discipline.  Once an input is answered, --one-line has printed     *)
(* exactly one line that names the string once; the default printer one    *)
(* line per entry, each naming the string; either way there is output.     *)
Answered == pc \in {"next", "out"} /\ str # NoInput
LineDiscipline ==
    Answered => /\ cells # <<>> /\ names = lines
                /\ lines = IF Multi THEN Len(cells) ELSE 1

(* What is printed implements Report: the answer is the cells, once the    *)
(* driver is back for the next input.  Identifiers are answered one by one *)
(* and each by what its own checkers say, whatever the arrays held before. *)
R == INSTANCE Report WITH
        asked <- str, all <- allp,
        open <- pc \notin {"parse", "next", "out"},
        answer <- IF pc \in {"parse", "next", "out"} THEN cells ELSE <<>>
ImplementsReport == R!ReportSpec

(* Every input that is read is answered: the loops of chck1 and of the     *)
(* printers all end.                                                       *)
InputAnswered == pc = "chck1" ~> pc = "next"

(* With arguments the program ends. *)
ArgsTerminate == (pc = "next" /\ nargs > 0) ~> pc = "out"
=============================================================================
