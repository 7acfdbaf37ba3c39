------------------------------- MODULE Report -------------------------------
(***************************************************************************)
(* What numchk promises, whatever the layout: each identifier asked for is *)
(* answered, before the next one is taken, by one report that depends on   *)
(* that identifier and on --all only.  Abstracts numchk.c and numchk.rl;   *)
(* Numchk implements it (ReportProofs).                                    *)
(***************************************************************************)
EXTENDS Integers, Sequences

CONSTANTS Check, Generic, Input, NoInput

VARIABLES asked,    \* the identifier
          all,      \* --all
          open,     \* the report is still due
          answer    \* the report, a sequence of entries

reportVars == <<asked, all, open, answer>>

Entry(x, v) == [by |-> x, ck |-> v]
Unknown == Entry("unknown", 0)

\* checker x recognises s
Knows(s, x) == (\E j \in DOMAIN s.fired : s.fired[j] = x) /\ s.verdict[x] >= 0
\* s conforms to the scheme of x; the generic schemes never identify
Sure(s, x) == Knows(s, x) /\ x \notin Generic /\ s.verdict[x] % 2 = 0
Cand(s, x) == Knows(s, x) /\ ~Sure(s, x)

\* the rank of x among the actions executed on s
Before(s, x, z) ==
    \E j, k \in DOMAIN s.fired : j < k /\ s.fired[j] = x /\ s.fired[k] = z

\* x is reported: sure ones always, candidates if asked for or nothing else
Listed(s, a, x) ==
    \/ Sure(s, x)
    \/ Cand(s, x) /\ (a \/ \A z \in Check : ~Sure(s, z))

(* r is the report on s: all that is listed and nothing else, each once,   *)
(* sure ones first, and each kind in the recogniser's order; or "unknown". *)
IsReport(r, s, a) ==
    IF \A x \in Check : ~Knows(s, x)
    THEN r = <<Unknown>>
    ELSE /\ \A n \in DOMAIN r : \E x \in Check :
               r[n] = Entry(x, s.verdict[x]) /\ Listed(s, a, x)
         /\ \A x \in Check : Listed(s, a, x) =>
               \E n \in DOMAIN r : r[n].by = x
         /\ \A m, n \in DOMAIN r : m < n =>
               \/ Sure(s, r[m].by) /\ ~Sure(s, r[n].by)
               \/ /\ Sure(s, r[m].by) <=> Sure(s, r[n].by)
                  /\ Before(s, r[m].by, r[n].by)

ReportInit == asked = NoInput /\ all = FALSE /\ open = FALSE /\ answer = <<>>

Configure ==
    /\ asked = NoInput /\ all' \in BOOLEAN
    /\ UNCHANGED <<asked, open, answer>>

Ask ==
    /\ ~open /\ open' = TRUE
    /\ asked' \in Input
    /\ answer' = <<>>
    /\ UNCHANGED all

Answer ==
    /\ open /\ open' = FALSE
    /\ answer' \in Seq([by : Check \cup {"unknown"}, ck : Int])
    /\ IsReport(answer', asked, all)
    /\ UNCHANGED <<asked, all>>

ReportNext == Configure \/ Ask \/ Answer
ReportSpec == ReportInit /\ [][ReportNext]_reportVars
=============================================================================
