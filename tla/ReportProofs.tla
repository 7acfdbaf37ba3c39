---------------------------- MODULE ReportProofs ----------------------------
(***************************************************************************)
(* The driver implements Report: whatever the checkers say, and however    *)
(* many inputs there are, each is answered by all sure identifications, by *)
(* the candidates where they are asked for or nothing is sure, each once   *)
(* and in the order of the recogniser's actions.                           *)
(***************************************************************************)
EXTENDS NumchkProofs, SequenceTheorems

\* the recogniser has been left
Reporting == {"prnt1", "sure", "cand", "nl"}
\* the actions executed so far are those before it
Reached == IF pc = "exec" THEN k ELSE Len(str.fired) + 1

\* x was executed, before z
Earlier(x, z) ==
    \E j, n \in DOMAIN str.fired :
        j < n /\ str.fired[j] = x /\ str.fired[n] = z

(* Every entry stands for an action that was executed, and every action    *)
(* whose checker did not refuse the string has its entry, in that order.   *)
Filed ==
    /\ \A j \in 0 .. ncand - 1 : \E n \in DOMAIN str.fired :
          n < Reached /\ str.fired[n] = candpr[j]
    /\ \A j \in 0 .. nsure - 1 : \E n \in DOMAIN str.fired :
          n < Reached /\ str.fired[n] = surepr[j]
    /\ \A n \in DOMAIN str.fired :
          n < Reached /\ str.verdict[str.fired[n]] >= 0 =>
              \/ \E j \in 0 .. ncand - 1 : candpr[j] = str.fired[n]
              \/ \E j \in 0 .. nsure - 1 : surepr[j] = str.fired[n]
    /\ \A j, l \in 0 .. ncand - 1 : j < l => Earlier(candpr[j], candpr[l])
    /\ \A j, l \in 0 .. nsure - 1 : j < l => Earlier(surepr[j], surepr[l])

(* The first s sure entries and after them the first c candidates are out. *)
Printed(s, c) ==
    /\ Len(cells) = s + c
    /\ \A n \in 1 .. s : cells[n] = Entry(surepr[n - 1], sureck[n - 1])
    /\ \A n \in 1 .. c : cells[s + n] = Entry(candpr[n - 1], candck[n - 1])
Wanted == allp \/ nsure = 0
Page ==
    /\ pc \in {"sure", "cand", "nl"} => ncand > 0 \/ nsure > 0
    /\ pc = "sure" => i <= nsure /\ Printed(i, 0)
    /\ pc = "cand" => i <= ncand /\ Wanted /\ Printed(nsure, i)
    /\ pc = "nl" => Printed(nsure, IF Wanted THEN ncand ELSE 0)

(* What the printers have counted. *)
Counted ==
    pc \in {"sure", "cand", "nl"} =>
        /\ names = IF Multi THEN Len(cells) ELSE 1
        /\ lines = IF Multi THEN Len(cells) ELSE 0

Fresh == pc = "parse" => str = NoInput

RInv ==
    /\ pc \in Working => Filed
    /\ Page /\ Counted /\ Fresh /\ LineDiscipline

-----------------------------------------------------------------------------
(* What a string is while it is worked on. *)
LEMMA StringType ==
    ASSUME IInv, pc \in Working
    PROVE  /\ str \in Input /\ str.fired \in Seq(Check)
           /\ str.verdict \in [Check -> Int]
           /\ Len(str.fired) \in Nat /\ DOMAIN str.fired = 1 .. Len(str.fired)
<1>1. str \in Input
  BY DEF IInv, Bounded
<1>2. str.fired \in Seq(Check) /\ str.verdict \in [Check -> Int]
  BY <1>1, DriverAssumption DEF Strings
<1> QED BY <1>1, <1>2

-----------------------------------------------------------------------------
(* Filing *)

(* Steps that leave the arrays alone, with as many actions executed. *)
LEMMA QuietFiled ==
    ASSUME Filed, UNCHANGED <<arrays, str>>,
           \A n \in DOMAIN str.fired : n < Reached' <=> n < Reached
    PROVE  Filed'
<1>1. UNCHANGED <<ncand, candpr, nsure, surepr, str>>
  BY DEF arrays
<1>2. \A x, z : Earlier(x, z)' = Earlier(x, z)
  BY <1>1 DEF Earlier
<1> QED BY <1>1, <1>2 DEF Filed

LEMMA RefuseFiled == IInv /\ Filed /\ Refuse => Filed'
<1> SUFFICES ASSUME IInv, Filed, Refuse PROVE Filed'
  OBVIOUS
<1>1. /\ pc = "exec" /\ pc' = "exec" /\ k' = k + 1 /\ str' = str
      /\ UNCHANGED <<ncand, candpr, nsure, surepr>>
      /\ str.verdict[str.fired[k]] < 0
  BY DEF Refuse, Fires, arrays, Fired, y
<1>2. Reached = k /\ Reached' = k + 1 /\ k \in Nat
  BY <1>1 DEF Reached, IInv, TypeOK
<1>3. \A n \in DOMAIN str.fired :
        /\ n \in Nat /\ (n < k => n < k + 1) /\ (n < k + 1 => n < k \/ n = k)
        /\ str.fired[n] \in Check /\ str.verdict[str.fired[n]] \in Int
  BY <1>1, <1>2, StringType DEF Working
<1>4. \A x, z : Earlier(x, z)' = Earlier(x, z)
  BY <1>1 DEF Earlier
<1>5. \A n \in DOMAIN str.fired :
        n < k + 1 /\ str.verdict[str.fired[n]] >= 0 => n < k
  <2> SUFFICES ASSUME NEW n \in DOMAIN str.fired, n < k + 1,
                      str.verdict[str.fired[n]] >= 0
               PROVE  n < k
    OBVIOUS
  <2>1. n # k
    BY <1>1, <1>3
  <2> QED BY <1>3, <2>1
<1> QED BY <1>1, <1>2, <1>3, <1>4, <1>5 DEF Filed

(* At first there is nothing to file and nothing filed. *)
LEMMA Chck1Filed == IInv /\ Chck1 => Filed'
<1> SUFFICES ASSUME IInv, Chck1 PROVE Filed'
  OBVIOUS
<1>1. str \in Input
  BY DEF IInv, Bounded, Chck1
<1>2. str.fired \in Seq(Check)
  BY <1>1, DriverAssumption DEF Strings
<1>3. /\ pc' = "exec" /\ k' = 1 /\ str' = str /\ ncand' = 0 /\ nsure' = 0
  BY DEF Chck1
<1>4. Reached' = 1
  BY <1>3 DEF Reached
<1>5. \A n \in DOMAIN str.fired : ~(n < 1)
  BY <1>2
<1>6. \A j \in 0 .. 0 - 1 : FALSE
  OBVIOUS
<1> QED BY <1>3, <1>4, <1>5, <1>6 DEF Filed

(* The entry filed stands for the action executed, behind all others. *)
LEMMA maybeFiled == IInv /\ Filed /\ maybe => Filed'
<1> SUFFICES ASSUME IInv, Filed, maybe PROVE Filed'
  OBVIOUS
<1>1. /\ pc = "exec" /\ pc' = "exec" /\ k' = k + 1 /\ str' = str
      /\ candpr' = [candpr EXCEPT ![ncand] = str.fired[k]]
      /\ ncand' = ncand + 1
      /\ UNCHANGED <<nsure, surepr>>
  BY DEF maybe, Fires, Fired
<1>2. /\ Reached = k /\ Reached' = k + 1 /\ k \in Nat /\ ncand \in Nat
      /\ nsure \in Nat
  BY <1>1 DEF Reached, IInv, TypeOK
<1>3. ncand \in Slots /\ k \in DOMAIN str.fired
  BY RoomToStore, FiredType DEF maybe, StoresInBounds, IInv
<1>4. /\ candpr'[ncand] = str.fired[k]
      /\ \A j \in 0 .. ncand - 1 : candpr'[j] = candpr[j]
      /\ \A j \in 0 .. ncand' - 1 : j # ncand => j \in 0 .. ncand - 1
      /\ ncand \in 0 .. ncand' - 1
      /\ \A j \in 0 .. ncand - 1 : j \in 0 .. ncand' - 1 /\ j < ncand
  BY <1>1, <1>2, <1>3 DEF IInv, TypeOK, Slots
<1>5. \A n \in DOMAIN str.fired :
        /\ n \in Nat /\ (n < k => n < k + 1) /\ (n < k + 1 => n < k \/ n = k)
  BY <1>1, <1>2, StringType DEF Working
<1>6. k < k + 1
  BY <1>2
<1>7. \A x, z : Earlier(x, z)' = Earlier(x, z)
  BY <1>1 DEF Earlier
<1>8. ASSUME NEW j \in 0 .. ncand' - 1
      PROVE  \E n \in DOMAIN str.fired : n < k + 1 /\ str.fired[n] = candpr'[j]
  <2>1. CASE j = ncand
    BY <1>3, <1>4, <1>6, <2>1
  <2>2. CASE j # ncand
    BY <1>2, <1>4, <1>5, <2>2 DEF Filed
  <2> QED BY <2>1, <2>2
<1>9. ASSUME NEW j \in 0 .. nsure - 1
      PROVE  \E n \in DOMAIN str.fired : n < k + 1 /\ str.fired[n] = surepr[j]
  BY <1>2, <1>5 DEF Filed
<1>10. ASSUME NEW n \in DOMAIN str.fired, n < k + 1,
              str.verdict[str.fired[n]] >= 0
       PROVE  \/ \E j \in 0 .. ncand' - 1 : candpr'[j] = str.fired[n]
              \/ \E j \in 0 .. nsure - 1 : surepr[j] = str.fired[n]
  <2>1. CASE n = k
    BY <1>4, <2>1
  <2>2. CASE n < k
    <3>1. \/ \E j \in 0 .. ncand - 1 : candpr[j] = str.fired[n]
          \/ \E j \in 0 .. nsure - 1 : surepr[j] = str.fired[n]
      BY <1>2, <1>10, <2>2 DEF Filed
    <3> QED BY <1>4, <3>1
  <2> QED BY <1>5, <1>10, <2>1, <2>2
<1>11. ASSUME NEW j \in 0 .. ncand' - 1, NEW l \in 0 .. ncand' - 1, j < l
       PROVE  Earlier(candpr'[j], candpr'[l])
  <2>1. j # ncand /\ j \in 0 .. ncand - 1
    BY <1>1, <1>2, <1>4, <1>11
  <2>2. CASE l = ncand
    <3>1. PICK n \in DOMAIN str.fired : n < k /\ str.fired[n] = candpr[j]
      BY <1>2, <2>1 DEF Filed
    <3> QED BY <1>3, <1>4, <2>1, <2>2, <3>1 DEF Earlier
  <2>3. CASE l # ncand
    BY <1>4, <1>11, <2>1, <2>3 DEF Filed
  <2> QED BY <2>2, <2>3
<1> QED BY <1>1, <1>2, <1>7, <1>8, <1>9, <1>10, <1>11 DEF Filed

LEMMA defoFiled == IInv /\ Filed /\ defo => Filed'
<1> SUFFICES ASSUME IInv, Filed, defo PROVE Filed'
  OBVIOUS
<1>1. /\ pc = "exec" /\ pc' = "exec" /\ k' = k + 1 /\ str' = str
      /\ surepr' = [surepr EXCEPT ![nsure] = str.fired[k]]
      /\ nsure' = nsure + 1
      /\ UNCHANGED <<ncand, candpr>>
  BY DEF defo, Fires, Fired
<1>2. /\ Reached = k /\ Reached' = k + 1 /\ k \in Nat /\ nsure \in Nat
      /\ ncand \in Nat
  BY <1>1 DEF Reached, IInv, TypeOK
<1>3. nsure \in Slots /\ k \in DOMAIN str.fired
  BY RoomToStore, FiredType DEF defo, StoresInBounds, IInv
<1>4. /\ surepr'[nsure] = str.fired[k]
      /\ \A j \in 0 .. nsure - 1 : surepr'[j] = surepr[j]
      /\ \A j \in 0 .. nsure' - 1 : j # nsure => j \in 0 .. nsure - 1
      /\ nsure \in 0 .. nsure' - 1
      /\ \A j \in 0 .. nsure - 1 : j \in 0 .. nsure' - 1 /\ j < nsure
  BY <1>1, <1>2, <1>3 DEF IInv, TypeOK, Slots
<1>5. \A n \in DOMAIN str.fired :
        /\ n \in Nat /\ (n < k => n < k + 1) /\ (n < k + 1 => n < k \/ n = k)
  BY <1>1, <1>2, StringType DEF Working
<1>6. k < k + 1
  BY <1>2
<1>7. \A x, z : Earlier(x, z)' = Earlier(x, z)
  BY <1>1 DEF Earlier
<1>8. ASSUME NEW j \in 0 .. nsure' - 1
      PROVE  \E n \in DOMAIN str.fired : n < k + 1 /\ str.fired[n] = surepr'[j]
  <2>1. CASE j = nsure
    BY <1>3, <1>4, <1>6, <2>1
  <2>2. CASE j # nsure
    BY <1>2, <1>4, <1>5, <2>2 DEF Filed
  <2> QED BY <2>1, <2>2
<1>9. ASSUME NEW j \in 0 .. ncand - 1
      PROVE  \E n \in DOMAIN str.fired : n < k + 1 /\ str.fired[n] = candpr[j]
  BY <1>2, <1>5 DEF Filed
<1>10. ASSUME NEW n \in DOMAIN str.fired, n < k + 1,
              str.verdict[str.fired[n]] >= 0
       PROVE  \/ \E j \in 0 .. ncand - 1 : candpr[j] = str.fired[n]
              \/ \E j \in 0 .. nsure' - 1 : surepr'[j] = str.fired[n]
  <2>1. CASE n = k
    BY <1>4, <2>1
  <2>2. CASE n < k
    <3>1. \/ \E j \in 0 .. ncand - 1 : candpr[j] = str.fired[n]
          \/ \E j \in 0 .. nsure - 1 : surepr[j] = str.fired[n]
      BY <1>2, <1>10, <2>2 DEF Filed
    <3> QED BY <1>4, <3>1
  <2> QED BY <1>5, <1>10, <2>1, <2>2
<1>11. ASSUME NEW j \in 0 .. nsure' - 1, NEW l \in 0 .. nsure' - 1, j < l
       PROVE  Earlier(surepr'[j], surepr'[l])
  <2>1. j # nsure /\ j \in 0 .. nsure - 1
    BY <1>1, <1>2, <1>4, <1>11
  <2>2. CASE l = nsure
    <3>1. PICK n \in DOMAIN str.fired : n < k /\ str.fired[n] = surepr[j]
      BY <1>2, <2>1 DEF Filed
    <3> QED BY <1>3, <1>4, <2>1, <2>2, <3>1 DEF Earlier
  <2>3. CASE l # nsure
    BY <1>4, <1>11, <2>1, <2>3 DEF Filed
  <2> QED BY <2>2, <2>3
<1> QED BY <1>1, <1>2, <1>7, <1>8, <1>9, <1>10, <1>11 DEF Filed

(* Leaving the recogniser, every action has been executed. *)
LEMMA ExecDoneFiled == IInv /\ Filed /\ ExecDone => Filed'
<1> SUFFICES ASSUME IInv, Filed, ExecDone PROVE Filed'
  OBVIOUS
<1>1. /\ pc = "exec" /\ pc' = "prnt1" /\ k > Len(str.fired)
      /\ UNCHANGED <<arrays, str>>
  BY DEF ExecDone
<1>2. Reached = k /\ Reached' = Len(str.fired) + 1 /\ k \in Nat
  BY <1>1 DEF Reached, IInv, TypeOK
<1>3. \A n \in DOMAIN str.fired : n < Reached' <=> n < Reached
  BY <1>1, <1>2, StringType DEF Working
<1> QED BY <1>1, <1>3, QuietFiled

LEMMA PrntFiled ==
    Filed /\ (Prnt \/ UNCHANGED vars) => Filed'
<1> SUFFICES ASSUME Filed, Prnt \/ UNCHANGED vars PROVE Filed'
  OBVIOUS
<1>1. UNCHANGED <<arrays, str, k>> /\ (pc' = "exec" <=> pc = "exec")
  BY DEF Prnt, PrntUnknown, PrntBegin, PrntSure, SureDone, PrntCand,
         CandDone, PrntEnd, vars
<1>2. Reached' = Reached
  BY <1>1 DEF Reached
<1> QED BY <1>1, <1>2, QuietFiled

LEMMA NextFiled ==
    IInv /\ (pc \in Working => Filed) /\ [Next]_vars
        => (pc' \in Working => Filed')
<1> SUFFICES ASSUME IInv, pc \in Working => Filed, [Next]_vars, pc' \in Working
             PROVE  Filed'
  OBVIOUS
<1>1. CASE Chck1
  BY <1>1, Chck1Filed
<1>2. CASE Refuse \/ maybe \/ defo \/ ExecDone
  BY <1>2, RefuseFiled, maybeFiled, defoFiled, ExecDoneFiled
     DEF Refuse, maybe, defo, ExecDone, Fires, Working
<1>3. CASE Prnt
  BY <1>3, PrntFiled
     DEF Prnt, PrntUnknown, PrntBegin, PrntSure, SureDone, PrntCand,
         CandDone, PrntEnd, Working
<1>4. CASE UNCHANGED vars
  BY <1>4, PrntFiled DEF vars
<1>5. CASE ParseError \/ Parse \/ NextInput \/ EndOfInput \/ EndOfArgs
  BY <1>5 DEF ParseError, Parse, NextInput, EndOfInput, EndOfArgs, Working
<1> QED BY <1>1, <1>2, <1>3, <1>4, <1>5 DEF Next, Chck, Terminated

-----------------------------------------------------------------------------
(* Printing *)

(* A further entry continues the page. *)
LEMMA Continues ==
    ASSUME NEW c, NEW T, c \in Seq(T), NEW e \in T
    PROVE  /\ Append(c, e) \in Seq(T)
           /\ Len(Append(c, e)) = Len(c) + 1
           /\ \A n \in 1 .. Len(c) : Append(c, e)[n] = c[n]
           /\ Append(c, e)[Len(c) + 1] = e
OBVIOUS

(* An occupied slot holds an entry. *)
LEMMA EntryType ==
    ASSUME IInv, pc \in Working
    PROVE  /\ \A j \in 0 .. nsure - 1 :
                  Entry(surepr[j], sureck[j]) \in [by : Check, ck : Int]
           /\ \A j \in 0 .. ncand - 1 :
                  Entry(candpr[j], candck[j]) \in [by : Check, ck : Int]
<1>1. ASSUME NEW j \in 0 .. nsure - 1
      PROVE  surepr[j] \in Check /\ sureck[j] \in Int
  <2>1. j \in Slots
    BY DriverAssumption DEF IInv, TypeOK, Bounded, Slots
  <2> QED BY <2>1 DEF IInv, TypeOK, EntriesCurrent
<1>2. ASSUME NEW j \in 0 .. ncand - 1
      PROVE  candpr[j] \in Check /\ candck[j] \in Int
  <2>1. j \in Slots
    BY DriverAssumption DEF IInv, TypeOK, Bounded, Slots
  <2> QED BY <2>1 DEF IInv, TypeOK, EntriesCurrent
<1> QED BY <1>1, <1>2 DEF Entry

LEMMA PrntBeginPage == IInv /\ PrntBegin => Page' /\ Counted'
<1> SUFFICES ASSUME IInv, PrntBegin PROVE Page' /\ Counted'
  OBVIOUS
<1>1. /\ pc' = "sure" /\ i' = 0 /\ cells' = <<>> /\ lines' = 0
      /\ names' = (IF Multi THEN 0 ELSE 1)
      /\ prnt1' = prnt1 /\ (ncand > 0 \/ nsure > 0)
      /\ UNCHANGED <<ncand, nsure, surepr, sureck, candpr, candck>>
  BY DEF PrntBegin, options, arrays
<1>2. Printed(0, 0)'
  BY <1>1 DEF Printed
<1>3. nsure \in Nat
  BY DEF IInv, TypeOK
<1>4. Len(cells') = 0
  BY <1>1
<1>5. i' <= nsure' /\ Printed(i, 0)'
  BY <1>1, <1>2, <1>3 DEF Printed
<1>6. Page'
  BY <1>1, <1>5 DEF Page
<1>7. Counted'
  BY <1>1, <1>4 DEF Counted, Multi
<1> QED BY <1>6, <1>7

LEMMA PrntSurePage == IInv /\ Page /\ Counted /\ PrntSure => Page' /\ Counted'
<1> SUFFICES ASSUME IInv, Page, Counted, PrntSure PROVE Page' /\ Counted'
  OBVIOUS
<1> DEFINE e == Entry(surepr[i], sureck[i])
           T == [by : Check \cup {None, "unknown"}, ck : Int]
<1>1. /\ pc = "sure" /\ pc' = "sure" /\ i < nsure /\ i' = i + 1
      /\ cells' = Append(cells, e)
      /\ names' = PerEntry(names) /\ lines' = PerEntry(lines)
      /\ UNCHANGED <<ncand, nsure, surepr, sureck, candpr, candck, prnt1>>
  BY DEF PrntSure, arrays, options
<1>2. /\ i \in Nat /\ nsure \in Nat /\ cells \in Seq(T)
      /\ names \in Nat /\ lines \in Nat
  BY DEF IInv, TypeOK
<1>3. i \in 0 .. nsure - 1
  BY <1>1, <1>2
<1>4. e \in T
  BY <1>1, <1>3, EntryType DEF Working
<1>5. /\ Len(cells) = i
      /\ \A n \in 1 .. i : cells[n] = Entry(surepr[n - 1], sureck[n - 1])
      /\ ncand > 0 \/ nsure > 0
  BY <1>1, <1>2 DEF Page, Printed
<1> HIDE DEF e, T
<1>6. /\ Len(cells') = i + 1 /\ cells'[i + 1] = e
      /\ \A n \in 1 .. i : cells'[n] = cells[n]
  BY <1>1, <1>2, <1>4, <1>5, Continues
<1>7. \A n \in 1 .. i + 1 : cells'[n] = Entry(surepr[n - 1], sureck[n - 1])
  <2> SUFFICES ASSUME NEW n \in 1 .. i + 1
               PROVE  cells'[n] = Entry(surepr[n - 1], sureck[n - 1])
    OBVIOUS
  <2>1. CASE n = i + 1
    <3>1. n - 1 = i
      BY <1>2, <2>1
    <3> QED BY <1>6, <2>1, <3>1 DEF e
  <2>2. CASE n # i + 1
    <3>1. n \in 1 .. i
      BY <1>2, <2>2
    <3> QED BY <1>5, <1>6, <3>1
  <2> QED BY <2>1, <2>2
<1>8. Printed(i, 0)'
  <2>1. Len(cells') = i' + 0 /\ 1 .. i' = 1 .. i + 1 /\ 1 .. 0 = {}
    BY <1>1, <1>2, <1>6
  <2> QED BY <1>1, <1>7, <2>1 DEF Printed, Entry
<1>9. i' <= nsure'
  BY <1>1, <1>2
<1>10. Page'
  BY <1>1, <1>5, <1>8, <1>9 DEF Page, Printed
<1>11. Counted'
  BY <1>1, <1>2, <1>5, <1>6 DEF Counted, Multi, PerEntry
<1> QED BY <1>10, <1>11

LEMMA SureDonePage == IInv /\ Page /\ Counted /\ SureDone => Page' /\ Counted'
<1> SUFFICES ASSUME IInv, Page, Counted, SureDone PROVE Page' /\ Counted'
  OBVIOUS
<1>1. /\ pc = "sure" /\ i >= nsure
      /\ IF Wanted THEN pc' = "cand" /\ i' = 0 ELSE pc' = "nl" /\ i' = i
      /\ UNCHANGED <<ncand, nsure, surepr, sureck, candpr, candck, cells,
                     names, lines, prnt1, allp>>
  BY DEF SureDone, arrays, options, Wanted
<1>2. i \in Nat /\ nsure \in Nat /\ ncand \in Nat
  BY DEF IInv, TypeOK
<1>3. i = nsure /\ Printed(nsure, 0) /\ (ncand > 0 \/ nsure > 0)
  BY <1>1, <1>2 DEF Page
<1>4. Printed(nsure, 0)' /\ (Wanted' <=> Wanted)
  BY <1>1, <1>3 DEF Printed, Wanted, Entry
<1>5. Page'
  <2>1. CASE Wanted
    <3>1. 0 <= ncand'
      BY <1>1, <1>2
    <3> QED BY <1>1, <1>3, <1>4, <2>1, <3>1 DEF Page, Printed
  <2>2. CASE ~Wanted
    BY <1>1, <1>3, <1>4, <2>2 DEF Page, Printed
  <2> QED BY <2>1, <2>2
<1>6. Counted'
  BY <1>1 DEF Counted, Multi
<1> QED BY <1>5, <1>6

LEMMA PrntCandPage == IInv /\ Page /\ Counted /\ PrntCand => Page' /\ Counted'
<1> SUFFICES ASSUME IInv, Page, Counted, PrntCand PROVE Page' /\ Counted'
  OBVIOUS
<1> DEFINE e == Entry(candpr[i], candck[i])
           T == [by : Check \cup {None, "unknown"}, ck : Int]
<1>1. /\ pc = "cand" /\ pc' = "cand" /\ i < ncand /\ i' = i + 1
      /\ cells' = Append(cells, e)
      /\ names' = PerEntry(names) /\ lines' = PerEntry(lines)
      /\ UNCHANGED <<ncand, nsure, surepr, sureck, candpr, candck, prnt1,
                     allp>>
  BY DEF PrntCand, arrays, options
<1>2. /\ i \in Nat /\ ncand \in Nat /\ nsure \in Nat /\ cells \in Seq(T)
      /\ names \in Nat /\ lines \in Nat
  BY DEF IInv, TypeOK
<1>3. i \in 0 .. ncand - 1
  BY <1>1, <1>2
<1>4. e \in T
  BY <1>1, <1>3, EntryType DEF Working
<1>5. /\ Len(cells) = nsure + i /\ Wanted
      /\ \A n \in 1 .. nsure : cells[n] = Entry(surepr[n - 1], sureck[n - 1])
      /\ \A n \in 1 .. i :
            cells[nsure + n] = Entry(candpr[n - 1], candck[n - 1])
      /\ ncand > 0 \/ nsure > 0
  BY <1>1, <1>2 DEF Page, Printed
<1> HIDE DEF e, T
<1>6. /\ Len(cells') = nsure + i + 1 /\ cells'[nsure + i + 1] = e
      /\ \A n \in 1 .. nsure + i : cells'[n] = cells[n]
  BY <1>1, <1>2, <1>4, <1>5, Continues
<1>7. \A n \in 1 .. nsure : cells'[n] = Entry(surepr[n - 1], sureck[n - 1])
  <2>1. \A n \in 1 .. nsure : n \in 1 .. nsure + i
    BY <1>2
  <2> QED BY <1>5, <1>6, <2>1
<1>8. \A n \in 1 .. i + 1 :
        cells'[nsure + n] = Entry(candpr[n - 1], candck[n - 1])
  <2> SUFFICES ASSUME NEW n \in 1 .. i + 1
               PROVE  cells'[nsure + n] = Entry(candpr[n - 1], candck[n - 1])
    OBVIOUS
  <2>1. CASE n = i + 1
    <3>1. n - 1 = i /\ nsure + n = nsure + i + 1
      BY <1>2, <2>1
    <3> QED BY <1>6, <2>1, <3>1 DEF e
  <2>2. CASE n # i + 1
    <3>1. n \in 1 .. i /\ nsure + n \in 1 .. nsure + i
      BY <1>2, <2>2
    <3> QED BY <1>5, <1>6, <3>1
  <2> QED BY <2>1, <2>2
<1>9. Printed(nsure, i)'
  <2>1. Len(cells') = nsure + i' /\ 1 .. i' = 1 .. i + 1
    BY <1>1, <1>2, <1>6
  <2> QED BY <1>1, <1>7, <1>8, <2>1 DEF Printed, Entry
<1>10. i' <= ncand' /\ Wanted'
  BY <1>1, <1>2, <1>5 DEF Wanted
<1>11. Page'
  BY <1>1, <1>5, <1>9, <1>10 DEF Page, Printed
<1>12. Counted'
  BY <1>1, <1>2, <1>5, <1>6 DEF Counted, Multi, PerEntry
<1> QED BY <1>11, <1>12

LEMMA CandDonePage == IInv /\ Page /\ Counted /\ CandDone => Page' /\ Counted'
<1> SUFFICES ASSUME IInv, Page, Counted, CandDone PROVE Page' /\ Counted'
  OBVIOUS
<1>1. /\ pc = "cand" /\ pc' = "nl" /\ i >= ncand
      /\ UNCHANGED <<ncand, nsure, surepr, sureck, candpr, candck, cells,
                     names, lines, prnt1, allp, i>>
  BY DEF CandDone, arrays, options, output
<1>2. i \in Nat /\ ncand \in Nat
  BY DEF IInv, TypeOK
<1>3. i = ncand /\ Printed(nsure, ncand) /\ Wanted /\ (ncand > 0 \/ nsure > 0)
  BY <1>1, <1>2 DEF Page
<1>4. Printed(nsure, ncand)' /\ Wanted'
  BY <1>1, <1>3 DEF Printed, Wanted, Entry
<1>5. Page'
  BY <1>1, <1>3, <1>4 DEF Page, Printed
<1>6. Counted'
  BY <1>1 DEF Counted, Multi
<1> QED BY <1>5, <1>6

LEMMA NextPage ==
    IInv /\ Page /\ Counted /\ [Next]_vars => Page' /\ Counted'
<1> SUFFICES ASSUME IInv, Page, Counted, [Next]_vars PROVE Page' /\ Counted'
  OBVIOUS
<1>1. CASE pc' \notin {"sure", "cand", "nl"}
  BY <1>1 DEF Page, Counted
<1>2. CASE UNCHANGED vars
  BY <1>2 DEF Page, Counted, Printed, Wanted, Multi, Entry, vars, options,
              arrays, output
<1>3. CASE pc' \in {"sure", "cand", "nl"} /\ ~UNCHANGED vars
  <2>1. PrntBegin \/ PrntSure \/ SureDone \/ PrntCand \/ CandDone
    BY <1>3 DEF Next, ParseError, Parse, NextInput, EndOfInput, EndOfArgs,
         Chck, Chck1, Refuse, maybe, defo, ExecDone, Fires, Prnt, PrntUnknown,
         PrntEnd, Terminated
  <2> QED BY <2>1, PrntBeginPage, PrntSurePage, SureDonePage, PrntCandPage,
             CandDonePage
<1> QED BY <1>1, <1>2, <1>3
LEMMA PrntEndLines ==
    IInv /\ Page /\ Counted /\ PrntEnd => LineDiscipline'
<1> SUFFICES ASSUME IInv, Page, Counted, PrntEnd PROVE LineDiscipline'
  OBVIOUS
<1>1. /\ pc = "nl" /\ lines' = IF Multi THEN lines ELSE lines + 1
      /\ UNCHANGED <<cells, names, prnt1>>
  BY DEF PrntEnd, options
<1>2. ncand \in Nat /\ nsure \in Nat /\ cells \in Seq([by : Check \cup
          {None, "unknown"}, ck : Int])
  BY DEF IInv, TypeOK
<1>3. /\ Len(cells) = nsure + (IF Wanted THEN ncand ELSE 0)
      /\ ncand > 0 \/ nsure > 0
  BY <1>1 DEF Page, Printed
<1>4. Len(cells) > 0
  BY <1>2, <1>3 DEF Wanted
<1>5. cells # <<>>
  BY <1>4
<1>6. /\ names = IF Multi THEN Len(cells) ELSE 1
      /\ lines = IF Multi THEN Len(cells) ELSE 0
  BY <1>1 DEF Counted
<1> QED BY <1>1, <1>5, <1>6 DEF LineDiscipline, Multi

LEMMA NextLines ==
    IInv /\ RInv /\ [Next]_vars => LineDiscipline'
<1> SUFFICES ASSUME IInv, RInv, [Next]_vars PROVE LineDiscipline'
  OBVIOUS
<1>1. CASE pc' \notin {"next", "out"}
  BY <1>1 DEF LineDiscipline, Answered
<1>2. CASE ParseError \/ Parse
  BY <1>2 DEF ParseError, Parse, RInv, Fresh, LineDiscipline, Answered
<1>3. CASE EndOfInput \/ EndOfArgs \/ UNCHANGED vars
  BY <1>3 DEF EndOfInput, EndOfArgs, vars, output, options, RInv,
              LineDiscipline, Answered, Multi
<1>4. CASE PrntUnknown
  <2>1. cells' = <<Unknown>> /\ names' = 1 /\ lines' = 1
    BY <1>4 DEF PrntUnknown
  <2>2. Len(cells') = 1 /\ cells' # <<>>
    BY <2>1
  <2> QED BY <2>1, <2>2 DEF LineDiscipline
<1>5. CASE PrntEnd
  BY <1>5, PrntEndLines DEF RInv
<1> QED BY <1>1, <1>2, <1>3, <1>4, <1>5
        DEF Next, NextInput, Chck, Chck1, Refuse, maybe, defo, ExecDone,
            Fires, Prnt, PrntBegin, PrntSure, SureDone, PrntCand, CandDone,
            Terminated

LEMMA InitRInv == Init => RInv
  BY DEF Init, RInv, Working, Page, Counted, Fresh, LineDiscipline, Answered

LEMMA NextFresh == Fresh /\ [Next]_vars => Fresh'
  BY DEF Fresh, Next, ParseError, Parse, NextInput, EndOfInput, EndOfArgs,
         Chck, Chck1, Refuse, maybe, defo, ExecDone, Fires, Prnt, PrntUnknown,
         PrntBegin, PrntSure, SureDone, PrntCand, CandDone, PrntEnd,
         Terminated, vars

LEMMA NextRInv == IInv /\ RInv /\ [Next]_vars => RInv'
  BY NextFiled, NextPage, NextLines, NextFresh DEF RInv

(* The page is what the arrays say, and they what was executed. *)
THEOREM Reports == Spec => []RInv
<1> QED BY InitRInv, NextRInv, Invariance, PTL DEF Spec

(* Whatever the options and the inputs before: --one-line prints one line  *)
(* for an input, the other printer one per entry, and never nothing        *)
(* (prnt1_1ln and prnt1_mln).                                              *)
THEOREM DisciplinedLines == Spec => []LineDiscipline
<1>1. RInv => LineDiscipline
  BY DEF RInv
<1> QED BY <1>1, Reports, PTL

-----------------------------------------------------------------------------
(* The refinement *)

(* At the end the arrays hold what Report knows of the string. *)
LEMMA Knowledge ==
    ASSUME IInv, Filed, pc \in Reporting
    PROVE  /\ \A x \in Check :
                 R!Sure(str, x) <=> \E j \in 0 .. nsure - 1 : surepr[j] = x
           /\ \A x \in Check :
                 R!Cand(str, x) <=> \E j \in 0 .. ncand - 1 : candpr[j] = x
           /\ \A x \in Check :
                 R!Knows(str, x) <=> R!Sure(str, x) \/ R!Cand(str, x)
<1>1. /\ \A j \in 0 .. nsure - 1 :
            /\ surepr[j] \in Check /\ str.verdict[surepr[j]] >= 0
            /\ ~IsCand(surepr[j], str.verdict[surepr[j]])
      /\ \A j \in 0 .. ncand - 1 :
            /\ candpr[j] \in Check /\ str.verdict[candpr[j]] >= 0
            /\ IsCand(candpr[j], str.verdict[candpr[j]])
  BY DEF IInv, EntriesCurrent, Working, Reporting
<1>2. \A n \in DOMAIN str.fired : n < Reached
  BY StringType DEF Reached, Reporting, Working
<1>3. \A x \in Check : str.verdict[x] \in Int
  BY StringType DEF Reporting, Working
<1>4. \A x \in Check : R!Sure(str, x) <=>
        R!Knows(str, x) /\ ~IsCand(x, str.verdict[x])
  <2>1. \A v \in Int : v % 2 = 0 <=> ~(v % 2 = 1)
    OBVIOUS
  <2> QED BY <1>3, <2>1 DEF R!Sure, IsCand
<1>5. \A x \in Check : R!Cand(str, x) <=>
        R!Knows(str, x) /\ IsCand(x, str.verdict[x])
  BY <1>4 DEF R!Cand
<1>6. \A x \in Check : R!Knows(str, x) <=>
        \/ \E j \in 0 .. ncand - 1 : candpr[j] = x
        \/ \E j \in 0 .. nsure - 1 : surepr[j] = x
  BY <1>1, <1>2 DEF Filed, R!Knows
<1> QED BY <1>1, <1>4, <1>5, <1>6

LEMMA EntryBy == \A pr, ck : Entry(pr, ck).by = pr
  BY DEF Entry

(* The complete page is the report. *)
LEMMA PageReport ==
    ASSUME IInv, Filed, pc = "nl", Page
    PROVE  R!IsReport(cells, str, allp)
<1> DEFINE c == IF Wanted THEN ncand ELSE 0
           S(j) == surepr[j]
           C(j) == candpr[j]
<1>1. /\ nsure \in Nat /\ ncand \in Nat /\ c \in Nat
      /\ cells \in Seq([by : Check \cup {None, "unknown"}, ck : Int])
  BY DEF IInv, TypeOK
<1>2. /\ Len(cells) = nsure + c /\ (ncand > 0 \/ nsure > 0)
      /\ \A n \in 1 .. nsure : cells[n] = Entry(surepr[n - 1], sureck[n - 1])
      /\ \A n \in 1 .. c :
            cells[nsure + n] = Entry(candpr[n - 1], candck[n - 1])
  BY DEF Page, Printed
<1>3. /\ \A j \in 0 .. nsure - 1 :
            /\ S(j) \in Check /\ R!Sure(str, S(j))
            /\ sureck[j] = str.verdict[S(j)]
      /\ \A j \in 0 .. ncand - 1 :
            /\ C(j) \in Check /\ R!Cand(str, C(j))
            /\ candck[j] = str.verdict[C(j)]
  BY Knowledge DEF IInv, EntriesCurrent, Working, Reporting
<1>4. DOMAIN cells = 1 .. nsure + c
  BY <1>1, <1>2
<1>5. ~\A x \in Check : ~R!Knows(str, x)
  <2>1. CASE nsure > 0
    <3>1. 0 \in 0 .. nsure - 1
      BY <1>1, <2>1
    <3> QED BY <1>3, <3>1, Knowledge DEF Reporting
  <2>2. CASE ncand > 0
    <3>1. 0 \in 0 .. ncand - 1
      BY <1>1, <2>2
    <3> QED BY <1>3, <3>1, Knowledge DEF Reporting
  <2> QED BY <1>2, <2>1, <2>2
<1>6. c # 0 => c = ncand /\ Wanted
  OBVIOUS
<1>7. (\A x \in Check : ~R!Sure(str, x)) <=> nsure = 0
  <2>1. nsure = 0 => 0 .. nsure - 1 = {}
    OBVIOUS
  <2>2. nsure # 0 => 0 \in 0 .. nsure - 1
    BY <1>1
  <2> QED BY <1>3, <2>1, <2>2, Knowledge DEF Reporting
<1>8. \A x \in Check : R!Listed(str, allp, x) <=>
          R!Sure(str, x) \/ (R!Cand(str, x) /\ Wanted)
  BY <1>7 DEF R!Listed, Wanted
\* which slot an entry of the page comes from
<1>9. ASSUME NEW n \in DOMAIN cells
      PROVE  \/ /\ n - 1 \in 0 .. nsure - 1
                /\ cells[n] = Entry(S(n - 1), str.verdict[S(n - 1)])
             \/ /\ n - nsure - 1 \in 0 .. ncand - 1 /\ Wanted /\ n > nsure
                /\ cells[n] = Entry(C(n - nsure - 1),
                                    str.verdict[C(n - nsure - 1)])
  <2>1. CASE n <= nsure
    <3>1. n \in 1 .. nsure /\ n - 1 \in 0 .. nsure - 1
      BY <1>1, <1>4, <2>1
    <3> QED BY <1>2, <1>3, <3>1
  <2>2. CASE n > nsure
    <3> DEFINE m == n - nsure
    <3>1. m \in 1 .. c /\ n = nsure + m /\ c # 0
      BY <1>1, <1>4, <2>2
    <3>2. m - 1 \in 0 .. ncand - 1 /\ Wanted
      BY <1>1, <1>6, <3>1
    <3>3. cells[n] = Entry(C(m - 1), candck[m - 1])
      BY <1>2, <3>1
    <3>4. candck[m - 1] = str.verdict[C(m - 1)]
      BY <1>3, <3>2
    <3> QED BY <2>2, <3>2, <3>3, <3>4
  <2> QED BY <1>1, <1>4, <2>1, <2>2
<1>10. \A n \in DOMAIN cells : \E x \in Check :
          cells[n] = R!Entry(x, str.verdict[x]) /\ R!Listed(str, allp, x)
  <2> TAKE n \in DOMAIN cells
  <2>1. CASE /\ n - 1 \in 0 .. nsure - 1
             /\ cells[n] = Entry(S(n - 1), str.verdict[S(n - 1)])
    BY <1>3, <1>8, <2>1 DEF R!Entry, Entry
  <2>2. CASE /\ n - nsure - 1 \in 0 .. ncand - 1 /\ Wanted
             /\ cells[n] = Entry(C(n - nsure - 1),
                                 str.verdict[C(n - nsure - 1)])
    BY <1>3, <1>8, <2>2 DEF R!Entry, Entry
  <2> QED BY <1>9, <2>1, <2>2
<1>11. \A x \in Check : R!Listed(str, allp, x) =>
          \E n \in DOMAIN cells : cells[n].by = x
  <2> SUFFICES ASSUME NEW x \in Check, R!Listed(str, allp, x)
               PROVE  \E n \in DOMAIN cells : cells[n].by = x
    OBVIOUS
  <2>1. CASE R!Sure(str, x)
    <3>1. PICK j \in 0 .. nsure - 1 : surepr[j] = x
      BY <2>1, Knowledge DEF Reporting
    <3>2. j + 1 \in 1 .. nsure /\ j + 1 \in DOMAIN cells /\ (j + 1) - 1 = j
      BY <1>1, <1>4
    <3>3. cells[j + 1] = Entry(surepr[j], sureck[j])
      BY <1>2, <3>2
    <3>4. cells[j + 1].by = x
      BY <3>1, <3>3, EntryBy
    <3> QED BY <3>2, <3>4
  <2>2. CASE R!Cand(str, x) /\ Wanted
    <3>1. PICK j \in 0 .. ncand - 1 : candpr[j] = x
      BY <2>2, Knowledge DEF Reporting
    <3>2. /\ j + 1 \in 1 .. c /\ nsure + (j + 1) \in DOMAIN cells
          /\ (j + 1) - 1 = j
      BY <1>1, <1>4, <2>2
    <3>3. cells[nsure + (j + 1)] = Entry(candpr[j], candck[j])
      BY <1>2, <3>2
    <3>4. cells[nsure + (j + 1)].by = x
      BY <3>1, <3>3, EntryBy
    <3> QED BY <3>2, <3>4
  <2> QED BY <1>8, <2>1, <2>2
<1>12. \A x, z : Earlier(x, z) <=> R!Before(str, x, z)
  BY DEF Earlier, R!Before
<1>13. ASSUME NEW m \in DOMAIN cells, NEW n \in DOMAIN cells, m < n
       PROVE  \/ R!Sure(str, cells[m].by) /\ ~R!Sure(str, cells[n].by)
              \/ /\ R!Sure(str, cells[m].by) <=> R!Sure(str, cells[n].by)
                 /\ R!Before(str, cells[m].by, cells[n].by)
  <2> DEFINE mc == m - nsure - 1
             nc == n - nsure - 1
  <2>1. m \in Nat /\ n \in Nat
    BY <1>1, <1>4
  <2>2. \/ m - 1 \in 0 .. nsure - 1 /\ cells[m].by = S(m - 1)
        \/ mc \in 0 .. ncand - 1 /\ m > nsure /\ cells[m].by = C(mc)
    BY <1>9 DEF Entry
  <2>3. \/ n - 1 \in 0 .. nsure - 1 /\ cells[n].by = S(n - 1)
        \/ nc \in 0 .. ncand - 1 /\ n > nsure /\ cells[n].by = C(nc)
    BY <1>9 DEF Entry
  <2>4. m - 1 < n - 1 /\ mc < nc
    BY <1>1, <1>13, <2>1
  <2>5. \A j \in 0 .. ncand - 1 : ~R!Sure(str, C(j))
    BY <1>3 DEF R!Cand
  <2>6. CASE n - 1 \in 0 .. nsure - 1 /\ cells[n].by = S(n - 1)
    <3>1. m - 1 \in 0 .. nsure - 1 /\ cells[m].by = S(m - 1)
      BY <1>1, <1>13, <2>1, <2>2, <2>6
    <3>2. Earlier(S(m - 1), S(n - 1))
      BY <2>4, <2>6, <3>1 DEF Filed
    <3> QED BY <1>3, <1>12, <2>6, <3>1, <3>2
  <2>7. CASE nc \in 0 .. ncand - 1 /\ cells[n].by = C(nc)
    <3>1. CASE m - 1 \in 0 .. nsure - 1 /\ cells[m].by = S(m - 1)
      BY <1>3, <2>5, <2>7, <3>1
    <3>2. CASE mc \in 0 .. ncand - 1 /\ cells[m].by = C(mc)
      <4>1. Earlier(C(mc), C(nc))
        BY <2>4, <2>7, <3>2 DEF Filed
      <4> QED BY <1>12, <2>5, <2>7, <3>2, <4>1
    <3> QED BY <2>2, <3>1, <3>2
  <2> QED BY <2>3, <2>6, <2>7
<1> QED BY <1>5, <1>10, <1>11, <1>13 DEF R!IsReport

(* What is not identified at all is unknown to all checkers. *)
LEMMA UnknownReport ==
    ASSUME IInv, Filed, PrntUnknown
    PROVE  R!IsReport(cells', str, allp)
<1>1. cells' = <<R!Unknown>> /\ nsure = 0 /\ ncand = 0 /\ pc = "prnt1"
  BY DEF PrntUnknown, Unknown, Entry, R!Unknown, R!Entry
<1>2. 0 .. nsure - 1 = {} /\ 0 .. ncand - 1 = {}
  BY <1>1
<1>3. \A x \in Check : ~R!Knows(str, x)
  BY <1>1, <1>2, Knowledge DEF Reporting
<1> QED BY <1>1, <1>3 DEF R!IsReport

(* The page names checkers only, or none. *)
LEMMA PageType ==
    ASSUME IInv, pc = "nl", Page
    PROVE  cells \in Seq([by : Check \cup {"unknown"}, ck : Int])
<1> DEFINE c == IF Wanted THEN ncand ELSE 0
<1>1. /\ nsure \in Nat /\ ncand \in Nat /\ c \in Nat
      /\ cells \in Seq([by : Check \cup {None, "unknown"}, ck : Int])
  BY DEF IInv, TypeOK
<1>2. /\ Len(cells) = nsure + c
      /\ \A n \in 1 .. nsure : cells[n] = Entry(surepr[n - 1], sureck[n - 1])
      /\ \A n \in 1 .. c :
            cells[nsure + n] = Entry(candpr[n - 1], candck[n - 1])
  BY DEF Page, Printed
<1>3. /\ \A j \in 0 .. nsure - 1 :
            Entry(surepr[j], sureck[j]) \in [by : Check, ck : Int]
      /\ \A j \in 0 .. ncand - 1 :
            Entry(candpr[j], candck[j]) \in [by : Check, ck : Int]
  BY EntryType DEF Working
<1>4. ASSUME NEW n \in 1 .. nsure + c
      PROVE  cells[n] \in [by : Check, ck : Int]
  <2>1. CASE n <= nsure
    <3>1. n \in 1 .. nsure /\ n - 1 \in 0 .. nsure - 1
      BY <1>1, <2>1
    <3> QED BY <1>2, <1>3, <3>1
  <2>2. CASE n > nsure
    <3> DEFINE m == n - nsure
    <3>1. m \in 1 .. c /\ n = nsure + m /\ m - 1 \in 0 .. ncand - 1
      BY <1>1, <2>2
    <3>2. cells[nsure + m] = Entry(candpr[m - 1], candck[m - 1])
      BY <1>2, <3>1
    <3> QED BY <1>3, <3>1, <3>2
  <2> QED BY <1>1, <2>1, <2>2
<1>5. [by : Check, ck : Int] \subseteq [by : Check \cup {"unknown"}, ck : Int]
  OBVIOUS
<1>6. cells = [n \in 1 .. nsure + c |-> cells[n]]
  BY <1>1, <1>2
<1>7. cells \in [1 .. nsure + c -> [by : Check \cup {"unknown"}, ck : Int]]
  BY <1>4, <1>5, <1>6
<1>8. nsure + c \in Nat
  BY <1>1
<1> DEFINE T == [by : Check \cup {"unknown"}, ck : Int]
<1>9. cells \in [1 .. nsure + c -> T]
  BY <1>7
<1> HIDE DEF c, T
<1>10. cells \in Seq(T)
  BY <1>8, <1>9, SeqDef
<1> QED BY <1>10 DEF T

LEMMA InitReport == Init => R!ReportInit
  BY DEF Init, R!ReportInit

\* the driver is between two inputs
Idle == pc \in {"parse", "next", "out"}

(* Each step of the driver is one of Report, or none that shows.           *)
LEMMA StepReport ==
    IInv /\ RInv /\ [Next]_vars => [R!ReportNext]_(R!reportVars)
<1> SUFFICES ASSUME IInv, RInv, [Next]_vars
             PROVE  \/ R!ReportNext
                    \/ /\ str' = str /\ allp' = allp /\ (Idle' <=> Idle)
                       /\ Idle => cells' = cells
  BY DEF R!reportVars, Idle
<1>1. CASE Parse
  <2>1. str = NoInput /\ allp' \in BOOLEAN
    BY <1>1 DEF Parse, RInv, Fresh
  <2>2. UNCHANGED <<str, cells>> /\ Idle /\ Idle'
    BY <1>1 DEF Parse, output, Idle
  <2>3. R!Configure
    BY <2>1, <2>2 DEF R!Configure, Idle
  <2> QED BY <2>3 DEF R!ReportNext
<1>2. CASE NextInput
  <2>1. str' \in Input /\ allp' = allp /\ Idle /\ ~Idle'
    BY <1>2 DEF NextInput, options, Idle
  <2>2. R!Ask
    BY <2>1 DEF R!Ask, Idle
  <2> QED BY <2>2 DEF R!ReportNext
<1>3. CASE PrntUnknown
  <2>1. /\ str' = str /\ allp' = allp /\ ~Idle /\ Idle'
        /\ cells' = <<Unknown>> /\ pc \in Working
    BY <1>3 DEF PrntUnknown, options, Idle, Working
  <2>2. cells' \in Seq([by : Check \cup {"unknown"}, ck : Int])
    BY <2>1 DEF Unknown, Entry
  <2>3. R!IsReport(cells', str, allp)
    BY <1>3, <2>1, UnknownReport DEF RInv
  <2>4. R!Answer
    BY <2>1, <2>2, <2>3 DEF R!Answer, Idle
  <2> QED BY <2>4 DEF R!ReportNext
<1>4. CASE PrntEnd
  <2>1. /\ str' = str /\ allp' = allp /\ ~Idle /\ Idle' /\ cells' = cells
        /\ pc = "nl"
    BY <1>4 DEF PrntEnd, options, Idle
  <2>2. cells' \in Seq([by : Check \cup {"unknown"}, ck : Int])
    BY <2>1, PageType DEF RInv
  <2>3. R!IsReport(cells', str, allp)
    BY <2>1, PageReport DEF RInv, Working
  <2>4. R!Answer
    BY <2>1, <2>2, <2>3 DEF R!Answer, Idle
  <2> QED BY <2>4 DEF R!ReportNext
<1>5. CASE ParseError \/ EndOfInput \/ EndOfArgs \/ UNCHANGED vars
  BY <1>5 DEF ParseError, EndOfInput, EndOfArgs, vars, options, output, Idle
<1>6. CASE Chck
  BY <1>6 DEF Chck, Chck1, Refuse, maybe, defo, ExecDone, Fires, options,
              Idle
<1>7. CASE PrntBegin \/ PrntSure \/ SureDone \/ PrntCand \/ CandDone
  BY <1>7 DEF PrntBegin, PrntSure, SureDone, PrntCand, CandDone, options, Idle
<1> QED BY <1>1, <1>2, <1>3, <1>4, <1>5, <1>6, <1>7 DEF Next, Prnt, Terminated

(* The driver implements Report: each identifier is answered before the    *)
(* next one is taken, by a report that depends on it and on --all only,    *)
(* although arrays and counters are static.                                *)
THEOREM Refinement == Spec => ImplementsReport
<1>1. Init => R!ReportInit
  BY InitReport
<1>2. IInv /\ RInv /\ [Next]_vars => [R!ReportNext]_(R!reportVars)
  BY StepReport
<1> QED BY <1>1, <1>2, Invariance, Reports, PTL
        DEF Spec, ImplementsReport, R!ReportSpec
=============================================================================
