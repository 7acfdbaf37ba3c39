---------------------------- MODULE NumchkProofs ----------------------------
(***************************************************************************)
(* The driver's arrays never overflow and never show an entry of an        *)
(* earlier input, for every set of checkers, every set of strings, every   *)
(* capacity that holds all checkers, and any number of inputs.             *)
(***************************************************************************)
EXTENDS Numchk, FiniteSetTheorems, FunctionTheorems, TLAPS

(* An array whose first n slots hold distinct checkers, none of them x,    *)
(* has room for x: this is where NNMCK >= Cardinality(Check) is used.      *)
LEMMA RoomForOne ==
    ASSUME NEW arr, NEW n \in Nat, NEW x \in Check,
           \A j \in 0 .. n - 1 : arr[j] \in Check /\ arr[j] # x,
           \A j, l \in 0 .. n - 1 : arr[j] = arr[l] => j = l
    PROVE  n \in Slots
<1> DEFINE f == [j \in 0 .. n |-> IF j < n THEN arr[j] ELSE x]
<1>1. f \in [0 .. n -> Check]
  OBVIOUS
<1>2. ASSUME NEW a \in 0 .. n, NEW b \in 0 .. n, f[a] = f[b]
      PROVE  a = b
  <2>1. CASE a < n /\ b < n
    BY <1>2, <2>1
  <2>2. CASE ~(a < n /\ b < n)
    BY <1>2, <2>2
  <2> QED
    BY <2>1, <2>2
<1>3. f \in Injection(0 .. n, Check)
  BY <1>1, <1>2, Fun_IsInj
<1>4. Cardinality(0 .. n) <= Cardinality(Check)
  BY <1>3, FS_Injection, DriverAssumption
<1>5. Cardinality(0 .. n) = n + 1
  BY FS_Interval
<1>6. Cardinality(Check) \in Nat /\ Cardinality(Check) <= NNMCK /\ NNMCK \in Nat
  BY FS_CardinalityType, DriverAssumption
<1> QED
  BY <1>4, <1>5, <1>6 DEF Slots

(* What an action of the recogniser executes on a string. *)
LEMMA FiredType ==
    ASSUME TypeOK, Bounded, Fires
    PROVE  /\ str \in Input
           /\ Fired \in Check
           /\ y \in Int
           /\ k \in DOMAIN str.fired
           /\ str.fired \in Seq(Check)
           /\ \A n \in DOMAIN str.fired :
                 y >= 0 /\ n # k => str.fired[n] # Fired
<1>1. str \in Input
  BY DEF Bounded, Fires, Working
<1>2. /\ str.fired \in Seq(Check) /\ str.verdict \in [Check -> Int]
      /\ \A j, n \in DOMAIN str.fired :
            str.fired[j] = str.fired[n] /\ str.verdict[str.fired[j]] >= 0 => j = n
  BY <1>1, DriverAssumption DEF Strings
<1>3. k \in DOMAIN str.fired
  BY <1>2 DEF TypeOK, Fires
<1> QED
  BY <1>1, <1>2, <1>3 DEF Fired, y

(* While an action is executed, there is a slot for what it files. *)
LEMMA RoomToStore ==
    ASSUME IInv
    PROVE  StoresInBounds
<1> SUFFICES ASSUME Fires, y >= 0
             PROVE  ncand \in Slots /\ nsure \in Slots
  BY DEF StoresInBounds
<1>1. Fired \in Check /\ (\A n \in DOMAIN str.fired : n < k => str.fired[n] # Fired)
  BY FiredType DEF IInv, TypeOK
<1>2. ncand \in Slots
  <2>1. \A j \in 0 .. ncand - 1 : candpr[j] \in Check /\ candpr[j] # Fired
    BY <1>1 DEF IInv, EntriesCurrent, Executed, Working, Fires
  <2> QED
    BY <1>1, <2>1, RoomForOne DEF IInv, TypeOK, Distinct
<1>3. nsure \in Slots
  <2>1. \A j \in 0 .. nsure - 1 : surepr[j] \in Check /\ surepr[j] # Fired
    BY <1>1 DEF IInv, EntriesCurrent, Executed, Working, Fires
  <2> QED
    BY <1>1, <2>1, RoomForOne DEF IInv, TypeOK, Distinct
<1> QED
  BY <1>2, <1>3

-----------------------------------------------------------------------------
LEMMA InitIInv == Init => IInv
<1> SUFFICES ASSUME Init PROVE IInv
  OBVIOUS
<1>1. TypeOK
  <2>1. candpr \in [Slots -> Check \cup {None}] /\ candck \in [Slots -> Int]
    BY DEF Init
  <2>2. surepr \in [Slots -> Check \cup {None}] /\ sureck \in [Slots -> Int]
    BY DEF Init
  <2>3. cells \in Seq([by : Check \cup {None, "unknown"}, ck : Int])
    BY DEF Init
  <2>4. nargs \in 0 .. MaxArgs /\ argi \in 0 .. nargs
    BY DriverAssumption DEF Init
  <2>5. /\ pc = "parse" /\ allp = FALSE /\ prnt1 = "mln" /\ str = NoInput /\ k = 1
        /\ ncand = 0 /\ nsure = 0 /\ i = 0 /\ names = 0 /\ lines = 0
        /\ rc = 0 /\ disrupted = FALSE
    BY DEF Init
  <2>6. {0, 1} \subseteq Nat /\ str \in Input \cup {NoInput} /\ k \in Nat \ {0}
    BY <2>5
  <2> QED
    BY <2>1, <2>2, <2>3, <2>4, <2>5, <2>6, Zenon DEF TypeOK
<1>2. Bounded
  BY DriverAssumption DEF Init, Bounded, Working
<1>3. EntriesCurrent /\ Executed /\ Distinct
  BY DEF Init, EntriesCurrent, Executed, Distinct, Working
<1> QED
  BY <1>1, <1>2, <1>3 DEF IInv

(* Steps that file nothing: the arrays stay, the entries keep their string. *)
LEMMA QuietStep ==
    ASSUME IInv, TypeOK',
           UNCHANGED <<arrays, str>>,
           pc' \in Working => pc \in Working,
           pc' = "exec" => pc = "exec" /\ k' >= k,
           pc' \in Working \cup {"chck1"} => pc \in Working \cup {"chck1"}
    PROVE  IInv'
<1>1. Bounded'
  BY DEF IInv, Bounded, arrays
<1>2. EntriesCurrent'
  BY DEF IInv, EntriesCurrent, arrays
<1>3. Executed'
  <2> SUFFICES ASSUME pc' = "exec" PROVE Executed'
    BY DEF Executed
  <2>1. pc = "exec" /\ k' >= k /\ k \in Nat /\ k' \in Nat
    BY DEF IInv, TypeOK
  <2>2. \A n \in DOMAIN str.fired : n \in Nat
    <3>1. str \in Input
      BY <2>1 DEF IInv, Bounded, Working
    <3>2. str.fired \in Seq(Check)
      BY <3>1, DriverAssumption DEF Strings
    <3> QED
      BY <3>2
  <2> QED
    BY <2>1, <2>2 DEF IInv, Executed, arrays
<1>4. Distinct'
  BY DEF IInv, Distinct, arrays
<1> QED
  BY <1>1, <1>2, <1>3, <1>4 DEF IInv

LEMMA NextIInv == IInv /\ [Next]_vars => IInv'
<1> SUFFICES ASSUME IInv, [Next]_vars PROVE IInv'
  OBVIOUS
<1> USE DEF IInv
<1>1. CASE ParseError
  <2>1. TypeOK'
    BY <1>1 DEF ParseError, TypeOK, options, arrays, output
  <2> QED
    BY <1>1, <2>1, QuietStep DEF ParseError, Working
<1>2. CASE Parse
  <2>1. TypeOK'
    BY <1>2 DEF Parse, TypeOK, arrays, output
  <2> QED
    BY <1>2, <2>1, QuietStep DEF Parse, Working
<1>3. CASE NextInput
  <2>1. TypeOK'
    BY <1>3, DriverAssumption DEF NextInput, TypeOK, options, arrays, output
  <2>2. Bounded' /\ EntriesCurrent' /\ Executed' /\ Distinct'
    BY <1>3 DEF NextInput, Bounded, EntriesCurrent, Executed, Distinct,
                Working, arrays
  <2> QED
    BY <2>1, <2>2
<1>4. CASE EndOfInput
  <2>1. TypeOK'
    BY <1>4 DEF EndOfInput, TypeOK, options, arrays, output
  <2> QED
    BY <1>4, <2>1, QuietStep DEF EndOfInput, Working
<1>5. CASE EndOfArgs
  <2>1. TypeOK'
    BY <1>5 DEF EndOfArgs, TypeOK, options, arrays, output
  <2> QED
    BY <1>5, <2>1, QuietStep DEF EndOfArgs, Working
<1>6. CASE Chck1
  <2>1. TypeOK'
    BY <1>6 DEF Chck1, TypeOK, options, output
  <2>2. Bounded' /\ EntriesCurrent' /\ Executed' /\ Distinct'
    BY <1>6, DriverAssumption
    DEF Chck1, Bounded, EntriesCurrent, Executed, Distinct, Working
  <2> QED
    BY <2>1, <2>2
<1>7. CASE Refuse
  <2>1. TypeOK'
    BY <1>7 DEF Refuse, TypeOK, options, arrays, output
  <2> QED
    BY <1>7, <2>1, QuietStep DEF Refuse, Fires, Working, TypeOK
<1>8. CASE maybe
  <2> USE <1>8
  <2>1. /\ Fired \in Check /\ y \in Int /\ y >= 0 /\ pc = "exec" /\ pc' = "exec"
        /\ str' = str /\ str \in Input /\ k' = k + 1
        /\ k \in DOMAIN str.fired /\ str.fired[k] = Fired
        /\ \A n \in DOMAIN str.fired : n \in Nat
        /\ \A n \in DOMAIN str.fired : n # k => str.fired[n] # Fired
    BY FiredType DEF maybe, Fires, Fired
  <2>2. ncand \in Slots
    BY RoomToStore DEF maybe, StoresInBounds
  <2>3. /\ candpr'[ncand] = Fired /\ candck'[ncand] = y /\ ncand' = ncand + 1
        /\ \A j \in 0 .. ncand - 1 : candpr'[j] = candpr[j] /\ candck'[j] = candck[j]
        /\ UNCHANGED <<nsure, surepr, sureck>>
        /\ \A j \in 0 .. ncand : j # ncand => j \in 0 .. ncand - 1
    BY <2>2 DEF maybe, TypeOK, Slots
  <2>4. TypeOK'
    <3>1. /\ candpr' = [candpr EXCEPT ![ncand] = Fired] /\ k' = k + 1
          /\ candck' = [candck EXCEPT ![ncand] = y] /\ ncand' = ncand + 1
          /\ UNCHANGED <<pc, options, argi, str, nsure, surepr, sureck, output,
                         rc, disrupted>>
      BY DEF maybe
    <3>2. /\ candpr' \in [Slots -> Check \cup {None}]
          /\ candck' \in [Slots -> Int] /\ ncand' \in Nat /\ k' \in Nat \ {0}
      BY <2>1, <2>2, <3>1 DEF TypeOK
    <3> QED
      BY <3>1, <3>2 DEF TypeOK, options, output
  <2>5. Bounded'
    BY <2>1, <2>2, <2>3, DriverAssumption DEF Bounded, Slots, TypeOK
  <2>6. EntriesCurrent'
    <3>1. y = str.verdict[Fired] /\ IsCand(Fired, y)
      BY DEF maybe, y
    <3>2. EntriesCurrent
      OBVIOUS
    <3> QED
      BY <2>1, <2>2, <2>3, <3>1, <3>2 DEF EntriesCurrent, Working, Slots
  <2>7. Executed'
    <3>1. k \in Nat /\ k < k'
      BY <2>1
    <3>2. \A j \in 0 .. ncand - 1 :
             \E n \in DOMAIN str.fired : n < k' /\ str.fired[n] = candpr[j]
      BY <2>1, <3>1 DEF Executed
    <3>3. \A j \in 0 .. nsure - 1 :
             \E n \in DOMAIN str.fired : n < k' /\ str.fired[n] = surepr[j]
      BY <2>1, <3>1 DEF Executed
    <3>4. \A j \in 0 .. ncand' - 1 :
             \E n \in DOMAIN str.fired : n < k' /\ str.fired[n] = candpr'[j]
      <4>1. TAKE j \in 0 .. ncand' - 1
      <4>2. CASE j = ncand
        BY <2>1, <2>3, <3>1, <4>2
      <4>3. CASE j # ncand
        <5>1. j \in 0 .. ncand - 1
          BY <2>2, <2>3, <4>1, <4>3 DEF Slots
        <5> QED
          BY <2>3, <3>2, <3>3, <5>1
      <4> QED
        BY <4>2, <4>3
    <3> QED
      BY <2>1, <2>3, <3>2, <3>3, <3>4 DEF Executed
  <2>8. Distinct'
    <3>1. \A j \in 0 .. ncand - 1 : candpr[j] # Fired
      <4>1. TAKE j \in 0 .. ncand - 1
      <4>2. PICK n \in DOMAIN str.fired : n < k /\ str.fired[n] = candpr[j]
        BY <2>1 DEF Executed
      <4> QED
        BY <2>1, <4>2
    <3> QED
      BY <2>2, <2>3, <3>1 DEF Distinct, TypeOK
  <2> QED
    BY <2>4, <2>5, <2>6, <2>7, <2>8
<1>9. CASE defo
  <2> USE <1>9
  <2>1. /\ Fired \in Check /\ y \in Int /\ y >= 0 /\ pc = "exec" /\ pc' = "exec"
        /\ str' = str /\ str \in Input /\ k' = k + 1
        /\ k \in DOMAIN str.fired /\ str.fired[k] = Fired
        /\ \A n \in DOMAIN str.fired : n \in Nat
        /\ \A n \in DOMAIN str.fired : n # k => str.fired[n] # Fired
    BY FiredType DEF defo, Fires, Fired
  <2>2. nsure \in Slots
    BY RoomToStore DEF defo, StoresInBounds
  <2>3. /\ surepr'[nsure] = Fired /\ sureck'[nsure] = y /\ nsure' = nsure + 1
        /\ \A j \in 0 .. nsure - 1 : surepr'[j] = surepr[j] /\ sureck'[j] = sureck[j]
        /\ UNCHANGED <<ncand, candpr, candck>>
        /\ \A j \in 0 .. nsure : j # nsure => j \in 0 .. nsure - 1
    BY <2>2 DEF defo, TypeOK, Slots
  <2>4. TypeOK'
    BY <2>1, <2>2 DEF defo, TypeOK, options, output, Slots
  <2>5. Bounded'
    BY <2>1, <2>2, <2>3, DriverAssumption DEF Bounded, Slots, TypeOK
  <2>6. EntriesCurrent'
    <3>1. y = str.verdict[Fired] /\ ~IsCand(Fired, y)
      BY DEF defo, y
    <3>2. EntriesCurrent
      OBVIOUS
    <3> QED
      BY <2>1, <2>2, <2>3, <3>1, <3>2 DEF EntriesCurrent, Working, Slots
  <2>7. Executed'
    <3>1. k \in Nat /\ k < k'
      BY <2>1
    <3>2. \A j \in 0 .. ncand - 1 :
             \E n \in DOMAIN str.fired : n < k' /\ str.fired[n] = candpr[j]
      BY <2>1, <3>1 DEF Executed
    <3>3. \A j \in 0 .. nsure - 1 :
             \E n \in DOMAIN str.fired : n < k' /\ str.fired[n] = surepr[j]
      BY <2>1, <3>1 DEF Executed
    <3>4. \A j \in 0 .. nsure' - 1 :
             \E n \in DOMAIN str.fired : n < k' /\ str.fired[n] = surepr'[j]
      <4>1. TAKE j \in 0 .. nsure' - 1
      <4>2. CASE j = nsure
        BY <2>1, <2>3, <3>1, <4>2
      <4>3. CASE j # nsure
        <5>1. j \in 0 .. nsure - 1
          BY <2>2, <2>3, <4>1, <4>3 DEF Slots
        <5> QED
          BY <2>3, <3>2, <3>3, <5>1
      <4> QED
        BY <4>2, <4>3
    <3> QED
      BY <2>1, <2>3, <3>2, <3>3, <3>4 DEF Executed
  <2>8. Distinct'
    <3>1. \A j \in 0 .. nsure - 1 : surepr[j] # Fired
      <4>1. TAKE j \in 0 .. nsure - 1
      <4>2. PICK n \in DOMAIN str.fired : n < k /\ str.fired[n] = surepr[j]
        BY <2>1 DEF Executed
      <4> QED
        BY <2>1, <4>2
    <3> QED
      BY <2>2, <2>3, <3>1 DEF Distinct, TypeOK
  <2> QED
    BY <2>4, <2>5, <2>6, <2>7, <2>8
<1>10. CASE ExecDone
  <2>1. TypeOK'
    BY <1>10 DEF ExecDone, TypeOK, options, arrays, output
  <2> QED
    BY <1>10, <2>1, QuietStep DEF ExecDone, Working
<1>11. CASE PrntUnknown
  <2>1. TypeOK'
    BY <1>11 DEF PrntUnknown, TypeOK, options, arrays, Unknown, Entry
  <2> QED
    BY <1>11, <2>1, QuietStep DEF PrntUnknown, Working
<1>12. CASE PrntBegin
  <2>1. TypeOK'
    BY <1>12 DEF PrntBegin, TypeOK, options, arrays
  <2> QED
    BY <1>12, <2>1, QuietStep DEF PrntBegin, Working
<1>13. CASE PrntSure
  <2>1. i \in 0 .. nsure - 1 /\ pc \in Working
    BY <1>13 DEF PrntSure, TypeOK, Working
  <2>2. Entry(surepr[i], sureck[i]) \in [by : Check \cup {None, "unknown"}, ck : Int]
    <3>1. i \in Slots
      BY <2>1, DriverAssumption DEF Bounded, TypeOK, Slots
    <3> QED
      BY <3>1 DEF TypeOK, Entry
  <2>3. TypeOK'
    BY <1>13, <2>2 DEF PrntSure, TypeOK, options, arrays, PerEntry
  <2> QED
    BY <1>13, <2>3, QuietStep DEF PrntSure, Working
<1>14. CASE SureDone
  <2>1. TypeOK'
    BY <1>14 DEF SureDone, TypeOK, options, arrays
  <2> QED
    BY <1>14, <2>1, QuietStep DEF SureDone, Working
<1>15. CASE PrntCand
  <2>1. i \in 0 .. ncand - 1 /\ pc \in Working
    BY <1>15 DEF PrntCand, TypeOK, Working
  <2>2. Entry(candpr[i], candck[i]) \in [by : Check \cup {None, "unknown"}, ck : Int]
    <3>1. i \in Slots
      BY <2>1, DriverAssumption DEF Bounded, TypeOK, Slots
    <3> QED
      BY <3>1 DEF TypeOK, Entry
  <2>3. TypeOK'
    BY <1>15, <2>2 DEF PrntCand, TypeOK, options, arrays, PerEntry
  <2> QED
    BY <1>15, <2>3, QuietStep DEF PrntCand, Working
<1>16. CASE CandDone
  <2>1. TypeOK'
    BY <1>16 DEF CandDone, TypeOK, options, arrays, output
  <2> QED
    BY <1>16, <2>1, QuietStep DEF CandDone, Working
<1>17. CASE PrntEnd
  <2>1. TypeOK'
    BY <1>17 DEF PrntEnd, TypeOK, options, arrays
  <2> QED
    BY <1>17, <2>1, QuietStep DEF PrntEnd, Working
<1>18. CASE UNCHANGED vars
  <2>1. TypeOK'
    BY <1>18 DEF vars, TypeOK, options, arrays, output
  <2>2. pc' = pc /\ k' = k /\ k \in Nat /\ UNCHANGED <<arrays, str>>
    BY <1>18 DEF vars, TypeOK
  <2> QED
    BY <2>1, <2>2, QuietStep
<1> QED
  BY <1>1, <1>2, <1>3, <1>4, <1>5, <1>6, <1>7, <1>8, <1>9, <1>10, <1>11,
     <1>12, <1>13, <1>14, <1>15, <1>16, <1>17, <1>18
  DEF Next, Chck, Prnt, Terminated

(* The inductive invariant holds in every reachable state of the driver. *)
THEOREM Invariance == Spec => []IInv
<1>1. Init => IInv
  BY InitIInv
<1>2. IInv /\ [Next]_vars => IInv'
  BY NextIInv
<1> QED
  BY <1>1, <1>2, PTL DEF Spec

(* Every variable of the driver keeps its type. *)
THEOREM TypeCorrect == Spec => []TypeOK
<1>1. IInv => TypeOK
  BY DEF IInv
<1> QED
  BY <1>1, Invariance, PTL

(* No store of maybe or defo ever falls outside the arrays, provided       *)
(* NNMCK is at least the number of checkers.                               *)
THEOREM NoOverflow == Spec => []StoresInBounds
<1>1. IInv => StoresInBounds
  BY RoomToStore
<1> QED
  BY <1>1, Invariance, PTL

(* The printers only ever see verdicts on the current string. *)
THEOREM NoStaleEntries == Spec => []EntriesCurrent
<1>1. IInv => EntriesCurrent
  BY DEF IInv
<1> QED
  BY <1>1, Invariance, PTL
=============================================================================
