--------------------------- MODULE CountryProofs ---------------------------
(***************************************************************************)
(* The array of the country code compiler is large enough for every list,  *)
(* whatever its length, its codes and the first allocation are, and no     *)
(* code gets two entries.                                                  *)
(*                                                                         *)
(* Either fact needs the other: that there is room for a new entry follows *)
(* from the counters; that an entry is overwritten within the array, and   *)
(* that it is the only one of its code, from there being at most one.      *)
(*                                                                         *)
(* From this it follows that the entries of a letter can be put in order,  *)
(* that the tables printed say what the list does, whatever is printed     *)
(* when, and that the functions compiled from them answer as promised.     *)
(***************************************************************************)
EXTENDS Countries, FiniteSetTheorems, SequenceTheorems, TLAPS

Inv == TypeOK /\ OncePerCode

(* After realloc there is room for one more entry.                         *)
LEMMA Room ==
    ASSUME TypeOK
    PROVE  /\ (IF Full THEN Nuz ELSE lzt) \in Nat
           /\ lnt + 1 <= (IF Full THEN Nuz ELSE lzt)
           /\ DOMAIN Allocated = 1 .. (IF Full THEN Nuz ELSE lzt)
           /\ \A i \in 1 .. lnt : Allocated[i] = lst[i]
<1>1. Chunk \in Nat /\ Chunk >= 1
  BY CountryAssumption
<1>2. lnt \in Nat /\ lzt \in Nat /\ lnt <= lzt /\ DOMAIN lst = 1 .. lzt
  BY DEF TypeOK
<1>3. CASE Full
  <2>1. Nuz \in Nat /\ lnt + 1 <= Nuz
    BY <1>1, <1>2 DEF Nuz
  <2>2. Allocated = [i \in 1 .. Nuz |-> IF i <= lnt THEN lst[i] ELSE Junk]
    BY <1>3 DEF Allocated
  <2>3. \A i \in 1 .. lnt : i \in 1 .. Nuz /\ i <= lnt
    BY <1>2, <2>1
  <2> QED
    BY <1>3, <2>1, <2>2, <2>3
<1>4. CASE ~Full
  <2>1. lnt < lzt
    BY <1>2, <1>4 DEF Full
  <2> QED
    BY <1>2, <1>4, <2>1 DEF Allocated
<1> QED
  BY <1>3, <1>4

(* A line stores in the one entry of its code, or in the next unused one.  *)
LEMMA Slot ==
    ASSUME Inv, NEW ln \in Code, NEW l \in Lengths
    PROVE  \E i \in 1 .. lnt + 1 :
              /\ Store(ln, l) =
                    [Allocated EXCEPT ![i] = [cc |-> ln, len |-> l % 256]]
              /\ Places(ln) = {} => i = lnt + 1
              /\ Places(ln) # {} => i \in 1 .. lnt /\ lst[i].cc = ln
<1>1. lnt \in Nat
  BY DEF Inv, TypeOK
<1>2. CASE Places(ln) = {}
  BY <1>1, <1>2 DEF Store
<1>3. CASE Places(ln) # {}
  <2>1. PICK p \in Places(ln) : TRUE
    BY <1>3
  <2>2. p \in 1 .. lnt /\ lst[p].cc = ln /\ p <= p
    BY <1>1, <2>1 DEF Places
  <2>3. \A o \in Places(ln) : o = p
    BY <2>2 DEF Places, Inv, OncePerCode
  <2>4. p = CHOOSE m \in Places(ln) : \A o \in Places(ln) : m <= o
    BY <2>1, <2>2, <2>3
  <2>5. Store(ln, l) =
            [Allocated EXCEPT ![p] = [cc |-> ln, len |-> l % 256]]
    BY <1>3, <2>4 DEF Store
  <2>6. p \in 1 .. lnt + 1
    BY <1>1, <2>2
  <2> QED
    BY <1>3, <2>2, <2>5, <2>6
<1> QED
  BY <1>2, <1>3

(* What is stored where, and that all other entries are left as they are.  *)
LEMMA Stored ==
    ASSUME Inv, NEW ln \in Code, NEW l \in Lengths, ccl_add(ln, l)
    PROVE  \E i \in 1 .. lnt' :
              /\ DOMAIN lst' = 1 .. lzt' /\ lzt' \in Nat /\ lnt' <= lzt'
              /\ lnt' \in Nat /\ lnt <= lnt'
              /\ lst'[i] = [cc |-> ln, len |-> l % 256]
              /\ \A k \in 1 .. lnt' : k # i => k \in 1 .. lnt
                                              /\ lst'[k] = lst[k]
              /\ \A k \in 1 .. lnt : k # i => lst[k].cc # ln
              /\ i \in 1 .. lnt => lst[i].cc = ln
              /\ has_lens' = (has_lens \/ l # 0)
<1>1. PICK i \in 1 .. lnt + 1 :
        /\ Store(ln, l) =
              [Allocated EXCEPT ![i] = [cc |-> ln, len |-> l % 256]]
        /\ Places(ln) = {} => i = lnt + 1
        /\ Places(ln) # {} => i \in 1 .. lnt /\ lst[i].cc = ln
  BY Slot
<1> DEFINE nuz == IF Full THEN Nuz ELSE lzt
<1>2. /\ nuz \in Nat /\ lnt + 1 <= nuz
      /\ DOMAIN Allocated = 1 .. nuz
      /\ \A k \in 1 .. lnt : Allocated[k] = lst[k]
  BY Room DEF Inv
<1>3. /\ lzt' = nuz
      /\ lnt' = IF Places(ln) = {} THEN lnt + 1 ELSE lnt
      /\ lst' = [Allocated EXCEPT ![i] = [cc |-> ln, len |-> l % 256]]
      /\ has_lens' = (has_lens \/ l # 0)
  BY <1>1 DEF ccl_add
<1> HIDE DEF nuz
<1>4. /\ lnt \in Nat /\ lnt' \in Nat /\ lnt <= lnt' /\ lnt' <= nuz
      /\ i \in 1 .. lnt' /\ lnt' \in {lnt, lnt + 1}
      /\ lnt' = lnt + 1 => i = lnt + 1
  BY <1>1, <1>2, <1>3 DEF Inv, TypeOK
<1>5. DOMAIN lst' = 1 .. nuz
  BY <1>2, <1>3
<1>6. i \in DOMAIN Allocated
  BY <1>2, <1>4
<1>7. lst'[i] = [cc |-> ln, len |-> l % 256]
  BY <1>3, <1>6
<1>8. ASSUME NEW k \in 1 .. lnt', k # i
      PROVE  k \in 1 .. lnt /\ lst'[k] = lst[k]
  <2>1. k \in 1 .. lnt
    BY <1>4, <1>8
  <2>2. k \in DOMAIN Allocated /\ Allocated[k] = lst[k]
    BY <1>2, <1>4, <2>1
  <2> QED
    BY <1>3, <1>8, <2>1, <2>2
<1>9. ASSUME NEW k \in 1 .. lnt, k # i
      PROVE  lst[k].cc # ln
  <2>1. CASE Places(ln) = {}
    BY <2>1 DEF Places
  <2>2. CASE Places(ln) # {}
    BY <1>1, <1>9, <2>2 DEF Inv, OncePerCode
  <2> QED
    BY <2>1, <2>2
<1>10. i \in 1 .. lnt => lst[i].cc = ln
  <2>1. CASE Places(ln) = {}
    BY <1>1, <1>4, <2>1
  <2> QED
    BY <1>1, <2>1
<1>11. /\ DOMAIN lst' = 1 .. lzt' /\ lzt' \in Nat /\ lnt' <= lzt'
       /\ lnt' \in Nat /\ lnt <= lnt' /\ i \in 1 .. lnt'
  BY <1>2, <1>3, <1>4, <1>5
<1> i \in 1 .. lnt'
  BY <1>4
<1> WITNESS i \in 1 .. lnt'
<1> QED
  BY <1>3, <1>7, <1>8, <1>9, <1>10, <1>11

LEMMA LineKeeps ==
    ASSUME Inv, Line
    PROVE  Inv'
<1>1. PICK ln \in Code, l \in Lengths : ccl_add(ln, l)
  BY DEF Line
<1>2. l % 256 \in 0 .. 255
  BY CountryAssumption
<1>3. PICK i \in 1 .. lnt' :
        /\ DOMAIN lst' = 1 .. lzt' /\ lzt' \in Nat /\ lnt' <= lzt'
        /\ lnt' \in Nat
        /\ lst'[i] = [cc |-> ln, len |-> l % 256]
        /\ \A k \in 1 .. lnt' : k # i => k \in 1 .. lnt /\ lst'[k] = lst[k]
        /\ \A k \in 1 .. lnt : k # i => lst[k].cc # ln
        /\ has_lens' = (has_lens \/ l # 0)
  BY <1>1, Stored
<1>8. TypeOK'
  <2>1. /\ pc' = pc /\ pc = "lines" /\ lines' = lines + 1
        /\ lines < MaxLines /\ lines \in 0 .. MaxLines
    BY DEF Line, Inv, TypeOK
  <2>2. /\ pc' \in {"lines", "exit", "valid_cc_p", "offs", "cc", "compiled"}
        /\ lines' \in 0 .. MaxLines
    BY <2>1, CountryAssumption
  <2>3. has_lens' \in BOOLEAN
    BY <1>3
  <2>4. lnt' \in Nat /\ lzt' \in Nat /\ lnt' <= lzt' /\ DOMAIN lst' = 1 .. lzt'
    BY <1>3
  <2>5. ASSUME NEW k \in 1 .. lnt'
        PROVE  lst'[k].cc \in Code /\ lst'[k].len \in 0 .. 255
    <3>1. CASE k = i
      BY <1>2, <1>3, <3>1
    <3>2. CASE k # i
      <4>1. k \in 1 .. lnt /\ lst'[k] = lst[k]
        BY <1>3, <3>2
      <4> QED
        BY <4>1 DEF Inv, TypeOK
    <3> QED
      BY <3>1, <3>2
  <2> QED
    BY <2>2, <2>3, <2>4, <2>5 DEF TypeOK
<1>9. OncePerCode'
  <2>2. ASSUME NEW k \in 1 .. lnt', NEW m \in 1 .. lnt',
               lst'[k].cc = lst'[m].cc, k # m
        PROVE  FALSE
    <3>1. CASE k = i
      BY <1>3, <2>2, <3>1
    <3>2. CASE m = i
      BY <1>3, <2>2, <3>2
    <3>3. CASE k # i /\ m # i
      <4>1. /\ k \in 1 .. lnt /\ lst'[k] = lst[k]
            /\ m \in 1 .. lnt /\ lst'[m] = lst[m]
        BY <1>3, <3>3
      <4> QED
        BY <2>2, <4>1 DEF Inv, OncePerCode
    <3> QED
      BY <3>1, <3>2, <3>3
  <2> QED
    BY <2>2 DEF OncePerCode
<1> QED
  BY <1>8, <1>9 DEF Inv

LEMMA Inductive == Inv /\ [Next]_vars => Inv'
<1> SUFFICES ASSUME Inv, [Next]_vars PROVE Inv'
  OBVIOUS
<1>1. CASE Line
  BY <1>1, LineKeeps
<1> DEFINE Labels == {"lines", "exit", "valid_cc_p", "offs", "cc", "compiled"}
<1>2. CASE UNCHANGED list /\ pc' \in Labels
  BY <1>2 DEF Inv, TypeOK, OncePerCode, list
<1>3. CASE OutOfMemory
  BY <1>2, <1>3 DEF OutOfMemory
<1>4. CASE EndOfInput
  BY <1>2, <1>4 DEF EndOfInput
<1>5. CASE WriteValid
  BY <1>2, <1>5 DEF WriteValid, Turn
<1>6. CASE WriteOffs
  BY <1>2, <1>6 DEF WriteOffs, Turn
<1>7. CASE WriteCc
  BY <1>2, <1>7 DEF WriteCc, Turn
<1>8. CASE Ask
  BY <1>2, <1>8 DEF Ask, Inv, TypeOK
<1>9. CASE Exited \/ UNCHANGED vars
  BY <1>2, <1>9 DEF Exited, vars, list, Inv, TypeOK
<1> QED
  BY <1>1, <1>3, <1>4, <1>5, <1>6, <1>7, <1>8, <1>9 DEF Next

LEMMA Starts == Init => Inv
<1> SUFFICES ASSUME Init PROVE Inv
  OBVIOUS
<1>1. MaxLines \in Nat
  BY CountryAssumption
<1>2. lst = <<>> /\ lnt = 0 /\ lzt = 0 /\ lines = 0 /\ pc = "lines"
      /\ has_lens = FALSE
  BY DEF Init
<1>3. DOMAIN lst = 1 .. lzt /\ 1 .. lnt = {}
  BY <1>2
<1>4. TypeOK
  <2>1. lines \in 0 .. MaxLines
    BY <1>1, <1>2
  <2>2. lnt \in Nat /\ lzt \in Nat /\ lnt <= lzt
    BY <1>2
  <2>3. has_lens \in BOOLEAN
    BY <1>2
  <2>4. pc \in {"lines", "exit", "valid_cc_p", "offs", "cc", "compiled"}
    BY <1>2
  <2>5. \A i \in 1 .. lnt : lst[i].cc \in Code /\ lst[i].len \in 0 .. 255
    BY <1>3
  <2> QED
    BY <1>3, <2>1, <2>2, <2>3, <2>4, <2>5 DEF TypeOK
<1>5. OncePerCode
  BY <1>3 DEF OncePerCode
<1> QED
  BY <1>4, <1>5 DEF Inv

LEMMA Invariance == Spec => []Inv
<1> QED
  BY Starts, Inductive, PTL DEF Spec

(* For every list and every first allocation, ccl_add stores inside the    *)
(* array that it has enlarged, and lengths fit in their octet: TypeOK.     *)
THEOREM StoredInBounds == Spec => []TypeOK
<1>1. Inv => TypeOK
  BY DEF Inv
<1> QED
  BY <1>1, Invariance, PTL

(* For every list, a code that is listed again overwrites its entry, so    *)
(* that no code is counted, or printed, twice.                             *)
THEOREM OneEntryEach == Spec => []OncePerCode
<1>1. Inv => OncePerCode
  BY DEF Inv
<1> QED
  BY <1>1, Invariance, PTL

-----------------------------------------------------------------------------
(* The entries of a letter *)

LEMMA Pair ==
    ASSUME NEW x \in Code, NEW y \in Code, x[1] = y[1], x[2] = y[2]
    PROVE  x = y
  BY DEF Code

(* The entries of a letter and of those before it are finitely many. *)
LEMMA Entries ==
    ASSUME Inv, NEW x
    PROVE  /\ lnt \in Nat
           /\ Of(x) \subseteq 1 .. lnt /\ IsFiniteSet(Of(x))
           /\ Cardinality(Of(x)) \in Nat
           /\ Before(x) \subseteq 1 .. lnt /\ IsFiniteSet(Before(x))
           /\ Cardinality(Before(x)) \in Nat
           /\ \A i \in Of(x) : /\ lst[i].cc \in Code /\ lst[i].len \in 0 .. 255
                               /\ lst[i].cc[1] = x /\ lst[i].cc[2] \in Letter
<1>1. lnt \in Nat /\ \A i \in 1 .. lnt : /\ lst[i].cc \in Code
                                         /\ lst[i].len \in 0 .. 255
  BY DEF Inv, TypeOK
<1>2. IsFiniteSet(1 .. lnt)
  BY <1>1, FS_Interval
<1>3. Of(x) \in SUBSET (1 .. lnt) /\ Before(x) \in SUBSET (1 .. lnt)
  BY DEF Of, Before
<1>4. IsFiniteSet(Of(x)) /\ IsFiniteSet(Before(x))
  BY <1>2, <1>3, FS_Subset
<1>5. Cardinality(Of(x)) \in Nat /\ Cardinality(Before(x)) \in Nat
  BY <1>4, FS_CardinalityType
<1>6. \A i \in Of(x) : i \in 1 .. lnt /\ lst[i].cc[1] = x
  BY DEF Of
<1> QED
  BY <1>1, <1>3, <1>4, <1>5, <1>6 DEF Code

(* Entries of a letter differ in the second letter; one with a greater     *)
(* letter has more entries ahead.                                          *)
LEMMA AheadMore ==
    ASSUME Inv, NEW x, NEW i \in Of(x), NEW k \in Of(x),
           lst[i].cc[2] < lst[k].cc[2]
    PROVE  Cardinality(Ahead(x, i)) < Cardinality(Ahead(x, k))
<1>1. /\ Ahead(x, i) \in SUBSET Of(x) /\ Ahead(x, k) \in SUBSET Of(x)
  BY DEF Ahead
<1>2. /\ IsFiniteSet(Ahead(x, i)) /\ IsFiniteSet(Ahead(x, k))
  BY <1>1, Entries, FS_Subset
<1>3. /\ Cardinality(Ahead(x, i)) \in Nat /\ Cardinality(Ahead(x, k)) \in Nat
  BY <1>2, FS_CardinalityType
<1>4. \A j \in Of(x) : lst[j].cc[2] \in Nat
  BY Entries, CountryAssumption DEF Letter
<1>5. i \notin Ahead(x, i) /\ i \in Ahead(x, k)
  BY <1>4 DEF Ahead
<1>6. Ahead(x, i) \cup {i} \in SUBSET Ahead(x, k)
  BY <1>4, <1>5 DEF Ahead
<1>7. Cardinality(Ahead(x, i) \cup {i}) = Cardinality(Ahead(x, i)) + 1
  BY <1>2, <1>5, FS_AddElement
<1>8. Cardinality(Ahead(x, i) \cup {i}) <= Cardinality(Ahead(x, k))
  BY <1>2, <1>6, FS_Subset
<1> QED
  BY <1>3, <1>7, <1>8

LEMMA AheadInjective ==
    ASSUME Inv, NEW x, NEW i \in Of(x), NEW k \in Of(x),
           Cardinality(Ahead(x, i)) = Cardinality(Ahead(x, k))
    PROVE  i = k
<1>1. /\ lst[i].cc \in Code /\ lst[k].cc \in Code
      /\ lst[i].cc[1] = x /\ lst[k].cc[1] = x
      /\ lst[i].cc[2] \in Nat /\ lst[k].cc[2] \in Nat
      /\ i \in 1 .. lnt /\ k \in 1 .. lnt
  BY Entries, CountryAssumption DEF Letter
<1>2. \A j \in Of(x) : Cardinality(Ahead(x, j)) \in Nat
  <2>1. ASSUME NEW j \in Of(x) PROVE Cardinality(Ahead(x, j)) \in Nat
    <3>1. Ahead(x, j) \in SUBSET Of(x)
      BY DEF Ahead
    <3>2. IsFiniteSet(Ahead(x, j))
      BY <3>1, Entries, FS_Subset
    <3> QED
      BY <3>2, FS_CardinalityType
  <2> QED
    BY <2>1
<1>3. lst[i].cc[2] = lst[k].cc[2]
  <2>1. CASE lst[i].cc[2] < lst[k].cc[2]
    BY <1>2, <2>1, AheadMore
  <2>2. CASE lst[k].cc[2] < lst[i].cc[2]
    BY <1>2, <2>2, AheadMore
  <2> QED
    BY <1>1, <2>1, <2>2
<1>4. lst[i].cc = lst[k].cc
  BY <1>1, <1>3, Pair
<1> QED
  BY <1>1, <1>4 DEF Inv, OncePerCode

(* In every place of the order there is just one entry. *)
LEMMA Ordered ==
    ASSUME Inv, NEW x
    PROVE  /\ \A n \in 1 .. Cardinality(Of(x)) :
                /\ Place(x, n) \in Of(x)
                /\ Cardinality(Ahead(x, Place(x, n))) = n - 1
           /\ \A i \in Of(x) : \E n \in 1 .. Cardinality(Of(x)) :
                Place(x, n) = i
<1> DEFINE O == Of(x)
           N == Cardinality(O)
           f == [i \in O |-> Cardinality(Ahead(x, i)) + 1]
<1>1. N \in Nat /\ IsFiniteSet(O)
  BY Entries
<1>2. ASSUME NEW i \in O
      PROVE  Cardinality(Ahead(x, i)) \in 0 .. N - 1
  <2>1. Ahead(x, i) \in SUBSET (O \ {i})
    <3>1. lst[i].cc[2] \in Nat
      BY Entries, CountryAssumption DEF Letter
    <3> QED
      BY <3>1 DEF Ahead
  <2>2. IsFiniteSet(O \ {i}) /\ Cardinality(O \ {i}) = N - 1
    BY <1>1, FS_RemoveElement
  <2>3. /\ IsFiniteSet(Ahead(x, i))
        /\ Cardinality(Ahead(x, i)) <= Cardinality(O \ {i})
    BY <2>1, <2>2, FS_Subset
  <2>4. Cardinality(Ahead(x, i)) \in Nat
    BY <2>3, FS_CardinalityType
  <2> QED
    BY <1>1, <2>2, <2>3, <2>4
<1>3. f \in [O -> 1 .. N]
  <2>1. \A i \in O : Cardinality(Ahead(x, i)) + 1 \in 1 .. N
    BY <1>1, <1>2
  <2> QED
    BY <2>1
<1>4. ASSUME NEW i \in O, NEW k \in O, f[i] = f[k]
      PROVE  i = k
  <2>1. Cardinality(Ahead(x, i)) = Cardinality(Ahead(x, k))
    BY <1>1, <1>2, <1>4
  <2> QED
    BY <2>1, AheadInjective
<1>5. f \in Injection(O, 1 .. N)
  <2> HIDE DEF f, O, N
  <2> QED
    BY <1>3, <1>4 DEF Injection, IsInjective
<1>6. IsFiniteSet(1 .. N) /\ Cardinality(1 .. N) = N
  BY <1>1, FS_Interval
<1>7. f \in Surjection(O, 1 .. N)
  <2> HIDE DEF f, O
  <2> QED
    BY <1>5, <1>6, FS_Injection
<1>8. ASSUME NEW n \in 1 .. N
      PROVE  Place(x, n) \in O /\ Cardinality(Ahead(x, Place(x, n))) = n - 1
  <2>1. PICK i \in O : f[i] = n
    BY <1>7 DEF Surjection
  <2>2. Cardinality(Ahead(x, i)) = n - 1
    BY <1>1, <1>2, <2>1
  <2> QED
    BY <2>2 DEF Place
<1>9. ASSUME NEW i \in O
      PROVE  \E n \in 1 .. N : Place(x, n) = i
  <2> DEFINE n == Cardinality(Ahead(x, i)) + 1
  <2>1. n \in 1 .. N
    BY <1>1, <1>2
  <2>2. Place(x, n) \in O /\ Cardinality(Ahead(x, Place(x, n))) = n - 1
    BY <1>8, <2>1
  <2>3. n - 1 = Cardinality(Ahead(x, i))
    BY <1>2
  <2>4. Place(x, n) = i
    <3> HIDE DEF n
    <3> QED
      BY <2>2, <2>3, AheadInjective
  <2> QED
    BY <2>1, <2>4
<1> QED
  BY <1>8, <1>9

(* Two places hold the same entry only if they are the same. *)
LEMMA OrderedOnce ==
    ASSUME Inv, NEW x,
           NEW n \in 1 .. Cardinality(Of(x)), NEW m \in 1 .. Cardinality(Of(x)),
           Place(x, n) = Place(x, m)
    PROVE  n = m
<1>1. n - 1 = m - 1 /\ n \in Int /\ m \in Int
  BY Ordered, Entries
<1> QED
  BY <1>1

(* The letters printed and the lengths behind them. *)
LEMMA Printed ==
    ASSUME Inv, NEW x
    PROVE  /\ Seconds(x) \in Seq(Nat) /\ Len(Seconds(x)) = Cardinality(Of(x))
           /\ Lens(x) \in Seq(Nat) /\ Len(Lens(x)) = Cardinality(Of(x))
<1> DEFINE N == Cardinality(Of(x))
<1>1. N \in Nat
  BY Entries
<1>2. \A n \in 1 .. N : /\ lst[Place(x, n)].cc[2] \in Nat
                        /\ lst[Place(x, n)].len \in Nat
  <2>1. ASSUME NEW n \in 1 .. N
        PROVE  /\ lst[Place(x, n)].cc[2] \in Letter
               /\ lst[Place(x, n)].len \in 0 .. 255
    <3>1. Place(x, n) \in Of(x)
      BY Ordered
    <3> QED
      BY <3>1, Entries
  <2>2. \A y \in Letter : y \in Nat
    BY CountryAssumption DEF Letter
  <2>3. \A y \in 0 .. 255 : y \in Nat
    OBVIOUS
  <2> QED
    BY <2>1, <2>2, <2>3, Zenon
<1> HIDE DEF N
<1>3. /\ [n \in 1 .. N |-> lst[Place(x, n)].cc[2]] \in Seq(Nat)
      /\ [n \in 1 .. N |-> lst[Place(x, n)].len] \in Seq(Nat)
  BY <1>1, <1>2, SeqDef
<1> QED
  BY <1>1, <1>3 DEF N, Seconds, Lens

(* One letter on, its entries are among those before. *)
LEMMA BeforeNext ==
    ASSUME Inv, NEW x \in Letter
    PROVE  /\ Cardinality(Before(x + 1))
                = Cardinality(Before(x)) + Cardinality(Of(x))
           /\ Cardinality(Before(First)) = 0
<1>1. \A i \in 1 .. lnt : lst[i].cc[1] \in Nat /\ lst[i].cc[1] >= First
  BY CountryAssumption DEF Inv, TypeOK, Code, Letter
<1>2. x \in Nat /\ First \in Nat
  BY CountryAssumption DEF Letter
<1>3. Before(x + 1) = Before(x) \cup Of(x) /\ Before(x) \cap Of(x) = {}
  BY <1>1, <1>2 DEF Before, Of
<1>4. Before(First) = {}
  BY <1>1, <1>2 DEF Before
<1>5. Cardinality(Before(x) \cup Of(x)) =
        Cardinality(Before(x)) + Cardinality(Of(x))
          - Cardinality(Before(x) \cap Of(x))
  BY Entries, FS_Union
<1>6. Cardinality({}) = 0
  BY FS_EmptySet
<1>7. Cardinality(Before(x)) \in Nat /\ Cardinality(Of(x)) \in Nat
  BY Entries
<1>8. Cardinality(Before(x) \cap Of(x)) = 0
  BY <1>3, <1>6, Zenon
<1>9. Cardinality(Before(x + 1)) = Cardinality(Before(x) \cup Of(x))
  BY <1>3, Zenon
<1>10. Cardinality(Before(First)) = 0
  BY <1>4, <1>6, Zenon
<1> QED
  BY <1>5, <1>7, <1>8, <1>9, <1>10
-----------------------------------------------------------------------------
(* The tables *)

(* The list does not change any more once it is printed. *)
LEMMA SameList ==
    ASSUME UNCHANGED list, NEW x
    PROVE  /\ lst' = lst /\ lnt' = lnt /\ has_lens' = has_lens
           /\ Of(x)' = Of(x) /\ Before(x)' = Before(x)
           /\ Seconds(x)' = Seconds(x) /\ Lens(x)' = Lens(x)
<1>1. lst' = lst /\ lnt' = lnt /\ has_lens' = has_lens
  BY DEF list
<1>2. Of(x)' = Of(x) /\ Before(x)' = Before(x)
  BY <1>1 DEF Of, Before
<1>3. \A n : Place(x, n)' = Place(x, n)
  BY <1>1 DEF Place, Ahead, Of
<1>4. Seconds(x)' = Seconds(x) /\ Lens(x)' = Lens(x)
  BY <1>1, <1>2, <1>3 DEF Seconds, Lens
<1> QED
  BY <1>1, <1>2, <1>4

LEMMA Index ==
    /\ First \in Nat /\ Last \in Nat /\ First <= Last /\ First \in Letter
    /\ Letters \in Nat \ {0}
    /\ \A x \in Letter : /\ x \in Nat /\ First <= x /\ x <= Last
                         /\ C2I(x) \in 1 .. Letters /\ C2I(x) = x - First + 1
  BY CountryAssumption DEF Letter, Letters, C2I

LEMMA IndexWithin == \A x \in Letter : C2I(x) <= Letters
  BY CountryAssumption DEF Letter, Letters, C2I

LEMMA IndexBefore ==
    ASSUME NEW x \in Letter, NEW y \in Letter, C2I(x) <= y - First + 1, x # y
    PROVE  C2I(x) \in 1 .. y - First
<1>1. /\ C2I(x) = x - First + 1 /\ C2I(x) >= 1
      /\ x \in Int /\ y \in Int /\ First \in Int
  BY Index
<1> QED
  BY <1>1

LEMMA TablesStart == Init => TablesWritten
<1> SUFFICES ASSUME Init PROVE TablesWritten
  OBVIOUS
<1>1. /\ pc = "lines" /\ c = First /\ off = 0 /\ has_lens = FALSE /\ lnt = 0
      /\ valid_cc = <<>> /\ offs = <<>> /\ cc = <<>> /\ answer = Unasked
  BY DEF Init
<1>2. Len(<<>>) = 0 /\ 1 .. lnt = {}
  BY <1>1
<1>3. ValidWritten
  BY <1>1, <1>2, Index DEF ValidWritten
<1>4. OffsWritten
  BY <1>1, <1>2, Index DEF OffsWritten
<1>5. CcWritten
  BY <1>1 DEF CcWritten
<1> QED
  BY <1>1, <1>2, <1>3, <1>4, <1>5, Index DEF TablesWritten

(* While lines are read there are no tables to agree with; as long as no   *)
(* line had a length, no entry has one.                                    *)
LEMMA TablesLine ==
    ASSUME Inv, TablesWritten, Line
    PROVE  TablesWritten'
<1>1. PICK ln \in Code, l \in Lengths : ccl_add(ln, l)
  BY DEF Line
<1>2. PICK i \in 1 .. lnt' :
        /\ lst'[i] = [cc |-> ln, len |-> l % 256]
        /\ \A k \in 1 .. lnt' : k # i => k \in 1 .. lnt /\ lst'[k] = lst[k]
        /\ has_lens' = (has_lens \/ l # 0)
  BY <1>1, Stored
<1>3. /\ pc = "lines" /\ pc' = pc /\ c' = c /\ off' = off
      /\ valid_cc' = valid_cc /\ offs' = offs /\ cc' = cc /\ answer' = answer
  BY DEF Line, tables
<1>4. /\ c = First /\ answer = Unasked /\ off = 0 /\ cc = <<>>
      /\ valid_cc \in Seq(SUBSET Letter) /\ Len(valid_cc) = 0
      /\ offs \in Seq(Nat \X Nat) /\ Len(offs) = 0
      /\ cc \in Seq(Nat)
  BY <1>3 DEF TablesWritten, ValidWritten, OffsWritten, CcWritten
<1>5. ValidWritten'
  BY <1>3, <1>4, Index DEF ValidWritten
<1>6. OffsWritten'
  BY <1>3, <1>4, Index DEF OffsWritten
<1>7. CcWritten'
  BY <1>3, <1>4 DEF CcWritten
<1>8. ASSUME ~has_lens', NEW k \in 1 .. lnt'
      PROVE  lst'[k].len = 0
  <2>1. ~has_lens /\ l = 0
    BY <1>2, <1>8
  <2>2. CASE k = i
    BY <1>2, <2>1, <2>2
  <2>3. CASE k # i
    BY <1>2, <2>1, <2>3 DEF TablesWritten
  <2> QED
    BY <2>2, <2>3
<1>9. c' = First /\ answer' = Unasked /\ pc' = "lines"
  BY <1>3, <1>4
<1> QED
  BY <1>5, <1>6, <1>7, <1>8, <1>9, Index DEF TablesWritten, Unasked, Letter

LEMMA TablesEnd ==
    ASSUME Inv, TablesWritten, OutOfMemory \/ EndOfInput
    PROVE  TablesWritten'
<1>1. /\ pc = "lines" /\ pc' \in {"exit", "valid_cc_p"} /\ UNCHANGED list
      /\ c' = c /\ off' = off
      /\ valid_cc' = valid_cc /\ offs' = offs /\ cc' = cc /\ answer' = answer
  BY DEF OutOfMemory, EndOfInput, tables
<1>2. /\ c = First /\ answer = Unasked /\ off = 0 /\ cc = <<>>
      /\ valid_cc \in Seq(SUBSET Letter) /\ Len(valid_cc) = 0
      /\ offs \in Seq(Nat \X Nat) /\ Len(offs) = 0
      /\ cc \in Seq(Nat)
  BY <1>1 DEF TablesWritten, ValidWritten, OffsWritten, CcWritten
<1>3. ValidWritten'
  BY <1>1, <1>2, Index DEF ValidWritten
<1>4. OffsWritten'
  BY <1>1, <1>2, Index DEF OffsWritten
<1>5. CcWritten'
  BY <1>1, <1>2 DEF CcWritten
<1>6. ~has_lens' => \A k \in 1 .. lnt' : lst'[k].len = 0
  BY <1>1 DEF TablesWritten, list
<1>7. c' = First /\ answer' = Unasked /\ pc' \in {"exit", "valid_cc_p"}
  BY <1>1, <1>2
<1> QED
  BY <1>3, <1>4, <1>5, <1>6, <1>7, Index DEF TablesWritten, Unasked, Letter

(* A turn of a loop over the letters goes to the next one or leaves. *)
LEMMA Turned ==
    ASSUME c \in Letter, NEW next, Turn(next)
    PROVE  /\ c' \in Letter
           /\ \/ c = Last /\ pc' = next /\ c' = First
              \/ c # Last /\ pc' = pc /\ c' = c + 1 /\ c < Last
           /\ \A x \in Letter : C2I(x) <= C2I(c) <=> x = c \/ x < c
           /\ c # Last => \A x \in Letter : x < c' <=> x = c \/ x < c
           /\ c = Last => \A x \in Letter : x = c \/ x < c
  BY Index DEF Turn, Letter, C2I

LEMMA TablesValid ==
    ASSUME Inv, TablesWritten, WriteValid
    PROVE  TablesWritten'
<1>1. /\ pc = "valid_cc_p" /\ c \in Letter /\ has_lens \in BOOLEAN
      /\ UNCHANGED list /\ has_lens' = has_lens
      /\ off' = off /\ offs' = offs /\ cc' = cc /\ answer' = answer
      /\ Turn(IF has_lens THEN "offs" ELSE "compiled")
      /\ valid_cc' = Append(valid_cc, {lst[i].cc[2] : i \in Of(c)})
  BY DEF WriteValid, list, Inv, TypeOK, TablesWritten
<1>2. /\ answer = Unasked /\ off = 0 /\ cc = <<>> /\ cc \in Seq(Nat)
      /\ valid_cc \in Seq(SUBSET Letter) /\ Len(valid_cc) = c - First
      /\ \A x \in Letter : C2I(x) <= Len(valid_cc) =>
            valid_cc[C2I(x)] = {lst[i].cc[2] : i \in Of(x)}
      /\ offs \in Seq(Nat \X Nat) /\ Len(offs) = 0
  BY <1>1 DEF TablesWritten, ValidWritten, OffsWritten, CcWritten
<1>3. /\ c' \in Letter
      /\ \/ c = Last /\ pc' = (IF has_lens THEN "offs" ELSE "compiled")
            /\ c' = First
         \/ c # Last /\ pc' = "valid_cc_p" /\ c' = c + 1
  BY <1>1, Turned
<1>4. {lst[i].cc[2] : i \in Of(c)} \in SUBSET Letter
  BY Entries
<1>5. /\ valid_cc' \in Seq(SUBSET Letter)
      /\ Len(valid_cc') = c - First + 1
      /\ \A k \in 1 .. Len(valid_cc) : valid_cc'[k] = valid_cc[k]
      /\ valid_cc'[c - First + 1] = {lst[i].cc[2] : i \in Of(c)}
  BY <1>1, <1>2, <1>4, Index, AppendProperties
<1>6. ValidWritten'
  <2>1. Len(valid_cc') = CASE pc' \in {"lines", "exit"} -> 0
                          [] pc' = "valid_cc_p" -> c' - First
                          [] OTHER -> Letters
    <3>1. CASE c = Last
      <4>1. pc' \in {"offs", "compiled"} /\ Len(valid_cc') = Letters
        BY <1>3, <1>5, <3>1 DEF Letters
      <4> QED
        BY <4>1
    <3>2. CASE c # Last
      <4>1. pc' = "valid_cc_p" /\ Len(valid_cc') = c' - First
        BY <1>1, <1>3, <1>5, <3>2, Index
      <4> QED
        BY <4>1
    <3> QED
      BY <3>1, <3>2
  <2>2. ASSUME NEW x \in Letter, C2I(x) <= Len(valid_cc')
        PROVE  valid_cc'[C2I(x)] = {lst[i].cc[2] : i \in Of(x)}
    <3>1. CASE x = c
      BY <1>1, <1>5, <3>1, Index
    <3>2. CASE x # c
      <4>1. C2I(x) \in 1 .. Len(valid_cc)
        <5>1. C2I(x) <= c - First + 1 /\ c \in Letter
          BY <1>1, <1>5, <2>2
        <5> QED
          BY <1>2, <3>2, <5>1, IndexBefore
      <4> QED
        BY <1>2, <1>5, <4>1
    <3> QED
      BY <3>1, <3>2
  <2>3. ASSUME NEW x \in Letter
        PROVE  {lst'[i].cc[2] : i \in Of(x)'} = {lst[i].cc[2] : i \in Of(x)}
    BY <1>1, SameList
  <2> QED
    BY <1>5, <2>1, <2>2, <2>3 DEF ValidWritten, Letters, C2I, Letter
<1>7. OffsWritten'
  <2>1. /\ pc' \in {"valid_cc_p", "offs", "compiled"}
        /\ pc' = "compiled" => ~has_lens
        /\ pc' = "offs" => c' = First
    BY <1>1, <1>3
  <2>2. pc' = "offs" => off' = Cardinality(Before(c)')
    <3>1. SUFFICES ASSUME pc' = "offs" PROVE off' = Cardinality(Before(c)')
      OBVIOUS
    <3>2. Before(c)' = Before(First)
      BY <1>1, <2>1, <3>1 DEF Before, list
    <3> QED
      BY <1>1, <1>2, <3>2, Index, BeforeNext
  <2>3. Len(offs') = CASE pc' = "offs" -> c' - First
                      [] pc' = "cc" \/ (pc' = "compiled" /\ has_lens')
                            -> Letters
                      [] OTHER -> 0
    <3>1. /\ pc' # "cc" /\ ~(pc' = "compiled" /\ has_lens')
          /\ Len(offs') = 0 /\ First - First = 0
      BY <1>1, <1>2, <2>1, Index
    <3> QED
      BY <2>1, <3>1
  <2>4. ASSUME NEW x \in Letter
        PROVE  ~(C2I(x) <= Len(offs'))
    <3>1. Len(offs') = 0
      BY <1>1, <1>2
    <3>2. C2I(x) \in Int /\ C2I(x) >= 1
      BY Index
    <3> QED
      BY <3>1, <3>2
  <2> QED
    BY <1>1, <1>2, <2>1, <2>2, <2>3, <2>4 DEF OffsWritten, Letters, C2I, Letter
<1>8. CcWritten'
  BY <1>1, <1>2, <1>3 DEF CcWritten
<1>9. ~has_lens' => \A k \in 1 .. lnt' : lst'[k].len = 0
  BY <1>1 DEF TablesWritten, list
<1>10. /\ pc' \in {"lines", "exit", "compiled"} => c' = First
       /\ pc' \in {"offs", "cc"} => has_lens'
       /\ pc' # "compiled" => answer' = Unasked'
  BY <1>1, <1>2, <1>3 DEF Unasked
<1> QED
  BY <1>3, <1>6, <1>7, <1>8, <1>9, <1>10 DEF TablesWritten, Letter

LEMMA TablesOffs ==
    ASSUME Inv, TablesWritten, WriteOffs
    PROVE  TablesWritten'
<1> DEFINE n == Cardinality(Of(c))
<1>1. /\ pc = "offs" /\ c \in Letter /\ has_lens
      /\ UNCHANGED list /\ has_lens' = has_lens
      /\ valid_cc' = valid_cc /\ cc' = cc /\ answer' = answer
      /\ off' = off + n /\ Turn("cc")
      /\ offs' = Append(offs, <<n, 2 * off>>)
  BY DEF WriteOffs, list, TablesWritten
<1>2. /\ answer = Unasked /\ cc = <<>> /\ cc \in Seq(Nat)
      /\ offs \in Seq(Nat \X Nat) /\ Len(offs) = c - First
      /\ \A x \in Letter : C2I(x) <= Len(offs) =>
            offs[C2I(x)] = <<Cardinality(Of(x)), 2 * Cardinality(Before(x))>>
      /\ off = Cardinality(Before(c))
      /\ valid_cc \in Seq(SUBSET Letter) /\ Len(valid_cc) = Letters
      /\ \A x \in Letter : C2I(x) <= Len(valid_cc) =>
            valid_cc[C2I(x)] = {lst[i].cc[2] : i \in Of(x)}
  BY <1>1 DEF TablesWritten, ValidWritten, OffsWritten, CcWritten
<1>3. /\ c' \in Letter
      /\ \/ c = Last /\ pc' = "cc" /\ c' = First
         \/ c # Last /\ pc' = "offs" /\ c' = c + 1
  BY <1>1, Turned
<1>4. n \in Nat /\ off \in Nat
  BY <1>2, Entries
<1>5. Cardinality(Before(c + 1)) = off + n
  BY <1>1, <1>2, BeforeNext
<1> HIDE DEF n
<1>6. /\ offs' \in Seq(Nat \X Nat)
      /\ Len(offs') = c - First + 1
      /\ \A k \in 1 .. Len(offs) : offs'[k] = offs[k]
      /\ offs'[c - First + 1] = <<n, 2 * off>>
  <2>1. <<n, 2 * off>> \in Nat \X Nat
    BY <1>4
  <2> QED
    BY <1>1, <1>2, <2>1, Index, AppendProperties
<1>7. ValidWritten'
  <2>1. ASSUME NEW x \in Letter
        PROVE  {lst'[i].cc[2] : i \in Of(x)'} = {lst[i].cc[2] : i \in Of(x)}
    BY <1>1, SameList
  <2>2. pc' \in {"cc", "offs"}
    BY <1>3
  <2> QED
    BY <1>1, <1>2, <2>1, <2>2 DEF ValidWritten, Letters, C2I, Letter
<1>8. OffsWritten'
  <2>1. Len(offs') = CASE pc' = "offs" -> c' - First
                      [] pc' = "cc" \/ (pc' = "compiled" /\ has_lens')
                            -> Letters
                      [] OTHER -> 0
    <3>1. CASE c = Last
      <4>1. pc' = "cc" /\ Len(offs') = Letters
        BY <1>3, <1>6, <3>1 DEF Letters
      <4> QED
        BY <4>1
    <3>2. CASE c # Last
      <4>1. pc' = "offs" /\ Len(offs') = c' - First
        BY <1>1, <1>3, <1>6, <3>2, Index
      <4> QED
        BY <4>1
    <3> QED
      BY <3>1, <3>2
  <2>2. ASSUME NEW x \in Letter, C2I(x) <= Len(offs')
        PROVE  offs'[C2I(x)] =
                  <<Cardinality(Of(x)), 2 * Cardinality(Before(x))>>
    <3>1. CASE x = c
      BY <1>1, <1>2, <1>6, <3>1, Index DEF n
    <3>2. CASE x # c
      <4>1. C2I(x) \in 1 .. Len(offs) /\ C2I(x) <= Len(offs)
        <5>1. C2I(x) <= c - First + 1 /\ c \in Letter /\ c - First \in Int
          BY <1>1, <1>6, <2>2, Index
        <5>2. C2I(x) \in 1 .. c - First
          BY <3>2, <5>1, IndexBefore
        <5> QED
          BY <1>2, <5>1, <5>2
      <4>2. offs'[C2I(x)] = offs[C2I(x)]
        BY <1>6, <4>1
      <4>3. offs[C2I(x)] =
                <<Cardinality(Of(x)), 2 * Cardinality(Before(x))>>
        BY <1>2, <4>1, Zenon
      <4> QED
        BY <4>2, <4>3, Zenon
    <3> QED
      BY <3>1, <3>2
  <2>3. ASSUME NEW x \in Letter
        PROVE  /\ Cardinality(Of(x))' = Cardinality(Of(x))
               /\ Cardinality(Before(x))' = Cardinality(Before(x))
    BY <1>1, SameList
  <2>4. pc' = "offs" => off' = Cardinality(Before(c)')
    <3>1. SUFFICES ASSUME pc' = "offs" PROVE off' = Cardinality(Before(c)')
      OBVIOUS
    <3>2. c' = c + 1
      BY <1>3, <3>1
    <3>3. Before(c)' = Before(c + 1)
      BY <1>1, <3>2 DEF Before, list
    <3> QED
      BY <1>1, <1>5, <3>3
  <2>5. pc' \in {"cc", "offs"}
    BY <1>3
  <2> QED
    BY <1>6, <2>1, <2>2, <2>3, <2>4, <2>5 DEF OffsWritten, Letters, C2I, Letter
<1>9. CcWritten'
  <2>1. pc' = "cc" => Cardinality(Before(c)') = 0
    <3>1. SUFFICES ASSUME pc' = "cc" PROVE Cardinality(Before(c)') = 0
      OBVIOUS
    <3>2. c' = First
      BY <1>3, <3>1
    <3>3. Before(c)' = Before(First)
      BY <1>1, <3>2 DEF Before, list
    <3> QED
      BY <1>1, <3>3, BeforeNext
  <2>2. pc' = "cc" => \A x \in Letter : ~(x < c')
    BY <1>3, Index
  <2>3. Len(cc') = 2 * 0
    BY <1>1, <1>2
  <2>4. pc' \in {"cc", "offs"}
    BY <1>3
  <2> QED
    BY <1>1, <1>2, <2>1, <2>2, <2>3, <2>4 DEF CcWritten, Letter
<1>10. ~has_lens' => \A k \in 1 .. lnt' : lst'[k].len = 0
  BY <1>1
<1>11. /\ pc' \in {"cc", "offs"} /\ has_lens' /\ answer' = Unasked'
  BY <1>1, <1>2, <1>3 DEF Unasked
<1> QED
  BY <1>3, <1>7, <1>8, <1>9, <1>10, <1>11 DEF TablesWritten, Letter

(* What is behind the codes and the lengths of the letters before c stays  *)
(* where it is; those of c come next.                                      *)
LEMMA Appended ==
    ASSUME NEW s \in Seq(Nat), NEW t \in Seq(Nat), NEW u \in Seq(Nat),
           Len(t) = Len(u)
    PROVE  /\ s \o t \o u \in Seq(Nat)
           /\ Len(s \o t \o u) = Len(s) + 2 * Len(t)
           /\ \A k \in 1 .. Len(s) : (s \o t \o u)[k] = s[k]
           /\ \A k \in 1 .. Len(t) :
                /\ (s \o t \o u)[Len(s) + k] = t[k]
                /\ (s \o t \o u)[Len(s) + Len(t) + k] = u[k]
<1>1. /\ Len(s) \in Nat /\ Len(t) \in Nat
  BY LenProperties
<1>2. /\ s \o t \in Seq(Nat) /\ Len(s \o t) = Len(s) + Len(t)
      /\ \A k \in 1 .. Len(s) + Len(t) :
            (s \o t)[k] = IF k <= Len(s) THEN s[k] ELSE t[k - Len(s)]
  BY ConcatProperties
<1>3. /\ s \o t \o u \in Seq(Nat)
      /\ Len(s \o t \o u) = Len(s) + Len(t) + Len(u)
      /\ \A k \in 1 .. Len(s) + Len(t) + Len(u) :
            (s \o t \o u)[k] = IF k <= Len(s) + Len(t) THEN (s \o t)[k]
                               ELSE u[k - (Len(s) + Len(t))]
  <2>1. ASSUME NEW v \in Seq(Nat)
        PROVE  /\ v \o u \in Seq(Nat) /\ Len(v \o u) = Len(v) + Len(u)
               /\ \A k \in 1 .. Len(v) + Len(u) :
                     (v \o u)[k] = IF k <= Len(v) THEN v[k] ELSE u[k - Len(v)]
    BY ConcatProperties
  <2>2. ASSUME NEW v \in Seq(Nat), v = s \o t
        PROVE  /\ v \o u \in Seq(Nat)
               /\ Len(v \o u) = Len(s) + Len(t) + Len(u)
               /\ \A k \in 1 .. Len(s) + Len(t) + Len(u) :
                     (v \o u)[k] = IF k <= Len(s) + Len(t) THEN v[k]
                                   ELSE u[k - (Len(s) + Len(t))]
    BY <1>2, <2>1, <2>2
  <2> QED
    BY <1>2, <2>2
<1>4. ASSUME NEW k \in 1 .. Len(s)
      PROVE  (s \o t \o u)[k] = s[k]
  <2>1. /\ k \in 1 .. Len(s) + Len(t) + Len(u) /\ k <= Len(s) + Len(t)
        /\ k \in 1 .. Len(s) + Len(t) /\ k <= Len(s)
    BY <1>1
  <2> QED
    BY <1>2, <1>3, <2>1
<1>5. ASSUME NEW k \in 1 .. Len(t)
      PROVE  (s \o t \o u)[Len(s) + k] = t[k]
  <2>1. /\ Len(s) + k \in 1 .. Len(s) + Len(t) + Len(u)
        /\ Len(s) + k <= Len(s) + Len(t)
        /\ Len(s) + k \in 1 .. Len(s) + Len(t) /\ ~(Len(s) + k <= Len(s))
        /\ Len(s) + k - Len(s) = k
    BY <1>1
  <2> QED
    BY <1>2, <1>3, <2>1
<1>6. ASSUME NEW k \in 1 .. Len(t)
      PROVE  (s \o t \o u)[Len(s) + Len(t) + k] = u[k]
  <2>1. /\ Len(s) + Len(t) + k \in 1 .. Len(s) + Len(t) + Len(u)
        /\ ~(Len(s) + Len(t) + k <= Len(s) + Len(t))
        /\ Len(s) + Len(t) + k - (Len(s) + Len(t)) = k
    BY <1>1
  <2> QED
    BY <1>3, <2>1
<1>7. Len(s) + Len(t) + Len(u) = Len(s) + 2 * Len(t)
  BY <1>1
<1> QED
  BY <1>3, <1>4, <1>5, <1>6, <1>7

LEMMA TablesCc ==
    ASSUME Inv, TablesWritten, WriteCc
    PROVE  TablesWritten'
<1> DEFINE n(x) == Cardinality(Of(x))
           b(x) == 2 * Cardinality(Before(x))
           Done(x, t) == /\ b(x) + 2 * n(x) <= Len(t)
                         /\ \A k \in 1 .. n(x) :
                               /\ t[b(x) + k] = Seconds(x)[k]
                               /\ t[b(x) + n(x) + k] = Lens(x)[k]
<1>1. /\ pc = "cc" /\ c \in Letter /\ has_lens
      /\ UNCHANGED list /\ has_lens' = has_lens /\ lst' = lst /\ lnt' = lnt
      /\ valid_cc' = valid_cc /\ offs' = offs /\ answer' = answer
      /\ off' = off /\ Turn("compiled")
      /\ cc' = cc \o Seconds(c) \o Lens(c)
  BY DEF WriteCc, list, TablesWritten
<1>2. /\ answer = Unasked
      /\ cc \in Seq(Nat) /\ Len(cc) = b(c)
      /\ \A x \in Letter : x < c => Done(x, cc)
      /\ offs \in Seq(Nat \X Nat) /\ Len(offs) = Letters
      /\ \A x \in Letter : C2I(x) <= Len(offs) =>
            offs[C2I(x)] = <<Cardinality(Of(x)), 2 * Cardinality(Before(x))>>
      /\ valid_cc \in Seq(SUBSET Letter) /\ Len(valid_cc) = Letters
      /\ \A x \in Letter : C2I(x) <= Len(valid_cc) =>
            valid_cc[C2I(x)] = {lst[i].cc[2] : i \in Of(x)}
  BY <1>1 DEF TablesWritten, ValidWritten, OffsWritten, CcWritten
<1>3. /\ c' \in Letter
      /\ \/ c = Last /\ pc' = "compiled" /\ c' = First
         \/ c # Last /\ pc' = "cc" /\ c' = c + 1
      /\ c # Last => \A x \in Letter : x < c' <=> x = c \/ x < c
      /\ c = Last => \A x \in Letter : x = c \/ x < c
  BY <1>1, Turned
<1>4. \A x : n(x) \in Nat /\ b(x) \in Nat
  BY Entries
<1>5. b(c + 1) = b(c) + 2 * n(c)
  BY <1>1, <1>4, Entries, BeforeNext
<1>6. ASSUME NEW x
      PROVE  /\ Of(x)' = Of(x) /\ Before(x)' = Before(x)
             /\ Seconds(x)' = Seconds(x) /\ Lens(x)' = Lens(x)
  BY <1>1, SameList
<1>7. /\ Seconds(c) \in Seq(Nat) /\ Len(Seconds(c)) = n(c)
      /\ Lens(c) \in Seq(Nat) /\ Len(Lens(c)) = n(c)
  BY Printed
<1>8. /\ cc' \in Seq(Nat) /\ Len(cc') = b(c) + 2 * n(c)
      /\ \A k \in 1 .. b(c) : cc'[k] = cc[k]
      /\ \A k \in 1 .. n(c) : /\ cc'[b(c) + k] = Seconds(c)[k]
                              /\ cc'[b(c) + n(c) + k] = Lens(c)[k]
  <2> HIDE DEF n, b
  <2>1. /\ cc \in Seq(Nat) /\ Len(Seconds(c)) = Len(Lens(c))
        /\ Seconds(c) \in Seq(Nat) /\ Lens(c) \in Seq(Nat)
    BY <1>2, <1>7
  <2>2. /\ cc \o Seconds(c) \o Lens(c) \in Seq(Nat)
        /\ Len(cc \o Seconds(c) \o Lens(c)) = Len(cc) + 2 * Len(Seconds(c))
        /\ \A k \in 1 .. Len(cc) : (cc \o Seconds(c) \o Lens(c))[k] = cc[k]
        /\ \A k \in 1 .. Len(Seconds(c)) :
             /\ (cc \o Seconds(c) \o Lens(c))[Len(cc) + k] = Seconds(c)[k]
             /\ (cc \o Seconds(c) \o Lens(c))[Len(cc) + Len(Seconds(c)) + k]
                    = Lens(c)[k]
    BY <2>1, Appended, Zenon
  <2> QED
    BY <1>1, <1>2, <1>7, <2>2
<1>9. ASSUME NEW x \in Letter, x = c \/ x < c
      PROVE  Done(x, cc')
  <2>1. CASE x = c
    <3> HIDE DEF n, b
    <3>1. b(c) + 2 * n(c) <= Len(cc')
      BY <1>4, <1>8
    <3> QED
      BY <1>8, <2>1, <3>1
  <2>2. CASE x < c
    <3> HIDE DEF n, b
    <3>1. /\ b(x) + 2 * n(x) <= b(c)
          /\ \A k \in 1 .. n(x) : /\ cc[b(x) + k] = Seconds(x)[k]
                                  /\ cc[b(x) + n(x) + k] = Lens(x)[k]
      BY <1>2, <2>2
    <3>2. \A k \in 1 .. n(x) : /\ b(x) + k \in 1 .. b(c)
                               /\ b(x) + n(x) + k \in 1 .. b(c)
      BY <1>4, <3>1
    <3>3. b(x) + 2 * n(x) <= Len(cc')
      BY <1>4, <1>8, <3>1
    <3> QED
      BY <1>8, <3>1, <3>2, <3>3
  <2> QED
    BY <1>9, <2>1, <2>2
<1>10. ValidWritten'
  <2>1. ASSUME NEW x \in Letter
        PROVE  {lst'[i].cc[2] : i \in Of(x)'} = {lst[i].cc[2] : i \in Of(x)}
    BY <1>1, SameList
  <2>2. pc' \in {"cc", "compiled"}
    BY <1>3
  <2> QED
    BY <1>1, <1>2, <2>1, <2>2 DEF ValidWritten, Letters, C2I, Letter
<1>11. OffsWritten'
  <2>1. pc' \in {"cc", "compiled"} /\ has_lens'
    BY <1>1, <1>3
  <2>2. ASSUME NEW x \in Letter
        PROVE  /\ Cardinality(Of(x))' = Cardinality(Of(x))
               /\ Cardinality(Before(x))' = Cardinality(Before(x))
    BY <1>1, SameList
  <2> QED
    BY <1>1, <1>2, <2>1, <2>2 DEF OffsWritten, Letters, C2I, Letter
<1>12. CcWritten'
  <2>1. pc' \in {"cc", "compiled"}
    BY <1>3
  <2>2. pc' = "cc" => Len(cc') = 2 * Cardinality(Before(c)')
    <3>1. SUFFICES ASSUME pc' = "cc" PROVE Len(cc') = 2 * Cardinality(Before(c)')
      OBVIOUS
    <3>2. c' = c + 1
      BY <1>3, <3>1
    <3>3. Before(c)' = Before(c + 1)
      BY <1>1, <3>2 DEF Before
    <3> QED
      BY <1>5, <1>8, <3>3
  <2>3. ASSUME NEW x \in Letter,
               (pc' = "cc" /\ x < c') \/ (pc' = "compiled" /\ has_lens')
        PROVE  LET m == Cardinality(Of(x))'
                   s == 2 * Cardinality(Before(x))'
               IN  /\ s + 2 * m <= Len(cc')
                   /\ \A k \in 1 .. m : /\ cc'[s + k] = Seconds(x)'[k]
                                        /\ cc'[s + m + k] = Lens(x)'[k]
    <3>1. x = c \/ x < c
      BY <1>3, <2>3
    <3>2. Done(x, cc')
      BY <1>9, <3>1
    <3> QED
      BY <1>6, <3>2
  <2> QED
    BY <1>8, <2>1, <2>2, <2>3 DEF CcWritten, Letter
<1>13. /\ pc' \in {"cc", "compiled"} /\ has_lens' /\ answer' = Unasked'
       /\ pc' = "compiled" => c' = First
  BY <1>1, <1>2, <1>3 DEF Unasked
<1> QED
  BY <1>3, <1>10, <1>11, <1>12, <1>13 DEF TablesWritten, Letter

(* The tables are only read once they are written. *)
LEMMA TablesKept ==
    ASSUME Inv, TablesWritten, Ask \/ Exited \/ UNCHANGED vars
    PROVE  TablesWritten'
<1>1. /\ UNCHANGED <<pc, list, c, off, tables>>
      /\ pc = "compiled" \/ answer' = answer
  BY DEF Ask, Exited, vars
<1>2. /\ pc' = pc /\ c' = c /\ off' = off
      /\ valid_cc' = valid_cc /\ offs' = offs /\ cc' = cc
      /\ lst' = lst /\ lnt' = lnt /\ has_lens' = has_lens
  BY <1>1 DEF list, tables
<1>3. ASSUME NEW x
      PROVE  /\ Of(x)' = Of(x) /\ Before(x)' = Before(x)
             /\ Seconds(x)' = Seconds(x) /\ Lens(x)' = Lens(x)
  BY <1>1, SameList
<1>4. Before(c)' = Before(c)
  BY <1>2 DEF Before
<1>5. ValidWritten'
  <2>1. ASSUME NEW x \in Letter
        PROVE  {lst'[i].cc[2] : i \in Of(x)'} = {lst[i].cc[2] : i \in Of(x)}
    BY <1>2, <1>3
  <2> QED
    BY <1>2, <2>1 DEF TablesWritten, ValidWritten, Letters, C2I, Letter
<1>6. OffsWritten'
  BY <1>2, <1>3, <1>4 DEF TablesWritten, OffsWritten, Letters, C2I, Letter
<1>7. CcWritten'
  BY <1>2, <1>3, <1>4 DEF TablesWritten, CcWritten, Letter
<1> QED
  BY <1>1, <1>2, <1>5, <1>6, <1>7 DEF TablesWritten, Unasked, Letter

LEMMA TablesInductive == Inv /\ TablesWritten /\ [Next]_vars => TablesWritten'
<1> SUFFICES ASSUME Inv, TablesWritten, [Next]_vars PROVE TablesWritten'
  OBVIOUS
<1>1. CASE Line
  BY <1>1, TablesLine
<1>2. CASE OutOfMemory \/ EndOfInput
  BY <1>2, TablesEnd
<1>3. CASE WriteValid
  BY <1>3, TablesValid
<1>4. CASE WriteOffs
  BY <1>4, TablesOffs
<1>5. CASE WriteCc
  BY <1>5, TablesCc
<1>6. CASE Ask \/ Exited \/ UNCHANGED vars
  BY <1>6, TablesKept
<1> QED
  BY <1>1, <1>2, <1>3, <1>4, <1>5, <1>6 DEF Next

(* For every list, whatever has been printed of the three tables agrees    *)
(* with it: the letters that may follow, the counts and the offsets, and   *)
(* the codes and lengths at these offsets.                                 *)
THEOREM TablesAgree == Spec => []TablesWritten
<1> QED
  BY Invariance, TablesStart, TablesInductive, PTL DEF Spec

-----------------------------------------------------------------------------
(* The functions compiled *)

LEMMA ValidRight ==
    ASSUME Inv, TablesWritten, pc = "compiled", NEW x \in Code
    PROVE  valid_cc_p(x) <=> x \in Listed
<1>1. x[1] \in Letter /\ x[2] \in Letter
  BY DEF Code
<1>2. Len(valid_cc) = Letters
  BY DEF TablesWritten, ValidWritten
<1>3. C2I(x[1]) <= Len(valid_cc)
  BY <1>1, <1>2, IndexWithin
<1>4. valid_cc[C2I(x[1])] = {lst[i].cc[2] : i \in Of(x[1])}
  BY <1>1, <1>3 DEF TablesWritten, ValidWritten
<1>5. valid_cc_p(x) <=> \E i \in Of(x[1]) : lst[i].cc[2] = x[2]
  BY <1>1, <1>4 DEF valid_cc_p
<1>6. ASSUME NEW i \in Of(x[1]), lst[i].cc[2] = x[2]
      PROVE  i \in 1 .. lnt /\ lst[i].cc = x
  BY <1>6, Entries, Pair
<1>7. ASSUME NEW i \in 1 .. lnt, lst[i].cc = x
      PROVE  i \in Of(x[1]) /\ lst[i].cc[2] = x[2]
  BY <1>7 DEF Of
<1> QED
  BY <1>5, <1>6, <1>7 DEF Listed

(* The search of cc_len hits the place of the code, and no other.          *)
LEMMA LengthRight ==
    ASSUME Inv, TablesWritten, pc = "compiled", has_lens, NEW x \in Code
    PROVE  /\ x \notin Listed => cc_len(x) = 0
           /\ \A e \in 1 .. lnt : lst[e].cc = x => cc_len(x) = lst[e].len
<1> DEFINE y == x[1]
           n == Cardinality(Of(y))
           s == 2 * Cardinality(Before(y))
           Hits == {i \in s .. s + n - 1 : cc[i + 1] = x[2]}
<1>1. y \in Letter /\ x[2] \in Letter /\ n \in Nat /\ s \in Nat
  BY Entries DEF Code
<1>2. offs[C2I(y)] = <<n, s>>
  <2>1. Len(offs) = Letters
    BY DEF TablesWritten, OffsWritten
  <2>2. C2I(y) <= Len(offs)
    BY <1>1, <2>1, IndexWithin
  <2> QED
    BY <1>1, <2>2 DEF TablesWritten, OffsWritten
<1>3. cc_len(x) = IF Hits = {} THEN 0
                  ELSE cc[(CHOOSE i \in Hits : \A k \in Hits : i <= k) + n + 1]
  BY <1>2 DEF cc_len
<1>4. \A k \in 1 .. n : /\ cc[s + k] = lst[Place(y, k)].cc[2]
                        /\ cc[s + n + k] = lst[Place(y, k)].len
                        /\ Place(y, k) \in Of(y)
  <2>1. \A k \in 1 .. n : cc[s + k] = Seconds(y)[k] /\ cc[s + n + k] = Lens(y)[k]
    BY <1>1 DEF TablesWritten, CcWritten
  <2>2. \A k \in 1 .. n : Place(y, k) \in Of(y)
    BY Ordered
  <2> QED
    BY <2>1, <2>2 DEF Seconds, Lens
<1> HIDE DEF n, s
<1>5. \A i \in s .. s + n - 1 : i - s + 1 \in 1 .. n /\ s + (i - s + 1) = i + 1
  BY <1>1
<1>6. ASSUME NEW i \in Hits
      PROVE  /\ i - s + 1 \in 1 .. n
             /\ Place(y, i - s + 1) \in 1 .. lnt
             /\ lst[Place(y, i - s + 1)].cc = x
  <2>1. i - s + 1 \in 1 .. n /\ cc[s + (i - s + 1)] = x[2]
    BY <1>5
  <2>2. lst[Place(y, i - s + 1)].cc[2] = x[2] /\ Place(y, i - s + 1) \in Of(y)
    BY <1>4, <2>1
  <2> QED
    BY <2>1, <2>2, Entries, Pair
<1>7. ASSUME x \notin Listed
      PROVE  cc_len(x) = 0
  BY <1>3, <1>6, <1>7 DEF Listed
<1>8. ASSUME NEW e \in 1 .. lnt, lst[e].cc = x
      PROVE  cc_len(x) = lst[e].len
  <2>1. e \in Of(y)
    BY <1>8 DEF Of
  <2>2. PICK k \in 1 .. n : Place(y, k) = e
    BY <2>1, Ordered DEF n
  <2> DEFINE h == s + k - 1
  <2>3. h \in s .. s + n - 1 /\ h + 1 = s + k /\ h + n + 1 = s + n + k
    BY <1>1
  <2>4. h \in Hits
    BY <1>4, <1>8, <2>2, <2>3
  <2>5. ASSUME NEW i \in Hits
        PROVE  i = h
    <3>1. lst[Place(y, i - s + 1)].cc = lst[e].cc
      BY <1>6, <1>8
    <3>2. Place(y, i - s + 1) = e
      BY <1>6, <3>1 DEF Inv, OncePerCode
    <3>3. i - s + 1 = k
      BY <1>6, <2>2, <3>2, OrderedOnce DEF n
    <3> QED
      BY <1>1, <3>3
  <2> HIDE DEF h
  <2>6. Hits = {h} /\ h <= h
    BY <1>1, <2>3, <2>4, <2>5
  <2>7. (CHOOSE i \in Hits : \A j \in Hits : i <= j) = h
    BY <2>6
  <2>8. cc_len(x) = cc[h + n + 1]
    BY <1>3, <2>4, <2>7
  <2> QED
    BY <1>4, <2>2, <2>3, <2>8
<1> QED
  BY <1>7, <1>8

-----------------------------------------------------------------------------
(* What the compiled list promises *)

Recorded == [x \in Listed |-> (lst[CHOOSE i \in 1 .. lnt : lst[i].cc = x]).len]

(* A code has its length recorded in the one entry that it has. *)
RecordedRight ==
    \A i \in 1 .. lnt : /\ lst[i].cc \in Listed
                        /\ Recorded[lst[i].cc] = lst[i].len

LEMMA RecordedOnce == Inv => RecordedRight
<1> SUFFICES ASSUME Inv, NEW i \in 1 .. lnt
             PROVE  lst[i].cc \in Listed /\ Recorded[lst[i].cc] = lst[i].len
  BY DEF RecordedRight
<1>1. lst[i].cc \in Listed
  BY DEF Listed
<1>2. (CHOOSE k \in 1 .. lnt : lst[k].cc = lst[i].cc) = i
  BY DEF Inv, OncePerCode
<1> QED
  BY <1>1, <1>2 DEF Recorded

LEMMA RecordedNext == Inv' => RecordedRight'
<1> QED
  BY RecordedOnce, PTL

(* A line read is a line of the list: it adds its code, or gives it        *)
(* another length, and leaves all others as they are.                      *)
LEMMA LineLists ==
    ASSUME Inv, TablesWritten, Line
    PROVE  Map!Next
<1>1. PICK ln \in Code, l \in Lengths : ccl_add(ln, l)
  BY DEF Line
<1>2. PICK i \in 1 .. lnt' :
        /\ lnt' \in Nat /\ lnt <= lnt'
        /\ lst'[i] = [cc |-> ln, len |-> l % 256]
        /\ \A k \in 1 .. lnt' : k # i => k \in 1 .. lnt /\ lst'[k] = lst[k]
        /\ \A k \in 1 .. lnt : k # i => lst[k].cc # ln
        /\ i \in 1 .. lnt => lst[i].cc = ln
  BY <1>1, Stored
<1>3. Inv'
  BY LineKeeps
<1>4. pc = "lines" /\ answer = Unasked /\ answer' = answer
  BY DEF Line, TablesWritten
<1>5. Listed' = Listed \cup {ln}
  <2>1. ASSUME NEW k \in 1 .. lnt'
        PROVE  lst'[k].cc \in Listed \cup {ln}
    BY <1>2 DEF Listed
  <2>2. ASSUME NEW k \in 1 .. lnt
        PROVE  \E m \in 1 .. lnt' : lst'[m].cc = lst[k].cc
    <3>1. CASE k = i
      BY <1>2, <3>1
    <3>2. CASE k # i
      <4>1. k \in 1 .. lnt'
        BY <1>2, Entries
      <4> QED
        BY <1>2, <3>2, <4>1
    <3> QED
      BY <3>1, <3>2
  <2>3. ln = lst'[i].cc
    BY <1>2
  <2> QED
    BY <2>1, <2>2, <2>3 DEF Listed
<1>6. ASSUME NEW x \in Listed'
      PROVE  Recorded'[x] = IF x = ln THEN l % 256 ELSE Recorded[x]
  <2>1. PICK k \in 1 .. lnt' : x = lst'[k].cc
    BY DEF Listed
  <2>2. Recorded'[x] = lst'[k].len
    BY <1>3, <2>1, RecordedNext DEF RecordedRight
  <2>3. CASE k = i
    BY <1>2, <2>1, <2>2, <2>3
  <2>4. CASE k # i
    <3>1. k \in 1 .. lnt /\ lst'[k] = lst[k] /\ lst[k].cc # ln
      BY <1>2, <2>4
    <3>2. Recorded[x] = lst[k].len
      BY <2>1, <3>1, RecordedOnce DEF RecordedRight
    <3> QED
      BY <2>1, <2>2, <3>1, <3>2
  <2> QED
    BY <2>3, <2>4
<1>7. Recorded' = [x \in Listed \cup {ln} |->
                      IF x = ln THEN l % 256 ELSE Recorded[x]]
  <2>1. Recorded' = [x \in Listed' |-> Recorded'[x]]
    BY DEF Recorded
  <2> QED
    BY <1>5, <1>6, <2>1
<1>8. DOMAIN Recorded = Listed
  BY DEF Recorded
<1>9. Map!List(ln, l)
  BY <1>4, <1>7, <1>8 DEF Map!List, Map!Unasked, Unasked, Recorded
<1> QED
  BY <1>1, <1>9 DEF Map!Next

(* Every answer is the list's. *)
LEMMA AskAsks ==
    ASSUME Inv, TablesWritten, Ask
    PROVE  Map!Next
<1>1. PICK x \in Code :
        answer' = [code |-> x, valid |-> valid_cc_p(x),
                   len |-> IF has_lens THEN cc_len(x) ELSE 0]
  BY DEF Ask
<1>2. pc = "compiled" /\ lst' = lst /\ lnt' = lnt
  BY DEF Ask, list
<1>3. Recorded' = Recorded
  BY <1>2 DEF Recorded, Listed
<1>4. DOMAIN Recorded = Listed
  BY DEF Recorded
<1>5. valid_cc_p(x) = (x \in Listed)
  <2>1. valid_cc_p(x) \in BOOLEAN
    BY DEF valid_cc_p
  <2> QED
    BY <1>2, <2>1, ValidRight
<1>6. (IF has_lens THEN cc_len(x) ELSE 0) =
      IF x \in Listed THEN Recorded[x] ELSE 0
  <2>1. CASE x \in Listed
    <3>1. PICK e \in 1 .. lnt : lst[e].cc = x
      BY <2>1 DEF Listed
    <3>2. Recorded[x] = lst[e].len
      BY <3>1, RecordedOnce DEF RecordedRight
    <3>3. CASE has_lens
      BY <1>2, <2>1, <3>1, <3>2, <3>3, LengthRight
    <3>4. CASE ~has_lens
      BY <2>1, <3>2, <3>4 DEF TablesWritten
    <3> QED
      BY <3>3, <3>4
  <2>2. CASE x \notin Listed
    BY <1>2, <2>2, LengthRight
  <2> QED
    BY <2>1, <2>2
<1>7. Map!Ask(x)
  BY <1>1, <1>3, <1>4, <1>5, <1>6 DEF Map!Ask, Recorded
<1> QED
  BY <1>7 DEF Map!Next

(* Nothing else is seen through the functions compiled. *)
LEMMA OthersStutter ==
    ASSUME \/ OutOfMemory \/ EndOfInput \/ WriteValid \/ WriteOffs \/ WriteCc
           \/ Exited \/ UNCHANGED vars
    PROVE  UNCHANGED Map!vars
<1>1. UNCHANGED <<list, answer>>
  BY DEF OutOfMemory, EndOfInput, WriteValid, WriteOffs, WriteCc, Exited, vars
<1>2. lst' = lst /\ lnt' = lnt /\ answer' = answer
  BY <1>1 DEF list
<1> QED
  BY <1>2 DEF Map!vars, Listed

LEMMA StartEmpty == Init => Map!Init
<1> SUFFICES ASSUME Init PROVE Map!Init
  OBVIOUS
<1>1. Listed = {}
  BY DEF Init, Listed
<1> QED
  BY <1>1 DEF Init, Map!Init, Map!Unasked, Unasked

(* For every list, every first allocation and every range of letters, the  *)
(* two functions that cccc prints do what nmck_bic, nmck_isin and          *)
(* nmck_iban take them to do: a code is valid if and only if it is listed, *)
(* and its length is the one given last.                                   *)
THEOREM CompiledRight == Spec => Implements
<1>1. Inv /\ TablesWritten /\ [Next]_vars => [Map!Next]_(Map!vars)
  <2> SUFFICES ASSUME Inv, TablesWritten, [Next]_vars
               PROVE  [Map!Next]_(Map!vars)
    OBVIOUS
  <2> USE DEF Next
  <2>1. CASE Line
    BY <2>1, LineLists
  <2>2. CASE Ask
    BY <2>2, AskAsks
  <2>3. CASE \/ OutOfMemory \/ EndOfInput \/ WriteValid \/ WriteOffs
             \/ WriteCc \/ Exited \/ UNCHANGED vars
    BY <2>3, OthersStutter
  <2> QED
    BY <2>1, <2>2, <2>3
<1> QED
  BY <1>1, StartEmpty, Invariance, TablesAgree, PTL
      DEF Implements, Map!Spec, Spec

=============================================================================
