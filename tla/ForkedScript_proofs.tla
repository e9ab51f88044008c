------------------------- MODULE ForkedScript_proofs -------------------------
(***************************************************************************)
(* Proofs about ForkedScript: for any names, values and knowledge bases,   *)
(* and any script.                                                         *)
(***************************************************************************)
EXTENDS ForkedScript, FiniteSetTheorems, TLAPS

-----------------------------------------------------------------------------
(* The least and the greatest of a set of indices.                         *)

LEMMA Least ==
    ASSUME NEW n \in Nat, NEW T \in SUBSET (1..n), T # {}
    PROVE  \E m \in T : \A k \in T : m <= k
<1> DEFINE R == StrictSubsetOrdering(1..n)
           W == {1..k : k \in T}
<1>1. IsWellFoundedOn(R, SUBSET (1..n))
  <2>1. IsFiniteSet(1..n)
    BY FS_Interval
  <2>2. FiniteSubsetsOf(1..n) = SUBSET (1..n)
    BY <2>1, FS_FiniteSubsetsOfFinite
  <2> QED BY <2>2, FS_StrictSubsetOrderingWellFounded
<1>2. W \subseteq SUBSET (1..n) /\ W # {}
  <2>1. \A k \in T : 1..k \subseteq 1..n
    OBVIOUS
  <2> QED BY <2>1
<1>3. PICK w \in W : \A v \in W : ~ (<<v, w>> \in R)
  <2> HIDE DEF R, W
  <2> QED BY <1>1, <1>2, WFMin
<1>4. PICK m \in T : w = 1..m
  OBVIOUS
<1>5. ASSUME NEW k \in T, k < m PROVE FALSE
  <2>1. 1..k \subseteq 1..m /\ m \in 1..m /\ m \notin 1..k
    BY <1>5
  <2>2. <<1..k, 1..m>> \in R
    BY <2>1, <1>2 DEF StrictSubsetOrdering
  <2> QED BY <1>3, <1>4, <2>2
<1> QED BY <1>5

LEMMA Greatest ==
    ASSUME NEW n \in Nat, NEW T \in SUBSET (1..n), T # {}
    PROVE  \E m \in T : \A k \in T : k <= m
<1> DEFINE U == {i \in 1..n : n + 1 - i \in T}
<1>1. U \in SUBSET (1..n) /\ U # {}
  <2>1. PICK t \in T : TRUE
    OBVIOUS
  <2>2. n + 1 - t \in 1..n /\ n + 1 - (n + 1 - t) = t
    OBVIOUS
  <2> QED BY <2>1, <2>2
<1>2. PICK m \in U : \A k \in U : m <= k
  <2> HIDE DEF U
  <2> QED BY <1>1, Least
<1>3. ASSUME NEW k \in T PROVE k <= n + 1 - m
  <2>1. n + 1 - k \in 1..n /\ n + 1 - (n + 1 - k) = k
    OBVIOUS
  <2>2. n + 1 - k \in U
    BY <2>1
  <2> QED BY <1>2, <2>2
<1> QED BY <1>2, <1>3

-----------------------------------------------------------------------------
(* The odometer.  Combinations of n positions below v, in the order of     *)
(* their first difference.                                                 *)

Digits(n, v) == {c \in [1..n -> Nat] : \A i \in 1..n : c[i] < v[i]}

UpTo(n, c, d) ==
    \/ c = d
    \/ \E p \in 1..n : c[p] < d[p] /\ \A i \in 1..(p - 1) : c[i] = d[i]

\* Unless they are equal, two combinations have a first difference.
LEMMA FirstDifference ==
    ASSUME NEW n \in Nat, NEW c \in [1..n -> Nat], NEW d \in [1..n -> Nat], c # d
    PROVE  \E p \in 1..n : c[p] # d[p] /\ \A i \in 1..(p - 1) : c[i] = d[i]
<1> DEFINE T == {i \in 1..n : c[i] # d[i]}
<1>1. T \in SUBSET (1..n) /\ T # {}
  OBVIOUS
<1>2. PICK p \in T : \A k \in T : p <= k
  <2> HIDE DEF T
  <2> QED BY <1>1, Least
<1> QED BY <1>2

\* Only the combination of first positions comes before itself.
LEMMA FirstCombination ==
    ASSUME NEW n \in Nat, NEW c \in [1..n -> Nat], NEW d \in [1..n -> Nat],
           \A i \in 1..n : d[i] = 0, UpTo(n, c, d)
    PROVE  c = d
BY DEF UpTo

\* When no digit can grow, every combination comes before the last one.
LEMMA LastCombination ==
    ASSUME NEW n \in Nat, NEW v \in [1..n -> Nat],
           NEW c \in Digits(n, v), NEW d \in Digits(n, v),
           \A i \in 1..n : ~(d[i] + 1 < v[i])
    PROVE  UpTo(n, c, d)
<1>1. CASE c = d
  BY <1>1 DEF UpTo
<1>2. CASE c # d
  <2>1. PICK p \in 1..n : c[p] # d[p] /\ \A i \in 1..(p - 1) : c[i] = d[i]
    BY <1>2, FirstDifference DEF Digits
  <2>2. c[p] < d[p]
    BY <2>1 DEF Digits
  <2> QED BY <2>1, <2>2 DEF UpTo
<1> QED BY <1>1, <1>2

\* e is d with digit p grown, the last that can, and those after it at 0.
Carries(n, v, d, p, e) ==
    /\ d[p] + 1 < v[p]
    /\ \A j \in 1..n : j > p => ~(d[j] + 1 < v[j])
    /\ e \in [1..n -> Nat]
    /\ \A i \in 1..n : e[i] = IF i < p THEN d[i] ELSE IF i = p THEN d[i] + 1 ELSE 0

\* The carry leads to the next combination: what comes before it comes before
\* the old one, or is the new one itself.
LEMMA NextIsSuccessor ==
    ASSUME NEW n \in Nat, NEW v \in [1..n -> Nat],
           NEW c \in Digits(n, v), NEW d \in Digits(n, v), NEW e,
           NEW p \in 1..n, Carries(n, v, d, p, e)
    PROVE  UpTo(n, c, e) <=> (UpTo(n, c, d) \/ c = e)
<1>a. c \in [1..n -> Nat] /\ d \in [1..n -> Nat] /\ \A i \in 1..n : c[i] < v[i]
  BY DEF Digits
<1>b. /\ e \in [1..n -> Nat] /\ d[p] + 1 < v[p]
      /\ \A i \in 1..(p - 1) : e[i] = d[i]
      /\ e[p] = d[p] + 1
      /\ \A i \in (p + 1)..n : e[i] = 0 /\ c[i] <= d[i]
  <2>1. e \in [1..n -> Nat] /\ d[p] + 1 < v[p] /\ \A i \in 1..(p - 1) : e[i] = d[i]
    BY DEF Carries
  <2>2. e[p] = d[p] + 1
    BY DEF Carries
  <2>3. ASSUME NEW i \in (p + 1)..n PROVE e[i] = 0 /\ c[i] <= d[i]
    <3>1. i \in 1..n /\ i > p
      OBVIOUS
    <3>2. e[i] = 0 /\ ~(d[i] + 1 < v[i])
      BY <3>1 DEF Carries
    <3>3. c[i] < v[i] /\ c[i] \in Nat /\ d[i] \in Nat /\ v[i] \in Nat
      BY <1>a, <3>1
    <3> QED BY <3>2, <3>3
  <2> QED BY <2>1, <2>2, <2>3
<1> USE <1>a, <1>b
<1>1. ASSUME UpTo(n, c, e), c # e PROVE UpTo(n, c, d)
  <2>1. PICK q \in 1..n : c[q] < e[q] /\ \A i \in 1..(q - 1) : c[i] = e[i]
    BY <1>1 DEF UpTo
  <2>2. CASE q < p
    <3>1. e[q] = d[q] /\ \A i \in 1..(q - 1) : i \in 1..(p - 1)
      BY <2>2
    <3>2. c[q] < d[q] /\ \A i \in 1..(q - 1) : c[i] = d[i]
      BY <2>1, <3>1
    <3> QED BY <3>2 DEF UpTo
  <2>3. CASE q = p /\ c[p] < d[p]
    <3>1. c[p] < d[p] /\ \A i \in 1..(p - 1) : c[i] = d[i]
      BY <2>1, <2>3
    <3> QED BY <3>1 DEF UpTo
  <2>4. CASE q = p /\ ~(c[p] < d[p])
    <3>1. \A i \in 1..p : c[i] = d[i]
      <4>1. c[p] = d[p]
        BY <2>1, <2>4
      <4>2. \A i \in 1..(p - 1) : c[i] = d[i]
        BY <2>1, <2>4
      <4> QED BY <4>1, <4>2
    <3>2. CASE c = d
      BY <3>2 DEF UpTo
    <3>3. CASE c # d
      <4>1. PICK r \in 1..n : c[r] # d[r] /\ \A i \in 1..(r - 1) : c[i] = d[i]
        BY <3>3, FirstDifference
      <4>2. r > p
        BY <3>1, <4>1
      <4>3. c[r] < d[r]
        BY <4>1, <4>2
      <4> QED BY <4>1, <4>3 DEF UpTo
    <3> QED BY <3>2, <3>3
  <2>5. CASE q > p
    <3>1. e[q] = 0 /\ c[q] \in Nat
      BY <2>5
    <3> QED BY <2>1, <3>1
  <2> QED BY <2>2, <2>3, <2>4, <2>5
<1>2. ASSUME UpTo(n, c, d) PROVE UpTo(n, c, e)
  <2>1. CASE c = d
    <3>1. c[p] < e[p] /\ \A i \in 1..(p - 1) : c[i] = e[i]
      BY <2>1
    <3> QED BY <3>1 DEF UpTo
  <2>2. CASE c # d
    <3>1. PICK q \in 1..n : c[q] < d[q] /\ \A i \in 1..(q - 1) : c[i] = d[i]
      BY <1>2, <2>2 DEF UpTo
    <3>2. CASE q <= p
      <4>1. c[q] < e[q]
        <5>1. CASE q = p
          BY <3>1, <5>1
        <5>2. CASE q < p
          BY <3>1, <5>2
        <5> QED BY <3>2, <5>1, <5>2
      <4>2. \A i \in 1..(q - 1) : i \in 1..(p - 1)
        BY <3>2
      <4>3. \A i \in 1..(q - 1) : c[i] = e[i]
        BY <3>1, <4>2
      <4> QED BY <4>1, <4>3 DEF UpTo
    <3>3. CASE q > p
      <4>1. c[p] < e[p] /\ \A i \in 1..(p - 1) : c[i] = e[i]
        BY <3>1, <3>3
      <4> QED BY <4>1 DEF UpTo
    <3> QED BY <3>2, <3>3
  <2> QED BY <2>1, <2>2
<1>3. ASSUME c = e PROVE UpTo(n, c, e)
  BY <1>3 DEF UpTo
<1> QED BY <1>1, <1>2, <1>3

-----------------------------------------------------------------------------
(* The knowledge base, and the recorded names.                             *)

LEMMA SetItemGrows ==
    ASSUME NEW s \in Storage, NEW n \in Name, NEW v \in Value
    PROVE  /\ SetItem(s, n, v) \in Storage
           /\ \A m \in Name :
                 /\ Len(s[m]) <= Len(SetItem(s, n, v)[m])
                 /\ s[m] # <<>> => SetItem(s, n, v)[m][1] = s[m][1]
<1>1. s \in [Name -> Seq(Value)] /\ s[n] \in Seq(Value)
  BY DEF Storage
<1>2. Added(s[n], v) \in Seq(Value) /\ Len(s[n]) <= Len(Added(s[n], v))
  BY <1>1 DEF Added
<1>3. s[n] # <<>> => Added(s[n], v)[1] = s[n][1]
  BY <1>1 DEF Added
<1>4. SetItem(s, n, v) = [s EXCEPT ![n] = Added(s[n], v)]
  BY DEF SetItem
<1>5. SetItem(s, n, v) \in Storage
  BY <1>1, <1>2, <1>4 DEF Storage
<1>6. ASSUME NEW m \in Name
      PROVE  /\ Len(s[m]) <= Len(SetItem(s, n, v)[m])
             /\ s[m] # <<>> => SetItem(s, n, v)[m][1] = s[m][1]
  <2>1. CASE m = n
    BY <1>1, <1>2, <1>3, <1>4, <2>1
  <2>2. CASE m # n
    <3>1. SetItem(s, n, v)[m] = s[m]
      BY <1>1, <1>4, <2>2
    <3>2. Len(s[m]) \in Nat
      BY <1>1
    <3> QED BY <3>1, <3>2
  <2> QED BY <2>1, <2>2
<1> QED BY <1>5, <1>6

LEMMA GetItemType ==
    ASSUME NEW s \in Storage, NEW n \in Name, NEW pos \in Int
    PROVE  GetItem(s, n, pos) \in Value \cup {Null}
<1>1. s[n] \in Seq(Value) /\ Len(s[n]) \in Nat
  BY DEF Storage
<1>2. CASE s[n] = <<>>
  BY <1>2 DEF GetItem
<1>3. CASE s[n] # <<>>
  <2>1. \A k \in 1..Len(s[n]) : s[n][k] \in Value
    BY <1>1
  <2>2. Len(s[n]) > 0
    BY <1>1, <1>3
  <2>3. CASE pos < 0 \/ pos >= Len(s[n])
    <3>1. GetItem(s, n, pos) = s[n][Len(s[n])]
      BY <1>3, <2>3 DEF GetItem
    <3> QED BY <1>1, <2>1, <2>2, <3>1
  <2>4. CASE ~(pos < 0 \/ pos >= Len(s[n]))
    <3>1. GetItem(s, n, pos) = s[n][pos + 1] /\ pos + 1 \in 1..Len(s[n])
      BY <1>1, <1>3, <2>4 DEF GetItem
    <3> QED BY <2>1, <3>1
  <2> QED BY <2>3, <2>4
<1> QED BY <1>2, <1>3

CombinationsOf(v) == {c \in [DOMAIN v -> UNION {0..(v[i] - 1) : i \in DOMAIN v}] :
                         \A i \in DOMAIN v : c[i] < v[i]}

LEMMA CombinationsOfDigits ==
    ASSUME NEW v \in Seq(Nat \ {0, 1})
    PROVE  CombinationsOf(v) = Digits(Len(v), v)
<1>1. DOMAIN v = 1..Len(v) /\ \A i \in 1..Len(v) : v[i] \in Nat
  OBVIOUS
<1>2. ASSUME NEW c \in CombinationsOf(v) PROVE c \in Digits(Len(v), v)
  <2>1. /\ c \in [1..Len(v) -> UNION {0..(v[i] - 1) : i \in 1..Len(v)}]
        /\ \A i \in 1..Len(v) : c[i] < v[i]
    BY <1>1 DEF CombinationsOf
  <2>2. UNION {0..(v[i] - 1) : i \in 1..Len(v)} \subseteq Nat
    BY <1>1
  <2> QED BY <2>1, <2>2 DEF Digits
<1>3. ASSUME NEW c \in Digits(Len(v), v) PROVE c \in CombinationsOf(v)
  <2>1. c \in [1..Len(v) -> Nat] /\ \A i \in 1..Len(v) : c[i] < v[i]
    BY DEF Digits
  <2>2. \A i \in 1..Len(v) : c[i] \in 0..(v[i] - 1)
    BY <1>1, <2>1
  <2>3. c \in [1..Len(v) -> UNION {0..(v[i] - 1) : i \in 1..Len(v)}]
    BY <2>1, <2>2
  <2> QED BY <1>1, <2>1, <2>3 DEF CombinationsOf
<1> QED BY <1>2, <1>3

LEMMA CombinationsAreDigits ==
    ASSUME values \in Seq(Nat \ {0, 1})
    PROVE  Combinations = Digits(Len(values), values)
BY CombinationsOfDigits DEF Combinations, CombinationsOf

LEMMA Positions ==
    ASSUME TypeOK
    PROVE  /\ \A i \in DOMAIN names : GetItemPos(names[i]) = current[i]
           /\ \A n \in Name : GetItemPos(n) \in Int
<1>1. /\ Len(values) = Len(names) /\ names \in Seq(Name) /\ IsInjective(names)
      /\ DOMAIN names = 1..Len(names)
      /\ current \in [1..Len(names) -> Nat]
  BY CombinationsAreDigits DEF TypeOK, Digits
<1>2. ASSUME NEW i \in DOMAIN names PROVE GetItemPos(names[i]) = current[i]
  <2>1. \A j \in DOMAIN names : names[j] = names[i] => j = i
    BY <1>1 DEF IsInjective
  <2>2. (CHOOSE j \in DOMAIN names : names[j] = names[i]) = i
    BY <2>1
  <2>3. names[i] \in Range(names)
    BY DEF Range
  <2> QED BY <2>2, <2>3 DEF GetItemPos
<1>3. ASSUME NEW n \in Name PROVE GetItemPos(n) \in Int
  <2>1. CASE n \in Range(names)
    <3>1. PICK i \in DOMAIN names : n = names[i]
      BY <2>1 DEF Range
    <3> QED BY <1>1, <1>2, <3>1
  <2>2. CASE n \notin Range(names)
    BY <2>2 DEF GetItemPos
  <2> QED BY <2>1, <2>2
<1> QED BY <1>2, <1>3

\* What NextCombination is, when a digit can grow.
LEMMA Carry ==
    ASSUME TypeOK, HasNext
    PROVE  \E p \in 1..Len(names) : Carries(Len(names), values, current, p, NextCombination)
<1>1. /\ Len(names) \in Nat /\ Len(values) = Len(names)
      /\ current \in [1..Len(names) -> Nat] /\ DOMAIN current = 1..Len(names)
      /\ \A i \in 1..Len(names) : values[i] \in Nat
  BY CombinationsAreDigits DEF TypeOK, Digits
<1> DEFINE T == {i \in 1..Len(names) : CanGrow(i)}
           Last1(p) == CanGrow(p) /\ \A j \in DOMAIN current : j > p => ~CanGrow(j)
<1>2. T \in SUBSET (1..Len(names)) /\ T # {}
  BY <1>1 DEF HasNext
<1>3. PICK q \in T : \A k \in T : k <= q
  <2> HIDE DEF T
  <2> QED BY <1>1, <1>2, Greatest
<1>4. q \in DOMAIN current /\ Last1(q)
  BY <1>1, <1>3
<1>5. PICK p \in DOMAIN current :
         /\ Last1(p)
         /\ NextCombination = [i \in DOMAIN current |->
                IF i < p THEN current[i] ELSE IF i = p THEN current[i] + 1 ELSE 0]
  <2> DEFINE p0 == CHOOSE p \in DOMAIN current : Last1(p)
  <2>1. p0 \in DOMAIN current /\ Last1(p0)
    <3> HIDE DEF Last1
    <3> QED BY <1>4
  <2>2. NextCombination = [i \in DOMAIN current |->
            IF i < p0 THEN current[i] ELSE IF i = p0 THEN current[i] + 1 ELSE 0]
    BY DEF NextCombination
  <2> HIDE DEF p0
  <2> QED BY <2>1, <2>2
<1>6. NextCombination \in [1..Len(names) -> Nat]
  BY <1>1, <1>5
<1> QED BY <1>1, <1>5, <1>6 DEF CanGrow, Carries

LEMMA CarryInRange ==
    ASSUME TypeOK, HasNext
    PROVE  NextCombination \in Combinations
<1>1. PICK p \in 1..Len(names) :
              /\ current[p] + 1 < values[p]
              /\ NextCombination \in [1..Len(names) -> Nat]
              /\ \A i \in 1..Len(names) :
                    NextCombination[i] = IF i < p THEN current[i]
                                         ELSE IF i = p THEN current[i] + 1 ELSE 0
  BY Carry DEF Carries
<1>2. /\ Combinations = Digits(Len(names), values)
      /\ current \in Digits(Len(names), values)
  BY CombinationsAreDigits DEF TypeOK
<1>3. \A i \in 1..Len(names) : values[i] \in Nat /\ values[i] > 1
  <2>1. values \in Seq(Nat \ {0, 1}) /\ Len(values) = Len(names)
    BY DEF TypeOK
  <2>2. \A i \in 1..Len(values) : values[i] \in Nat \ {0, 1}
    BY <2>1
  <2> QED BY <2>1, <2>2
<1>4. ASSUME NEW i \in 1..Len(names) PROVE NextCombination[i] < values[i]
  <2>1. current[i] < values[i] /\ 0 < values[i]
    BY <1>2, <1>3 DEF Digits
  <2>2. CASE i < p
    BY <1>1, <2>1, <2>2
  <2>3. CASE i = p
    BY <1>1, <2>3
  <2>4. CASE i > p
    <3>1. NextCombination[i] = 0
      BY <1>1, <2>4
    <3> QED BY <2>1, <3>1
  <2>5. i < p \/ i = p \/ i > p
    OBVIOUS
  <2> QED BY <2>2, <2>3, <2>4, <2>5
<1> QED BY <1>1, <1>2, <1>4 DEF Digits

-----------------------------------------------------------------------------
(* Type correctness.                                                       *)

\* While nothing is forked, current is the sequence the vectors began as.
CurrentInv == ~isForkedTask => current \in Seq(Nat)

LEMMA TypeInit == ASSUME Init PROVE TypeOK /\ CurrentInv
<1>1. storage \in Storage /\ snapshot \in Storage
  BY ForkAssumption DEF Init, EmptyStorage, Storage
<1>2. names \in Seq(Name) /\ IsInjective(names) /\ Len(values) = Len(names)
      /\ values \in Seq(Nat \ {0, 1})
  BY DEF Init, IsInjective
<1>3. current \in Combinations
  BY DEF Init, Combinations
<1>4. CurrentInv
  BY DEF Init, CurrentInv
<1>5. /\ exit \in BOOLEAN /\ phase \in {"run", "between", "done"}
      /\ isForkedTask \in BOOLEAN /\ replaced \in BOOLEAN
      /\ ops \in 0..MaxOps
  <2>1. ops \in 0..MaxOps
    BY ForkAssumption DEF Init
  <2> QED BY <2>1 DEF Init
<1>6. visited \subseteq Combinations /\ always \in SUBSET Name
  BY DEF Init
<1>7. /\ seen \in [Name -> SUBSET (Value \cup {Null})]
      /\ got \in [Name -> SUBSET (Value \cup {Null})]
  BY DEF Init
<1> QED BY <1>1, <1>2, <1>3, <1>4, <1>5, <1>6, <1>7 DEF TypeOK

\* A name recorded with its number of values, position 0.
LEMMA RecordType ==
    ASSUME TypeOK, CurrentInv, ~isForkedTask, NEW n \in Name, GetItemSize(storage, n) > 1,
           visited = {}, Record(n), UNCHANGED <<visited, isForkedTask>>
    PROVE  /\ names' \in Seq(Name) /\ IsInjective(names')
           /\ values' \in Seq(Nat \ {0, 1}) /\ Len(values') = Len(names')
           /\ current' \in Combinations' /\ CurrentInv'
<1> USE DEF TypeOK
<1>1. CASE n \in Range(names)
  BY <1>1 DEF Record, fork, Combinations, CurrentInv
<1>2. CASE n \notin Range(names)
  <2>1. /\ names' = Append(names, n)
        /\ values' = Append(values, GetItemSize(storage, n))
        /\ current' = Append(current, 0)
    BY <1>2 DEF Record
  <2>2. GetItemSize(storage, n) \in Nat \ {0, 1}
    <3>1. storage[n] \in Seq(Value)
      BY DEF Storage
    <3>2. GetItemSize(storage, n) \in Nat
      BY <3>1 DEF GetItemSize
    <3> QED BY <3>2
  <2>3. current \in Seq(Nat) /\ current \in Digits(Len(values), values)
    BY CombinationsAreDigits DEF CurrentInv
  <2>4. names' \in Seq(Name) /\ values' \in Seq(Nat \ {0, 1}) /\ Len(values') = Len(names')
    BY <2>1, <2>2
  <2>5. IsInjective(names')
    BY <1>2, <2>1 DEF IsInjective, Range
  <2>6. current' \in Seq(Nat) /\ Len(current') = Len(values')
    BY <2>1, <2>2, <2>3 DEF Digits
  <2>7. \A i \in 1..Len(values') : current'[i] < values'[i]
    BY <2>1, <2>2, <2>3 DEF Digits
  <2>8. current' \in Digits(Len(values'), values')
    BY <2>6, <2>7 DEF Digits
  <2>9. Combinations' = Digits(Len(values'), values')
    <3>1. Combinations' = CombinationsOf(values')
      BY DEF Combinations, CombinationsOf
    <3> QED BY <2>4, <3>1, CombinationsOfDigits
  <2> QED BY <2>4, <2>5, <2>6, <2>8, <2>9 DEF CurrentInv
<1> QED BY <1>1, <1>2

\* The fork loop: before it nothing is visited; in it, the combinations executed
\* are those up to the current one; it ends when that is the last, or when the
\* host was stopped, with one combination prepared and not executed.
ForkInv ==
    /\ phase = "between" => isForkedTask
    /\ ~isForkedTask =>
          /\ visited = {}
          /\ \A i \in DOMAIN names : current[i] = 0
          /\ phase = "done" /\ ~exit => names = <<>>
    /\ isForkedTask /\ (phase = "done" => ~exit) =>
          /\ visited = {c \in Combinations : UpTo(Len(names), c, current)}
          /\ phase = "done" => ~HasNext

LEMMA TypeStep ==
    ASSUME TypeOK, CurrentInv, ForkInv, [Next]_vars
    PROVE  TypeOK' /\ CurrentInv'
<1> USE DEF TypeOK
<1>0. ASSUME UNCHANGED <<isForkedTask, names, values, current, visited>>
      PROVE  /\ names' \in Seq(Name) /\ IsInjective(names')
             /\ values' \in Seq(Nat \ {0, 1}) /\ Len(values') = Len(names')
             /\ current' \in Combinations' /\ visited' \subseteq Combinations' /\ CurrentInv'
  <2>1. Combinations' = Combinations
    BY <1>0 DEF Combinations
  <2>2. CurrentInv'
    BY <1>0 DEF CurrentInv
  <2>3. IsInjective(names')
    BY <1>0
  <2>4. names' \in Seq(Name) /\ values' \in Seq(Nat \ {0, 1}) /\ Len(values') = Len(names')
    BY <1>0
  <2>5. current' \in Combinations' /\ visited' \subseteq Combinations'
    BY <1>0, <2>1
  <2> QED BY <2>2, <2>3, <2>4, <2>5
<1>1. ASSUME NEW n \in Name, GetKbItem(n) PROVE TypeOK' /\ CurrentInv'
  <2>1. /\ exit' = exit /\ phase' = phase /\ storage' = storage /\ snapshot' = snapshot
        /\ isForkedTask' = isForkedTask /\ replaced' = replaced
        /\ visited' = visited /\ always' = always /\ ops' \in 0..MaxOps
    BY <1>1, ForkAssumption DEF GetKbItem
  <2>2. PICK v \in Value \cup {Null} : Saw(n, v)
    <3>1. CASE isForkedTask
      <4>1. GetForked(n) \in Value \cup {Null}
        BY GetItemType, Positions DEF GetForked
      <4> QED BY <1>1, <3>1, <4>1 DEF GetKbItem
    <3>2. CASE ~isForkedTask
      <4>1. GetItem(storage, n, 0) \in Value \cup {Null}
        BY GetItemType
      <4>2. GetItem(storage, n, -1) \in Value \cup {Null}
        BY GetItemType
      <4> QED BY <1>1, <3>2, <4>1, <4>2 DEF GetKbItem
    <3> QED BY <3>1, <3>2
  <2>3. /\ seen' \in [Name -> SUBSET (Value \cup {Null})]
        /\ got' \in [Name -> SUBSET (Value \cup {Null})]
    BY <2>2 DEF Saw
  <2>4. CASE UNCHANGED fork
    BY <1>0, <2>1, <2>3, <2>4 DEF fork
  <2>5. CASE ~isForkedTask /\ GetItemSize(storage, n) > 1 /\ Record(n)
    <3>1. visited = {} /\ visited' = {}
      BY <2>1, <2>5 DEF ForkInv
    <3>2. /\ names' \in Seq(Name) /\ IsInjective(names')
          /\ values' \in Seq(Nat \ {0, 1}) /\ Len(values') = Len(names')
          /\ current' \in Combinations' /\ CurrentInv'
      BY <2>1, <2>5, <3>1, RecordType
    <3> QED BY <2>1, <2>3, <3>1, <3>2
  <2> QED BY <1>1, <2>4, <2>5 DEF GetKbItem
<1>2. ASSUME NEW n \in Name, NEW v \in Value, SetKbItem(n, v) PROVE TypeOK' /\ CurrentInv'
  <2>1. /\ exit' = exit /\ phase' = phase /\ snapshot' = snapshot
        /\ replaced' = replaced /\ always' = always /\ ops' \in 0..MaxOps
        /\ UNCHANGED <<isForkedTask, names, values, current, visited, seen, got>>
    BY <1>2, ForkAssumption DEF SetKbItem, fork
  <2>2. storage' \in Storage
    BY <1>2, SetItemGrows DEF SetKbItem
  <2> QED BY <1>0, <2>1, <2>2
<1>3. ASSUME NEW n \in Name, NEW v \in Value, ReplaceKbItem(n, v)
      PROVE  TypeOK' /\ CurrentInv'
  <2>1. /\ exit' = exit /\ phase' = phase /\ snapshot' = snapshot
        /\ replaced' \in BOOLEAN /\ always' = always /\ ops' \in 0..MaxOps
        /\ UNCHANGED <<isForkedTask, names, values, current, visited, seen, got>>
    BY <1>3, ForkAssumption DEF ReplaceKbItem, fork
  <2>2. storage' \in Storage
    BY <1>3 DEF ReplaceKbItem, ReplaceItem, Storage
  <2> QED BY <1>0, <2>1, <2>2
<1>4. CASE FirstRunEnd
  <2>1. /\ exit' = exit /\ phase' \in {"run", "between", "done"}
        /\ storage' \in Storage /\ snapshot' \in Storage
        /\ isForkedTask' \in BOOLEAN /\ replaced' = replaced /\ got' = got
    BY <1>4 DEF FirstRunEnd
  <2>2. /\ seen' \in [Name -> SUBSET (Value \cup {Null})]
        /\ always' \in SUBSET Name /\ ops' \in 0..MaxOps
    BY <1>4, ForkAssumption DEF FirstRunEnd, Ended
  <2>3. /\ names' \in Seq(Name) /\ IsInjective(names')
        /\ values' \in Seq(Nat \ {0, 1}) /\ Len(values') = Len(names')
        /\ current' \in Combinations' /\ Combinations' = Combinations
    BY <1>4 DEF FirstRunEnd, fork, Combinations
  <2>4. visited' \subseteq Combinations' /\ CurrentInv'
    BY <1>4, <2>3 DEF FirstRunEnd, fork, CurrentInv
  <2> QED BY <2>1, <2>2, <2>3, <2>4
<1>5. CASE NextRun
  <2>1. /\ exit' = exit /\ phase' \in {"run", "between", "done"}
        /\ UNCHANGED <<storage, snapshot, isForkedTask, names, values, ops, seen, got, always,
                       replaced>>
    BY <1>5 DEF NextRun
  <2>2. current' \in Combinations /\ Combinations' = Combinations
    <3>1. current' \in Combinations
      BY <1>5, CarryInRange DEF NextRun
    <3>2. Combinations' = Combinations
      BY <2>1 DEF Combinations
    <3> QED BY <3>1, <3>2
  <2>3. visited' \subseteq Combinations'
    BY <1>5, <2>2 DEF NextRun
  <2>4. CurrentInv'
    BY <1>5, <2>1 DEF NextRun, ForkInv, CurrentInv
  <2> QED BY <2>1, <2>2, <2>3, <2>4
<1>6. CASE ForkedRunEnd
  <2>1. /\ exit' = exit /\ phase' \in {"run", "between", "done"}
        /\ UNCHANGED <<storage, snapshot, isForkedTask, names, values, current, visited, got,
                       replaced>>
    BY <1>6 DEF ForkedRunEnd, fork
  <2>2. /\ seen' \in [Name -> SUBSET (Value \cup {Null})]
        /\ always' \in SUBSET Name /\ ops' \in 0..MaxOps
    BY <1>6, ForkAssumption DEF ForkedRunEnd, Ended
  <2> QED BY <1>0, <2>1, <2>2
<1>7. CASE Exhausted
  <2>1. /\ exit' = exit /\ phase' \in {"run", "between", "done"}
        /\ UNCHANGED <<storage, snapshot, isForkedTask, names, values, current, ops, visited,
                       seen, got, always, replaced>>
    BY <1>7 DEF Exhausted, fork
  <2> QED BY <1>0, <2>1
<1>8. CASE StopBetween
  <2>1. /\ exit' = exit /\ phase' = "done"
        /\ UNCHANGED <<storage, snapshot, isForkedTask, names, values, ops, visited, seen, got,
                       always, replaced>>
    BY <1>8 DEF StopBetween
  <2>2. current' \in Combinations
    BY <1>8, CarryInRange DEF StopBetween
  <2>3. Combinations' = Combinations
    BY <2>1 DEF Combinations
  <2>4. CurrentInv'
    BY <1>8, <2>1 DEF StopBetween, ForkInv, CurrentInv
  <2> QED BY <2>1, <2>2, <2>3, <2>4
<1>9. CASE SetExit
  <2>1. /\ exit' = TRUE
        /\ UNCHANGED <<phase, storage, snapshot, isForkedTask, names, values, current, ops,
                       visited, seen, got, always, replaced>>
    BY <1>9 DEF SetExit, fork
  <2> QED BY <1>0, <2>1
<1>10. CASE UNCHANGED vars
  <2>1. UNCHANGED <<exit, phase, storage, snapshot, isForkedTask, names, values, current, ops,
                    visited, seen, got, always, replaced>>
    BY <1>10 DEF vars, fork
  <2> QED BY <1>0, <2>1
<1> QED
  BY <1>1, <1>2, <1>3, <1>4, <1>5, <1>6, <1>7, <1>8, <1>9, <1>10 DEF Next, ForkLoop

-----------------------------------------------------------------------------
(* The fork loop.                                                          *)

LEMMA ForkInit == ASSUME Init PROVE ForkInv
BY DEF Init, ForkInv

\* What a step does that leaves the loop and its vectors alone; Exit is never cleared.
LEMMA ForkSame ==
    ASSUME ForkInv,
           UNCHANGED <<phase, isForkedTask, names, values, current, visited>>,
           exit => exit'
    PROVE  ForkInv'
<1>1. Combinations' = Combinations /\ HasNext' = HasNext
  BY DEF Combinations, HasNext, CanGrow
<1> QED BY <1>1 DEF ForkInv

LEMMA ForkStep ==
    ASSUME TypeOK, CurrentInv, ForkInv, [Next]_vars
    PROVE  ForkInv'
<1>1. ASSUME NEW n \in Name, GetKbItem(n) PROVE ForkInv'
  <2>1. UNCHANGED <<exit, phase, isForkedTask, visited>>
    BY <1>1 DEF GetKbItem
  <2>2. CASE UNCHANGED fork
    BY <2>1, <2>2, ForkSame DEF fork
  <2>3. CASE ~isForkedTask /\ Record(n) /\ ~UNCHANGED fork
    <3>1. current' = Append(current, 0) /\ Len(names') = Len(names) + 1
          /\ Len(current) = Len(names) /\ current \in Seq(Nat)
          /\ DOMAIN names' = 1..Len(names')
      <4>1. names' = Append(names, n) /\ current' = Append(current, 0)
        BY <2>3 DEF Record
      <4>2. current \in Digits(Len(values), values) /\ Len(values) = Len(names)
            /\ names \in Seq(Name)
        BY CombinationsAreDigits DEF TypeOK
      <4>3. current \in Seq(Nat)
        BY <2>3 DEF CurrentInv
      <4> QED BY <4>1, <4>2, <4>3 DEF Digits
    <3>2. \A i \in DOMAIN names : current[i] = 0
      BY <2>3 DEF ForkInv
    <3>3. DOMAIN names = 1..Len(names)
      BY DEF TypeOK
    <3>4. \A i \in DOMAIN names' : current'[i] = 0
      BY <3>1, <3>2, <3>3
    <3>5. phase' = "run"
      BY <1>1, <2>1 DEF GetKbItem
    <3> QED BY <2>1, <2>3, <3>4, <3>5 DEF ForkInv
  <2> QED BY <1>1, <2>2, <2>3 DEF GetKbItem
<1>2. ASSUME NEW n \in Name, NEW v \in Value, SetKbItem(n, v) PROVE ForkInv'
  BY <1>2, ForkSame DEF SetKbItem, fork
<1>3. ASSUME NEW n \in Name, NEW v \in Value, ReplaceKbItem(n, v) PROVE ForkInv'
  BY <1>3, ForkSame DEF ReplaceKbItem, fork
<1>4. CASE FirstRunEnd
  <2>1. UNCHANGED <<names, values, current>> /\ Combinations' = Combinations
    BY <1>4 DEF FirstRunEnd, fork, Combinations
  <2>2. CASE exit \/ names = <<>>
    BY <1>4, <2>1, <2>2 DEF FirstRunEnd, ForkInv
  <2>3. CASE ~exit /\ names # <<>>
    <3>1. phase' = "between" /\ isForkedTask' /\ visited' = {current} /\ ~isForkedTask
      BY <1>4, <2>3 DEF FirstRunEnd
    <3>2. /\ Combinations = Digits(Len(names), values) /\ Len(names) \in Nat
          /\ current \in Combinations /\ DOMAIN names = 1..Len(names)
      BY CombinationsAreDigits DEF TypeOK
    <3>3. \A i \in 1..Len(names) : current[i] = 0
      BY <3>1, <3>2 DEF ForkInv
    <3>4. ASSUME NEW c \in Combinations, UpTo(Len(names), c, current) PROVE c = current
      BY <3>2, <3>3, <3>4, FirstCombination DEF Digits
    <3>5. UpTo(Len(names), current, current)
      BY DEF UpTo
    <3>6. visited' = {c \in Combinations : UpTo(Len(names), c, current)}
      BY <3>1, <3>2, <3>4, <3>5
    <3> QED BY <2>1, <3>1, <3>6 DEF ForkInv
  <2> QED BY <2>2, <2>3
<1>5. CASE NextRun
  <2>1. /\ phase = "between" /\ phase' = "run" /\ HasNext
        /\ isForkedTask /\ UNCHANGED <<isForkedTask, names, values>>
        /\ current' = NextCombination /\ visited' = visited \cup {current'}
    BY <1>5 DEF NextRun, ForkInv
  <2>2. Combinations' = Combinations
    BY <2>1 DEF Combinations
  <2>3. /\ Combinations = Digits(Len(names), values) /\ Len(names) \in Nat
        /\ current \in Combinations /\ values \in [1..Len(names) -> Nat]
    BY CombinationsAreDigits DEF TypeOK
  <2>4. PICK p \in 1..Len(names) : Carries(Len(names), values, current, p, NextCombination)
    BY <2>1, Carry
  <2>5. ASSUME NEW c \in Combinations
        PROVE  UpTo(Len(names), c, current') <=> (UpTo(Len(names), c, current) \/ c = current')
    <3>1. c \in Digits(Len(names), values) /\ current \in Digits(Len(names), values)
      BY <2>3
    <3> QED BY <2>1, <2>3, <2>4, <3>1, NextIsSuccessor
  <2>6. current' \in Combinations
    BY <2>1, CarryInRange
  <2>7. visited = {c \in Combinations : UpTo(Len(names), c, current)}
    BY <2>1 DEF ForkInv
  <2>8. visited' = {c \in Combinations : UpTo(Len(names), c, current')}
    BY <2>1, <2>5, <2>6, <2>7
  <2> QED BY <2>1, <2>2, <2>8 DEF ForkInv
<1>6. CASE ForkedRunEnd
  <2>1. phase = "run" /\ phase' = "between" /\ isForkedTask
        /\ UNCHANGED <<isForkedTask, names, values, current, visited>>
    BY <1>6 DEF ForkedRunEnd, fork
  <2>2. Combinations' = Combinations
    BY <2>1 DEF Combinations
  <2> QED BY <2>1, <2>2 DEF ForkInv
<1>7. CASE Exhausted
  <2>1. phase = "between" /\ phase' = "done" /\ isForkedTask /\ ~HasNext
        /\ UNCHANGED <<isForkedTask, names, values, current, visited>>
    BY <1>7 DEF Exhausted, fork, ForkInv
  <2>2. Combinations' = Combinations /\ HasNext' = HasNext
    BY <2>1 DEF Combinations, HasNext, CanGrow
  <2> QED BY <2>1, <2>2 DEF ForkInv
<1>8. CASE StopBetween
  BY <1>8 DEF StopBetween, ForkInv
<1>9. CASE SetExit
  BY <1>9, ForkSame DEF SetExit, fork
<1>10. CASE UNCHANGED vars
  BY <1>10, ForkSame DEF vars, fork
<1> QED
  BY <1>1, <1>2, <1>3, <1>4, <1>5, <1>6, <1>7, <1>8, <1>9, <1>10 DEF Next, ForkLoop

-----------------------------------------------------------------------------
(* What the executions read.                                               *)

\* Nothing is read between executions, and a forked one reads the snapshot at the
\* current position.
ReadInv ==
    /\ phase # "run" => \A n \in Name : seen[n] = {}
    /\ isForkedTask => \A n \in Name : seen[n] \subseteq {GetForked(n)}

LEMMA ReadInit == ASSUME Init PROVE ReadInv
BY DEF Init, ReadInv

LEMMA ReadStep ==
    ASSUME TypeOK, ForkInv, ReadInv, [Next]_vars
    PROVE  ReadInv'
<1>1. ASSUME UNCHANGED <<snapshot, names, current>>
      PROVE  \A n \in Name : GetForked(n)' = GetForked(n)
  BY <1>1 DEF GetForked, GetItemPos
<1>2. ASSUME NEW n \in Name, GetKbItem(n) PROVE ReadInv'
  <2>1. UNCHANGED <<phase, isForkedTask, snapshot>> /\ phase = "run"
    BY <1>2 DEF GetKbItem
  <2>2. CASE isForkedTask
    <3>1. /\ seen' = [seen EXCEPT ![n] = @ \cup {GetForked(n)}]
          /\ UNCHANGED <<names, current>>
      BY <1>2, <2>2 DEF GetKbItem, Saw, fork
    <3>2. \A m \in Name : seen'[m] \subseteq {GetForked(m)}
      BY <2>2, <3>1 DEF ReadInv, TypeOK
    <3> QED BY <1>1, <2>1, <3>1, <3>2 DEF ReadInv
  <2>3. CASE ~isForkedTask
    BY <2>1, <2>3 DEF ReadInv
  <2> QED BY <2>2, <2>3
<1>3. ASSUME UNCHANGED <<phase, isForkedTask, snapshot, names, current, seen>> PROVE ReadInv'
  BY <1>1, <1>3 DEF ReadInv
<1>4. ASSUME \A n \in Name : seen'[n] = {} PROVE ReadInv'
  BY <1>4 DEF ReadInv
<1>5. ASSUME NEW n \in Name, NEW v \in Value, SetKbItem(n, v) \/ ReplaceKbItem(n, v)
      PROVE  ReadInv'
  BY <1>3, <1>5 DEF SetKbItem, ReplaceKbItem, fork
<1>6. CASE FirstRunEnd \/ ForkedRunEnd
  BY <1>4, <1>6 DEF FirstRunEnd, ForkedRunEnd, Ended
<1>7. CASE NextRun \/ StopBetween \/ Exhausted
  BY <1>4, <1>7 DEF NextRun, StopBetween, Exhausted, ReadInv
<1>8. CASE SetExit \/ UNCHANGED vars
  BY <1>3, <1>8 DEF SetExit, vars, fork
<1> QED BY <1>2, <1>5, <1>6, <1>7, <1>8 DEF Next, ForkLoop

-----------------------------------------------------------------------------
(* What the executions have been given.                                    *)

\* Unless an item is replaced: a recorded name keeps at least as many values as
\* were counted, and its first was read when it was recorded; a name that every
\* execution reads was given its value at every combination executed, but for
\* the one under execution.
Given(i) ==
    /\ ~isForkedTask =>
          /\ values[i] <= Len(storage[names[i]])
          /\ storage[names[i]][1] \in got[names[i]]
    /\ isForkedTask =>
          /\ values[i] <= Len(snapshot[names[i]])
          /\ names[i] \in always =>
                \A c \in visited : \/ phase = "run" /\ c = current
                                   \/ snapshot[names[i]][c[i] + 1] \in got[names[i]]

DeliverInv ==
    ~replaced =>
        /\ \A n \in Name : seen[n] \subseteq got[n]
        /\ \A i \in DOMAIN names : Given(i)

LEMMA DeliverInit == ASSUME Init PROVE DeliverInv
BY DEF Init, DeliverInv

LEMMA SawMore ==
    ASSUME TypeOK, NEW n \in Name, NEW v, Saw(n, v), \A m \in Name : seen[m] \subseteq got[m]
    PROVE  /\ \A m \in Name : seen'[m] \subseteq got'[m] /\ got[m] \subseteq got'[m]
           /\ v \in got'[n]
BY DEF TypeOK, Saw

LEMMA DeliverStep ==
    ASSUME TypeOK, ForkInv, ReadInv, DeliverInv, [Next]_vars
    PROVE  DeliverInv'
<1> SUFFICES ASSUME ~replaced' PROVE DeliverInv'
  BY DEF DeliverInv
<1>a. /\ names \in Seq(Name) /\ DOMAIN names = 1..Len(names)
      /\ \A i \in DOMAIN names : names[i] \in Name
      /\ values \in Seq(Nat \ {0, 1}) /\ Len(values) = Len(names)
      /\ \A i \in DOMAIN names : values[i] \in Nat \ {0, 1}
      /\ \A i \in DOMAIN names : current[i] \in Nat /\ current[i] < values[i]
      /\ \A n \in Name : storage[n] \in Seq(Value) /\ snapshot[n] \in Seq(Value)
  BY CombinationsAreDigits DEF TypeOK, Digits, Storage
<1>b. ~replaced
  BY DEF Next, ForkLoop, GetKbItem, SetKbItem, ReplaceKbItem, FirstRunEnd, ForkedRunEnd,
         NextRun, StopBetween, Exhausted, SetExit, vars
<1>c. /\ \A n \in Name : seen[n] \subseteq got[n]
      /\ \A i \in DOMAIN names : Given(i)
  BY <1>b DEF DeliverInv
<1>1. ASSUME NEW n \in Name, GetKbItem(n) PROVE DeliverInv'
  <2>1. UNCHANGED <<phase, isForkedTask, storage, snapshot, visited, always>>
    BY <1>1 DEF GetKbItem
  <2>2. PICK v : Saw(n, v)
    BY <1>1 DEF GetKbItem
  <2>3. \A m \in Name : seen'[m] \subseteq got'[m] /\ got[m] \subseteq got'[m]
    BY <1>c, <2>2, SawMore
  <2>4. CASE UNCHANGED fork
    <3>1. \A i \in DOMAIN names : Given(i)'
      BY <1>a, <1>c, <2>1, <2>3, <2>4 DEF Given, fork
    <3> QED BY <2>3, <2>4, <3>1 DEF DeliverInv, fork
  <2>5. CASE ~isForkedTask /\ GetItemSize(storage, n) > 1 /\ Saw(n, GetItem(storage, n, 0))
             /\ Record(n) /\ ~UNCHANGED fork
    <3>1. names' = Append(names, n) /\ values' = Append(values, Len(storage[n]))
      BY <2>5 DEF Record, GetItemSize
    <3>2. GetItem(storage, n, 0) = storage[n][1]
      BY <1>a, <2>5 DEF GetItem, GetItemSize
    <3>3. storage[n][1] \in got'[n]
      BY <1>c, <2>5, <3>2, SawMore
    <3>4. ASSUME NEW i \in DOMAIN names' PROVE Given(i)'
      <4>1. CASE i \in DOMAIN names
        <5>1. names'[i] = names[i] /\ values'[i] = values[i]
          BY <1>a, <3>1, <4>1
        <5> QED BY <1>a, <1>c, <2>1, <2>3, <2>5, <4>1, <5>1 DEF Given
      <4>2. CASE i \notin DOMAIN names
        <5>1. i = Len(names) + 1
          BY <1>a, <3>1, <4>2
        <5>2. names'[i] = n /\ values'[i] = Len(storage[n])
          BY <1>a, <3>1, <5>1
        <5>3. Len(storage[n]) <= Len(storage[n])
          BY <1>a
        <5> QED BY <2>1, <2>5, <3>3, <5>2, <5>3 DEF Given
      <4> QED BY <4>1, <4>2
    <3> QED BY <2>3, <3>4 DEF DeliverInv
  <2> QED BY <1>1, <2>4, <2>5 DEF GetKbItem
<1>2. ASSUME NEW n \in Name, NEW v \in Value, SetKbItem(n, v) PROVE DeliverInv'
  <2>1. /\ UNCHANGED <<phase, isForkedTask, snapshot, names, values, current, visited, seen,
                       got, always>>
        /\ storage' = SetItem(storage, n, v)
    BY <1>2 DEF SetKbItem, fork
  <2>2. \A m \in Name : /\ Len(storage[m]) <= Len(storage'[m])
                        /\ Len(storage[m]) \in Nat /\ Len(storage'[m]) \in Nat
                        /\ storage[m] # <<>> => storage'[m][1] = storage[m][1]
    <3>1. storage \in Storage
      BY DEF TypeOK
    <3>2. storage' \in Storage
      BY <2>1, <3>1, SetItemGrows
    <3>3. \A m \in Name : Len(storage[m]) \in Nat /\ Len(storage'[m]) \in Nat
      BY <3>1, <3>2 DEF Storage
    <3> QED BY <2>1, <3>1, <3>3, SetItemGrows
  <2>3. ASSUME NEW i \in DOMAIN names PROVE Given(i)'
    <3>1. CASE ~isForkedTask
      <4>1. values[i] <= Len(storage[names[i]]) /\ storage[names[i]][1] \in got[names[i]]
        BY <1>c, <3>1 DEF Given
      <4>2. storage[names[i]] # <<>>
        BY <1>a, <4>1
      <4>3. values[i] <= Len(storage'[names[i]])
        BY <1>a, <2>2, <4>1
      <4> QED BY <1>a, <2>1, <2>2, <3>1, <4>1, <4>2, <4>3 DEF Given
    <3>2. CASE isForkedTask
      BY <1>c, <2>1, <3>2 DEF Given
    <3> QED BY <3>1, <3>2
  <2> QED BY <1>c, <2>1, <2>3 DEF DeliverInv
<1>3. ASSUME NEW n \in Name, NEW v \in Value, ReplaceKbItem(n, v) PROVE DeliverInv'
  BY <1>3 DEF ReplaceKbItem
<1>4. CASE FirstRunEnd
  <2>1. UNCHANGED <<names, values, current, storage, got>> /\ ~isForkedTask
        /\ \A n \in Name : seen'[n] = {}
    BY <1>4 DEF FirstRunEnd, fork, Ended
  <2>2. CASE exit \/ names = <<>>
    <3>1. UNCHANGED isForkedTask
      BY <1>4, <2>2 DEF FirstRunEnd
    <3>2. \A i \in DOMAIN names : Given(i)'
      BY <1>c, <2>1, <3>1 DEF Given
    <3> QED BY <2>1, <3>2 DEF DeliverInv
  <2>3. CASE ~exit /\ names # <<>>
    <3>1. isForkedTask' /\ snapshot' = storage /\ visited' = {current}
      BY <1>4, <2>3 DEF FirstRunEnd
    <3>2. ASSUME NEW i \in DOMAIN names PROVE Given(i)'
      <4>1. current[i] + 1 = 1
        BY <2>1 DEF ForkInv
      <4> QED BY <1>c, <2>1, <3>1, <4>1 DEF Given
    <3> QED BY <2>1, <3>2 DEF DeliverInv
  <2> QED BY <2>2, <2>3
<1>5. CASE NextRun
  <2>1. /\ phase = "between" /\ visited' = visited \cup {current'} /\ phase' = "run"
        /\ UNCHANGED <<isForkedTask, storage, snapshot, names, values, seen, got, always>>
    BY <1>5 DEF NextRun
  <2>2. \A i \in DOMAIN names : Given(i)'
    BY <1>c, <2>1 DEF Given
  <2> QED BY <1>c, <2>1, <2>2 DEF DeliverInv
<1>6. CASE ForkedRunEnd
  <2>1. /\ isForkedTask /\ phase' = "between"
        /\ UNCHANGED <<isForkedTask, storage, snapshot, names, values, current, visited, got>>
        /\ \A n \in Name : seen'[n] = {}
        /\ always' = {n \in always : seen[n] # {}}
    BY <1>6 DEF ForkedRunEnd, fork, Ended
  <2>2. ASSUME NEW i \in DOMAIN names PROVE Given(i)'
    <3>1. values[i] <= Len(snapshot[names[i]])
      BY <1>c, <2>1 DEF Given
    <3>2. ASSUME names[i] \in always', NEW c \in visited
          PROVE  snapshot[names[i]][c[i] + 1] \in got[names[i]]
      <4>1. CASE c # current
        BY <1>c, <2>1, <3>2, <4>1 DEF Given
      <4>2. CASE c = current
        <5>1. GetForked(names[i]) \in got[names[i]]
          BY <1>a, <1>c, <2>1, <3>2 DEF ReadInv
        <5>2. GetItemPos(names[i]) = current[i]
          BY Positions
        <5>3. snapshot[names[i]] # <<>> /\ ~(current[i] < 0 \/ current[i] >= Len(snapshot[names[i]]))
          BY <1>a, <3>1
        <5>4. GetForked(names[i]) = snapshot[names[i]][current[i] + 1]
          BY <5>2, <5>3 DEF GetForked, GetItem
        <5> QED BY <4>2, <5>1, <5>4
      <4> QED BY <4>1, <4>2
    <3> QED BY <2>1, <3>1, <3>2 DEF Given
  <2> QED BY <2>1, <2>2 DEF DeliverInv
<1>7. CASE Exhausted \/ StopBetween
  <2>1. /\ phase = "between" /\ phase' = "done"
        /\ UNCHANGED <<isForkedTask, storage, snapshot, names, values, visited, seen, got,
                       always>>
    BY <1>7 DEF Exhausted, StopBetween, fork
  <2>2. \A i \in DOMAIN names : Given(i)'
    BY <1>c, <2>1 DEF Given
  <2> QED BY <1>c, <2>1, <2>2 DEF DeliverInv
<1>8. CASE SetExit \/ UNCHANGED vars
  BY <1>c, <1>8 DEF SetExit, vars, fork, DeliverInv, Given
<1> QED BY <1>1, <1>2, <1>3, <1>4, <1>5, <1>6, <1>7, <1>8 DEF Next, ForkLoop

-----------------------------------------------------------------------------
(* The theorems.                                                           *)

IndInv == TypeOK /\ CurrentInv /\ ForkInv /\ ReadInv /\ DeliverInv

LEMMA Induction == Spec => []IndInv
<1>1. Init => IndInv
  BY TypeInit, ForkInit, ReadInit, DeliverInit DEF IndInv
<1>2. IndInv /\ [Next]_vars => IndInv'
  <2> SUFFICES ASSUME IndInv, [Next]_vars PROVE IndInv'
    OBVIOUS
  <2> USE DEF IndInv
  <2>1. TypeOK' /\ CurrentInv'
    BY TypeStep
  <2>2. ForkInv'
    BY ForkStep
  <2>3. ReadInv'
    BY ReadStep
  <2>4. DeliverInv'
    BY DeliverStep
  <2> QED BY <2>1, <2>2, <2>3, <2>4
<1> QED BY <1>1, <1>2, PTL DEF Spec

\* The vectors of ForkedValue stay parallel, hold each name once, and only
\* combinations in range are ever executed.
THEOREM TypeCorrect == Spec => []TypeOK
<1>1. IndInv => TypeOK
  BY DEF IndInv
<1> QED BY <1>1, Induction, PTL

\* Whatever a forked execution writes, it reads one value per name.
THEOREM ReadsStable == Spec => []ForkedReadsStable
<1>1. IndInv => ForkedReadsStable
  <2> SUFFICES ASSUME IndInv, isForkedTask, NEW n \in Name PROVE Cardinality(seen[n]) <= 1
    BY DEF ForkedReadsStable
  <2>1. seen[n] = {} \/ seen[n] = {GetForked(n)}
    BY DEF IndInv, ReadInv
  <2>2. Cardinality(seen[n]) = 0 \/ Cardinality(seen[n]) = 1
    BY <2>1, FS_EmptySet, FS_Singleton
  <2> QED BY <2>2
<1> QED BY <1>1, Induction, PTL

\* On a host that was not stopped the odometer runs through every combination, whatever
\* the number of names and values, and a name that every execution reads is given every
\* one of its values.
THEOREM EveryCombination == Spec => []AllCombinationsRun
<1>1. ASSUME IndInv, phase = "done", ~exit, isForkedTask PROVE visited = Combinations
  <2>1. /\ Combinations = Digits(Len(names), values) /\ Len(names) \in Nat
        /\ current \in Digits(Len(names), values) /\ values \in [1..Len(names) -> Nat]
    BY <1>1, CombinationsAreDigits DEF IndInv, TypeOK
  <2>2. \A i \in 1..Len(names) : ~(current[i] + 1 < values[i])
    BY <1>1, <2>1 DEF IndInv, ForkInv, HasNext, CanGrow, Digits
  <2>3. \A c \in Combinations : UpTo(Len(names), c, current)
    BY <2>1, <2>2, LastCombination
  <2> QED BY <1>1, <2>3 DEF IndInv, ForkInv
<1>2. ASSUME IndInv, phase = "done", ~exit, ~replaced, NEW i \in DOMAIN names,
             names[i] \in always, NEW k \in 1..values[i]
      PROVE  snapshot[names[i]][k] \in got[names[i]]
  <2> DEFINE c == [j \in 1..Len(names) |-> IF j = i THEN k - 1 ELSE 0]
  <2>1. isForkedTask
    BY <1>2 DEF IndInv, ForkInv
  <2>2. /\ Combinations = Digits(Len(names), values) /\ DOMAIN names = 1..Len(names)
        /\ \A j \in 1..Len(names) : values[j] \in Nat /\ values[j] > 1
    <3>1. /\ values \in Seq(Nat \ {0, 1}) /\ Len(values) = Len(names) /\ names \in Seq(Name)
      BY <1>2 DEF IndInv, TypeOK
    <3>2. \A j \in 1..Len(values) : values[j] \in Nat \ {0, 1}
      BY <3>1
    <3> QED BY <3>1, <3>2, CombinationsAreDigits
  <2>3. c \in Digits(Len(names), values)
    BY <1>2, <2>2 DEF Digits
  <2>4. c \in visited /\ c[i] + 1 = k
    BY <1>1, <1>2, <2>1, <2>2, <2>3
  <2>5. Given(i)
    BY <1>2 DEF IndInv, DeliverInv
  <2> HIDE DEF c
  <2> QED BY <1>2, <2>1, <2>4, <2>5 DEF Given
<1>3. IndInv => AllCombinationsRun
  BY <1>1, <1>2 DEF AllCombinationsRun, EveryValueDelivered
<1> QED BY <1>3, Induction, PTL

=============================================================================
