-------------------------- MODULE VectorStoreProofs --------------------------
(***************************************************************************)
(* Proofs about VectorStore, for batches and lists of any length: the list *)
(* implements the promised map, list and table agree, an answer of the     *)
(* table is clean, and a hybrid answer respects both of its searches.      *)
(***************************************************************************)
EXTENDS VectorStore, FiniteSetTheorems, SequenceTheorems, TLAPS

-----------------------------------------------------------------------------
\* Every set of natural numbers that is not empty has a least element: what
\* stands in for induction below.
LEMMA LeastNumber ==
  ASSUME NEW S, S \subseteq Nat, S # {}
  PROVE  \E m \in S : \A k \in S : m <= k
<1> DEFINE R == OpToRel(<, Nat)
<1>1. IsWellFoundedOn(R, Nat)
  BY NatLessThanWellFounded
<1>2. \E m \in S : \A k \in S : <<k, m>> \notin R
  <2> HIDE DEF R
  <2> QED
    BY <1>1, WFMin
<1>3. PICK m \in S : \A k \in S : <<k, m>> \notin R
  BY <1>2
<1>4. ASSUME NEW k \in S
      PROVE  m <= k
  <2>1. <<k, m>> \in Nat \X Nat
    OBVIOUS
  <2>2. ~(k < m)
    BY <2>1, <1>3 DEF OpToRel
  <2> QED
    BY <2>2
<1> QED
  BY <1>4

-----------------------------------------------------------------------------
(* Arranging *)

\* R puts the elements of T in a line.
Orders(R, T) ==
  /\ \A x \in T : <<x, x>> \notin R
  /\ \A x, y \in T : x # y => <<x, y>> \in R \/ <<y, x>> \in R
  /\ \A x, y, z \in T : <<x, y>> \in R /\ <<y, z>> \in R => <<x, z>> \in R

Follow(t, n, R) == \A i, j \in 1..n : i < j => <<t[i], t[j]>> \in R

\* What is in line has each element once.
LEMMA EachOnce ==
  ASSUME NEW T, IsFiniteSet(T), NEW R, Orders(R, T),
         NEW t \in [1..Cardinality(T) -> T], Follow(t, Cardinality(T), R)
  PROVE  /\ \A i, j \in 1..Cardinality(T) : t[i] = t[j] => i = j
         /\ \A x \in T : \E i \in 1..Cardinality(T) : t[i] = x
<1> DEFINE n == Cardinality(T)
<1>1. n \in Nat
  BY FS_CardinalityType
<1> HIDE DEF n
<1>2. ASSUME NEW i \in 1..n, NEW j \in 1..n, t[i] = t[j]
      PROVE  i = j
  <2>1. ~(i < j) /\ ~(j < i)
    BY <1>2 DEF Follow, Orders, n
  <2> QED
    BY <1>1, <2>1
<1>3. t \in Injection(1..n, T)
  BY <1>2 DEF Injection, IsInjective, n
<1>4. IsFiniteSet(1..n) /\ Cardinality(1..n) = n
  BY <1>1, FS_Interval
<1>5. t \in Surjection(1..n, T)
  BY <1>3, <1>4, FS_Injection DEF n
<1> QED
  BY <1>2, <1>5 DEF Surjection, n

\* A finite set can be put in line: the last element goes last.
LEMMA LineUp ==
  ASSUME NEW T, IsFiniteSet(T), NEW R, Orders(R, T)
  PROVE  \E t \in [1..Cardinality(T) -> T] : Follow(t, Cardinality(T), R)
<1> DEFINE Good(S) == \E t \in [1..Cardinality(S) -> S] : Follow(t, Cardinality(S), R)
           Bad == {Cardinality(S) : S \in {U \in SUBSET T : ~Good(U)}}
<1>1. \A S \in SUBSET T : IsFiniteSet(S) /\ Cardinality(S) \in Nat /\ Orders(R, S)
  BY FS_Subset, FS_CardinalityType DEF Orders
<1>2. ASSUME Bad # {} PROVE FALSE
  <2>1. Bad \subseteq Nat
    BY <1>1
  <2>2. PICK m \in Bad : \A k \in Bad : m <= k
    BY <1>2, <2>1, LeastNumber
  <2>3. PICK S \in SUBSET T : ~Good(S) /\ Cardinality(S) = m
    OBVIOUS
  <2>4. m \in Nat /\ IsFiniteSet(S) /\ Orders(R, S)
    BY <1>1, <2>3
  <2>5. S # {}
    <3> SUFFICES ASSUME S = {} PROVE FALSE
      OBVIOUS
    <3>1. Cardinality(S) = 0
      BY FS_EmptySet
    <3> DEFINE t == [i \in 1..0 |-> i]
    <3>2. t \in [1..Cardinality(S) -> S] /\ Follow(t, Cardinality(S), R)
      BY <3>1 DEF Follow
    <3> QED
      BY <2>3, <3>2
  <2>6. ASSUME NEW z \in S
        PROVE  Good(S \ {z}) /\ Cardinality(S \ {z}) = m - 1 /\ m > 0
    <3>1. Cardinality(S \ {z}) = m - 1
      BY <2>3, <2>4, FS_RemoveElement
    <3>2. S \ {z} \in SUBSET T /\ m - 1 \in Nat
      BY <1>1, <3>1
    <3>3. m - 1 \notin Bad
      BY <2>2, <2>4, <3>2
    <3>4. Good(S \ {z})
      <4> HIDE DEF Good
      <4> SUFFICES ASSUME ~Good(S \ {z}) PROVE FALSE
        OBVIOUS
      <4>1. S \ {z} \in {U \in SUBSET T : ~Good(U)}
        BY <3>2
      <4> QED
        BY <3>1, <3>3, <4>1
    <3>5. m > 0
      BY <2>4, <3>2
    <3> QED
      BY <3>1, <3>4, <3>5
  <2>7. \E last \in S : \A x \in S \ {last} : <<x, last>> \in R
    <3>1. PICK z \in S : TRUE
      BY <2>5
    <3> DEFINE U == S \ {z}
               n == m - 1
    <3>2. PICK t \in [1..Cardinality(U) -> U] : Follow(t, Cardinality(U), R)
      BY <2>6
    <3>3. Cardinality(U) = n /\ n \in Nat /\ IsFiniteSet(U) /\ Orders(R, U)
      BY <1>1, <2>4, <2>6
    <3>4. \A x \in U : \E i \in 1..n : t[i] = x
      <4> HIDE DEF U, n
      <4> QED
        BY <3>2, <3>3, EachOnce
    <3>5. CASE n = 0
      <4>1. U = {}
        BY <3>3, <3>5, FS_EmptySet
      <4> QED
        BY <4>1
    <3>6. CASE n # 0
      <4>1. n \in 1..n /\ t[n] \in U
        <5> HIDE DEF U, n
        <5> QED
          BY <3>2, <3>3, <3>6
      <4>2. \A x \in U : x # t[n] => <<x, t[n]>> \in R
        <5> SUFFICES ASSUME NEW x \in U, x # t[n] PROVE <<x, t[n]>> \in R
          OBVIOUS
        <5>1. PICK i \in 1..n : t[i] = x
          BY <3>4
        <5>2. i < n
          BY <3>3, <5>1
        <5>3. <<t[i], t[n]>> \in R
          <6>1. Follow(t, n, R)
            BY <3>2, <3>3
          <6> HIDE DEF n, U
          <6> QED
            BY <4>1, <5>1, <5>2, <6>1 DEF Follow
        <5> QED
          BY <5>1, <5>3
      <4>3. CASE <<t[n], z>> \in R
        <5>1. \A x \in U : <<x, z>> \in R
          <6> SUFFICES ASSUME NEW x \in U, x # t[n] PROVE <<x, z>> \in R
            BY <4>3
          <6>1. <<x, t[n]>> \in R /\ x \in S /\ t[n] \in S /\ z \in S
            BY <4>1, <4>2
          <6> HIDE DEF n, U
          <6> QED
            BY <2>4, <4>3, <6>1 DEF Orders
        <5> QED
          BY <5>1
      <4>4. CASE <<t[n], z>> \notin R
        <5>1. <<z, t[n]>> \in R
          BY <2>4, <4>1, <4>4 DEF Orders
        <5>2. \A x \in S \ {t[n]} : <<x, t[n]>> \in R
          BY <4>2, <5>1
        <5> QED
          BY <4>1, <5>2
      <4> QED
        BY <4>3, <4>4
    <3> QED
      BY <3>5, <3>6
  <2>8. PICK last \in S : \A x \in S \ {last} : <<x, last>> \in R
    BY <2>7
  <2> DEFINE U == S \ {last}
  <2>9. PICK t \in [1..Cardinality(U) -> U] : Follow(t, Cardinality(U), R)
    BY <2>6
  <2>10. Cardinality(U) = m - 1 /\ m > 0
    BY <2>6
  <2> DEFINE longer == [i \in 1..m |-> IF i = m THEN last ELSE t[i]]
  <2>11. \A i \in 1..m : i # m => i \in 1..(m - 1) /\ t[i] \in U
    <3>1. t \in [1..(m - 1) -> U]
      BY <2>9, <2>10
    <3>2. \A i \in 1..m : i # m => i \in 1..(m - 1)
      BY <2>4
    <3> HIDE DEF U, Bad
    <3> QED
      BY <3>1, <3>2
  <2>12. longer \in [1..m -> S]
    BY <2>11
  <2>13. Follow(longer, m, R)
    <3> SUFFICES ASSUME NEW i \in 1..m, NEW j \in 1..m, i < j
                 PROVE  <<longer[i], longer[j]>> \in R
      BY DEF Follow
    <3>1. i # m
      BY <2>4
    <3>2. CASE j = m
      BY <2>8, <2>11, <3>1, <3>2
    <3>3. CASE j # m
      BY <2>9, <2>10, <2>11, <3>1, <3>3 DEF Follow
    <3> QED
      BY <3>2, <3>3
  <2> HIDE DEF longer
  <2> QED
    BY <2>3, <2>12, <2>13
<1>3. Good(T)
  BY <1>2
<1> QED
  BY <1>3

\* So what Arranged chooses is in line.
LEMMA ArrangedIs ==
  ASSUME NEW T, IsFiniteSet(T), NEW R, Orders(R, T)
  PROVE  /\ Cardinality(T) \in Nat
         /\ Arranged(T, R) \in [1..Cardinality(T) -> T]
         /\ Follow(Arranged(T, R), Cardinality(T), R)
         /\ \A i, j \in 1..Cardinality(T) : Arranged(T, R)[i] = Arranged(T, R)[j] => i = j
         /\ \A x \in T : \E i \in 1..Cardinality(T) : Arranged(T, R)[i] = x
<1>1. \E t \in [1..Cardinality(T) -> T] :
         \A i, j \in 1..Cardinality(T) : i < j => <<t[i], t[j]>> \in R
  BY LineUp DEF Follow
<1>2. /\ Arranged(T, R) \in [1..Cardinality(T) -> T]
      /\ Follow(Arranged(T, R), Cardinality(T), R)
  BY <1>1 DEF Arranged, Follow
<1> QED
  BY <1>2, EachOnce, FS_CardinalityType

\* The entries at some positions are those, each once.
LEMMA PickedIs ==
  ASSUME NEW C, NEW s \in Seq(C), NEW at \in SUBSET (DOMAIN s), NEW R, Orders(R, at)
  PROVE  /\ Cardinality(at) \in Nat /\ Cardinality(at) <= Len(s)
         /\ Picked(s, at, R) \in Seq(C) /\ Len(Picked(s, at, R)) = Cardinality(at)
         /\ DOMAIN Picked(s, at, R) = 1..Cardinality(at)
         /\ \E t \in [1..Cardinality(at) -> at] :
              /\ Follow(t, Cardinality(at), R)
              /\ \A i \in 1..Cardinality(at) : Picked(s, at, R)[i] = s[t[i]]
              /\ \A i, j \in 1..Cardinality(at) : t[i] = t[j] => i = j
              /\ \A x \in at : \E i \in 1..Cardinality(at) : t[i] = x
<1>1. DOMAIN s = 1..Len(s) /\ Len(s) \in Nat
  OBVIOUS
<1>2. IsFiniteSet(DOMAIN s) /\ Cardinality(DOMAIN s) = Len(s)
  <2> DEFINE n == Len(s)
  <2>1. n \in Nat /\ DOMAIN s = 1..n
    BY <1>1
  <2> HIDE DEF n
  <2>2. IsFiniteSet(1..n) /\ Cardinality(1..n) = n
    BY <2>1, FS_Interval
  <2> QED
    BY <2>1, <2>2 DEF n
<1>3. IsFiniteSet(at) /\ Cardinality(at) \in Nat /\ Cardinality(at) <= Len(s)
  BY <1>2, FS_Subset, FS_CardinalityType
<1> DEFINE t == Arranged(at, R)
           n == Cardinality(at)
<1>4. /\ t \in [1..n -> at] /\ Follow(t, n, R)
      /\ \A i, j \in 1..n : t[i] = t[j] => i = j
      /\ \A x \in at : \E i \in 1..n : t[i] = x
  BY <1>3, ArrangedIs
<1>5. Picked(s, at, R) = [k \in 1..n |-> s[t[k]]]
  BY DEF Picked
<1> HIDE DEF t, n
<1>6. \A k \in 1..n : s[t[k]] \in C
  BY <1>1, <1>4, ElementOfSeq
<1>7. Picked(s, at, R) \in [1..n -> C] /\ n \in Nat
  BY <1>3, <1>5, <1>6 DEF n
<1>8. Picked(s, at, R) \in Seq(C) /\ Len(Picked(s, at, R)) = n
  BY <1>7
<1> QED
  BY <1>3, <1>4, <1>5, <1>7, <1>8 DEF n

-----------------------------------------------------------------------------
(* Lists of chunks *)

\* No two entries have the same id.
OneEach(s) == \A i, j \in DOMAIN s : Id(s[i]) = Id(s[j]) => i = j

\* What is picked from a list is in it, and is not there twice if it was not.
LEMMA PickedKeeps ==
  ASSUME NEW C, NEW s \in Seq(C), NEW at \in SUBSET (DOMAIN s), NEW R, Orders(R, at)
  PROVE  /\ Picked(s, at, R) \in Seq(C)
         /\ Range(Picked(s, at, R)) = {s[k] : k \in at}
         /\ OneEach(s) => OneEach(Picked(s, at, R))
<1> DEFINE n == Cardinality(at)
           out == Picked(s, at, R)
<1>1. PICK t \in [1..n -> at] :
        /\ \A i \in 1..n : out[i] = s[t[i]]
        /\ \A i, j \in 1..n : t[i] = t[j] => i = j
        /\ \A x \in at : \E i \in 1..n : t[i] = x
  BY PickedIs, SMTT(30)
<1>2. out \in Seq(C) /\ DOMAIN out = 1..n
  BY PickedIs
<1> HIDE DEF n, out
<1>3. Range(out) = {s[k] : k \in at}
  <2>1. \A y \in Range(out) : y \in {s[k] : k \in at}
    BY <1>1, <1>2 DEF Range
  <2>2. ASSUME NEW k \in at
        PROVE  s[k] \in Range(out)
    <3>1. PICK i \in 1..n : t[i] = k
      BY <1>1
    <3> QED
      BY <1>1, <1>2, <3>1 DEF Range
  <2> QED
    BY <2>1, <2>2
<1>4. ASSUME OneEach(s), NEW i \in 1..n, NEW j \in 1..n, Id(out[i]) = Id(out[j])
      PROVE  i = j
  <2>1. t[i] \in DOMAIN s /\ t[j] \in DOMAIN s /\ Id(s[t[i]]) = Id(s[t[j]])
    BY <1>1, <1>4
  <2>2. t[i] = t[j]
    BY <1>4, <2>1 DEF OneEach
  <2> QED
    BY <1>1, <2>2
<1>5. OneEach(s) => OneEach(out)
  BY <1>2, <1>4 DEF OneEach
<1> QED
  BY <1>2, <1>3, <1>5 DEF out

LEMMA KeptFacts ==
  ASSUME NEW C, NEW s \in Seq(C), NEW at \in SUBSET (DOMAIN s)
  PROVE  /\ Kept(s, at) \in Seq(C)
         /\ Range(Kept(s, at)) = {s[k] : k \in at}
         /\ OneEach(s) => OneEach(Kept(s, at))
<1> DEFINE R == {p \in at \X at : p[1] < p[2]}
<1>1. at \subseteq Nat
  OBVIOUS
<1>2. \A x, y : <<x, y>> \in R <=> x \in at /\ y \in at /\ x < y
  OBVIOUS
<1> HIDE DEF R
<1>3. Orders(R, at)
  BY <1>1, <1>2 DEF Orders
<1>4. Kept(s, at) = Picked(s, at, R)
  BY DEF Kept, R
<1> QED
  BY <1>3, <1>4, PickedKeeps

\* The first entries of a list.
LEMMA FirstFacts ==
  ASSUME NEW C, NEW s \in Seq(C), NEW n \in Nat
  PROVE  /\ First(s, n) \in Seq(C) /\ Len(First(s, n)) <= n /\ Len(First(s, n)) <= Len(s)
         /\ n <= Len(s) => Len(First(s, n)) = n
         /\ Len(s) <= n => Len(First(s, n)) = Len(s)
         /\ DOMAIN First(s, n) = 1..Len(First(s, n))
         /\ \A i \in DOMAIN First(s, n) : i \in DOMAIN s /\ First(s, n)[i] = s[i]
         /\ Range(First(s, n)) \subseteq Range(s)
         /\ OneEach(s) => OneEach(First(s, n))
<1> DEFINE len == Len(s)
           m == IF len < n THEN len ELSE n
           out == First(s, n)
<1>1. len \in Nat /\ DOMAIN s = 1..len /\ \A i \in 1..len : s[i] \in C
  OBVIOUS
<1>2. out = SubSeq(s, 1, m)
  BY DEF First
<1> HIDE DEF len
<1>3. /\ m \in Nat /\ m <= n /\ m <= len
      /\ n <= len => m = n
      /\ len <= n => m = len
  BY <1>1
<1> HIDE DEF m, out
<1>4. \A i \in 1..m : i \in 1..len /\ 1 + i - 1 = i
  BY <1>1, <1>3
<1>5. out \in Seq(C) /\ Len(out) = m /\ \A i \in 1..m : out[i] = s[i]
  <2>1. \A i \in 1..m : s[i] \in C
    BY <1>1, <1>4
  <2>2. /\ out \in Seq(C) 
        /\ Len(out) = IF 1 <= m THEN m - 1 + 1 ELSE 0
        /\ \A i \in 1..(m - 1 + 1) : out[i] = s[1 + i - 1]
    BY <1>2, <1>3, <2>1, SubSeqProperties
  <2>3. m - 1 + 1 = m /\ (~(1 <= m) => m = 0)
    BY <1>3
  <2>4. \A i \in 1..m : out[i] = s[i]
    BY <1>4, <2>2, <2>3
  <2> QED
    BY <2>2, <2>3, <2>4
<1>6. DOMAIN out = 1..m
  BY <1>5
<1>7. Range(out) \subseteq Range(s)
  BY <1>1, <1>4, <1>5, <1>6 DEF Range
<1>8. OneEach(s) => OneEach(out)
  BY <1>1, <1>4, <1>5, <1>6 DEF OneEach
<1> QED
  BY <1>1, <1>3, <1>4, <1>5, <1>6, <1>7, <1>8 DEF out, len

\* The chunks of an id, in a list with one of each.
LEMMA TheOneOf ==
  ASSUME NEW s \in Seq(Chunk), OneEach(s), NEW c \in Range(s)
  PROVE  Of(Range(s), Id(c)) = {c}
<1>1. PICK i \in DOMAIN s : s[i] = c
  BY DEF Range
<1>2. \A d \in Range(s) : Id(d) = Id(c) => d = c
  BY <1>1 DEF Range, OneEach
<1> QED
  BY <1>2 DEF Of

-----------------------------------------------------------------------------
(* Writing *)

Lists == {s \in Seq(Chunk) : OneEach(s)}

LEMMA ReplacedFacts ==
  ASSUME NEW s \in Lists, NEW c \in Chunk
  PROVE  /\ Replaced(s, c) \in Lists
         /\ Range(Replaced(s, c)) = {d \in Range(s) : Id(d) # Id(c)} \cup {c}
<1> DEFINE at == {k \in DOMAIN s : Id(s[k]) # Id(c)}
           rest == Kept(s, at)
           out == Replaced(s, c)
<1>1. s \in Seq(Chunk) /\ OneEach(s) /\ at \in SUBSET (DOMAIN s)
  BY DEF Lists
<1>2. rest \in Seq(Chunk) /\ OneEach(rest) /\ Range(rest) = {s[k] : k \in at}
  <2> HIDE DEF at
  <2> QED
    BY <1>1, KeptFacts
<1>3. Range(rest) = {d \in Range(s) : Id(d) # Id(c)}
  BY <1>2 DEF Range
<1>4. out = Append(rest, c)
  BY DEF Replaced
<1> DEFINE len == Len(rest)
<1> HIDE DEF at, rest, out
<1>5. len \in Nat /\ DOMAIN rest = 1..len
  BY <1>2
<1>6. /\ out \in Seq(Chunk) /\ Len(out) = len + 1
      /\ \A i \in 1..len : out[i] = rest[i]
      /\ out[len + 1] = c
  BY <1>2, <1>4, AppendProperties
<1> HIDE DEF len
<1>7. DOMAIN out = 1..(len + 1)
  BY <1>6
<1>8. \A i \in 1..(len + 1) : i \in 1..len \/ i = len + 1
  BY <1>5
<1>9. \A i \in 1..len : i \in 1..(len + 1) /\ Id(rest[i]) # Id(c)
  BY <1>3, <1>5 DEF Range
<1>10. OneEach(out)
  <2> SUFFICES ASSUME NEW i \in 1..(len + 1), NEW j \in 1..(len + 1), Id(out[i]) = Id(out[j])
               PROVE  i = j
    BY <1>7 DEF OneEach
  <2>1. CASE i \in 1..len /\ j \in 1..len
    BY <1>2, <1>5, <1>6, <2>1 DEF OneEach
  <2>2. CASE i = len + 1 \/ j = len + 1
    BY <1>6, <1>8, <1>9, <2>2
  <2> QED
    BY <1>8, <2>1, <2>2
<1>11. Range(out) = Range(rest) \cup {c}
  <2>1. \A y \in Range(out) : y \in Range(rest) \cup {c}
    BY <1>5, <1>6, <1>7, <1>8 DEF Range
  <2>2. \A y \in Range(rest) : y \in Range(out)
    BY <1>5, <1>6, <1>7, <1>9 DEF Range
  <2>3. c \in Range(out)
    <3>1. len + 1 \in 1..(len + 1)
      BY <1>5
    <3> QED
      BY <1>6, <1>7, <3>1 DEF Range
  <2> QED
    BY <2>1, <2>2, <2>3
<1> QED
  BY <1>3, <1>6, <1>10, <1>11 DEF out, Lists

\* f lists what the store is after each chunk of a batch.
Writes(f, s, b, n) ==
  /\ f \in [0..n -> Lists] /\ f[0] = s
  /\ \A k \in 1..n : f[k] = Replaced(f[k - 1], b[k])

LEMMA WritesExist ==
  ASSUME NEW s \in Lists, NEW b \in Seq(Chunk)
  PROVE  \E f : Writes(f, s, b, Len(b))
<1> DEFINE len == Len(b)
           Bad == {m \in 0..len : ~\E f : Writes(f, s, b, m)}
<1>1. len \in Nat /\ \A k \in 1..len : b[k] \in Chunk
  OBVIOUS
<1> HIDE DEF len
<1>2. ASSUME Bad # {} PROVE FALSE
  <2>1. PICK m \in Bad : \A k \in Bad : m <= k
    <3>1. Bad \subseteq Nat
      BY <1>1
    <3> QED
      BY <1>2, <3>1, LeastNumber
  <2>2. m \in 0..len /\ ~\E f : Writes(f, s, b, m)
    OBVIOUS
  <2>3. m # 0
    <3> SUFFICES ASSUME m = 0 PROVE FALSE
      OBVIOUS
    <3> DEFINE f == [k \in 0..0 |-> s]
    <3>1. Writes(f, s, b, 0)
      BY DEF Writes
    <3> QED
      BY <2>2, <3>1
  <2>4. m - 1 \in 0..len /\ m - 1 \notin Bad /\ m \in 1..len
    BY <1>1, <2>1, <2>2, <2>3
  <2>5. PICK f : Writes(f, s, b, m - 1)
    BY <2>4
  <2> DEFINE g == [k \in 0..m |-> IF k = m THEN Replaced(f[m - 1], b[m]) ELSE f[k]]
  <2>6. m \in Nat /\ m - 1 \in 0..(m - 1) /\ \A k \in 0..m : k # m => k \in 0..(m - 1)
    BY <1>1, <2>4
  <2>7. f \in [0..(m - 1) -> Lists] /\ f[0] = s /\ \A k \in 1..(m - 1) : f[k] = Replaced(f[k - 1], b[k])
    BY <2>5 DEF Writes
  <2>8. Replaced(f[m - 1], b[m]) \in Lists
    BY <1>1, <2>4, <2>6, <2>7, ReplacedFacts
  <2>9. g \in [0..m -> Lists] /\ g[0] = s
    BY <2>3, <2>6, <2>7, <2>8
  <2>10. ASSUME NEW k \in 1..m PROVE g[k] = Replaced(g[k - 1], b[k])
    <3>1. k \in 0..m /\ k - 1 \in 0..m /\ k - 1 # m
      BY <2>6
    <3>2. CASE k = m
      BY <3>1, <3>2
    <3>3. CASE k # m
      <4>1. k \in 1..(m - 1)
        BY <2>6, <3>3
      <4> QED
        BY <2>7, <3>1, <3>3, <4>1
    <3> QED
      BY <3>2, <3>3
  <2> HIDE DEF g
  <2> QED
    BY <2>2, <2>9, <2>10 DEF Writes
<1> QED
  BY <1>1, <1>2 DEF len

LEMMA UpsertAllIs ==
  ASSUME NEW s \in Lists, NEW b \in Seq(Chunk)
  PROVE  \E f : Writes(f, s, b, Len(b)) /\ UpsertAll(s, b) = f[Len(b)]
<1> DEFINE len == Len(b)
           Is(g) == g = [k \in 0..len |-> IF k = 0 THEN s ELSE Replaced(g[k - 1], b[k])]
           list == CHOOSE g : Is(g)
<1>1. UpsertAll(s, b) = list[len]
  BY DEF UpsertAll
<1>2. len \in Nat
  OBVIOUS
<1>3. PICK f : Writes(f, s, b, len)
  BY WritesExist
<1> HIDE DEF len
<1>4. f \in [0..len -> Lists] /\ f[0] = s /\ \A k \in 1..len : f[k] = Replaced(f[k - 1], b[k])
  BY <1>3 DEF Writes
<1>5. \A k \in 0..len : k # 0 => k \in 1..len /\ k - 1 \in 0..len /\ k - 1 < k
  BY <1>2
<1>6. \A k \in 0..len : f[k] = IF k = 0 THEN s ELSE Replaced(f[k - 1], b[k])
  BY <1>4, <1>5
<1>7. f = [k \in 0..len |-> IF k = 0 THEN s ELSE Replaced(f[k - 1], b[k])]
  BY <1>4, <1>6
<1>8. Is(list)
  BY <1>7
<1> HIDE DEF list
<1>9. \A k \in 0..len : list[k] = IF k = 0 THEN s ELSE Replaced(list[k - 1], b[k])
  BY <1>8
<1> DEFINE Bad == {k \in 0..len : list[k] # f[k]}
<1>10. ASSUME Bad # {} PROVE FALSE
  <2>1. PICK m \in Bad : \A k \in Bad : m <= k
    <3>1. Bad \subseteq Nat
      BY <1>2
    <3> QED
      BY <1>10, <3>1, LeastNumber
  <2>2. m \in 0..len /\ list[m] # f[m]
    OBVIOUS
  <2>3. m # 0
    BY <1>2, <1>4, <1>9, <2>2
  <2>4. m - 1 \in 0..len /\ m - 1 < m /\ m \in Nat
    BY <1>2, <1>5, <2>2, <2>3
  <2>5. m - 1 \notin Bad
    BY <2>1, <2>4
  <2>6. list[m - 1] = f[m - 1]
    BY <2>4, <2>5
  <2> QED
    BY <1>6, <1>9, <2>2, <2>3, <2>6
<1>11. len \in 0..len
  BY <1>2
<1> QED
  BY <1>1, <1>3, <1>10, <1>11 DEF len

\* What has been written when k chunks of the batch b are in the store l, which
\* was s: other ids are left alone, of each id the last chunk is there, and no id
\* is lost.
Written(l, s, b, k) ==
  /\ \A i : (\A j \in 1..k : Id(b[j]) # i) => Of(Range(l), i) = Of(Range(s), i)
  /\ \A j \in 1..k : (\A h \in 1..k : j < h => Id(b[h]) # Id(b[j])) => b[j] \in Range(l)
  /\ \A i : Of(Range(s), i) # {} => Of(Range(l), i) # {}

LEMMA UpsertAllFacts ==
  ASSUME NEW s \in Lists, NEW b \in Seq(Chunk)
  PROVE  UpsertAll(s, b) \in Lists /\ Written(UpsertAll(s, b), s, b, Len(b))
<1> DEFINE len == Len(b)
<1>1. len \in Nat /\ \A k \in 1..len : b[k] \in Chunk
  OBVIOUS
<1>2. PICK f : Writes(f, s, b, len) /\ UpsertAll(s, b) = f[len]
  BY UpsertAllIs
<1> HIDE DEF len
<1>3. f \in [0..len -> Lists] /\ f[0] = s /\ \A k \in 1..len : f[k] = Replaced(f[k - 1], b[k])
  BY <1>2 DEF Writes
<1> DEFINE Bad == {k \in 0..len : ~Written(f[k], s, b, k)}
<1>4. ASSUME Bad # {} PROVE FALSE
  <2>1. PICK m \in Bad : \A k \in Bad : m <= k
    <3>1. Bad \subseteq Nat
      BY <1>1
    <3> QED
      BY <1>4, <3>1, LeastNumber
  <2>2. m \in 0..len /\ ~Written(f[m], s, b, m)
    OBVIOUS
  <2>3. m # 0
    <3>1. Written(s, s, b, 0)
      BY DEF Written
    <3> QED
      BY <1>3, <2>2, <3>1
  <2>4. /\ m - 1 \in 0..len /\ m - 1 < m /\ m \in Nat /\ m \in 1..len
        /\ \A j \in 1..m : j = m \/ j \in 1..(m - 1)
        /\ \A j \in 1..(m - 1) : j \in 1..m /\ j < m
    BY <1>1, <2>2, <2>3
  <2>5. Written(f[m - 1], s, b, m - 1)
    <3>1. m - 1 \notin Bad
      BY <2>1, <2>4
    <3> QED
      BY <2>4, <3>1
  <2> DEFINE old == f[m - 1]
             new == f[m]
             c == b[m]
  <2>6. old \in Lists /\ c \in Chunk /\ new = Replaced(old, c)
    BY <1>1, <1>3, <2>4
  <2> HIDE DEF old, new, c
  <2>7. Range(new) = {d \in Range(old) : Id(d) # Id(c)} \cup {c}
    BY <2>6, ReplacedFacts
  <2>8. ASSUME NEW i, \A j \in 1..m : Id(b[j]) # i
        PROVE  Of(Range(new), i) = Of(Range(s), i)
    <3>1. Id(c) # i /\ \A j \in 1..(m - 1) : Id(b[j]) # i
      BY <2>4, <2>8 DEF c
    <3>2. Of(Range(new), i) = Of(Range(old), i)
      BY <2>7, <3>1 DEF Of
    <3> QED
      BY <2>5, <3>1, <3>2 DEF Written, old
  <2>9. ASSUME NEW j \in 1..m, \A h \in 1..m : j < h => Id(b[h]) # Id(b[j])
        PROVE  b[j] \in Range(new)
    <3>1. CASE j = m
      BY <2>7, <3>1 DEF c
    <3>2. CASE j # m
      <4>1. j \in 1..(m - 1) /\ j < m /\ Id(c) # Id(b[j])
        BY <2>4, <2>9, <3>2 DEF c
      <4>2. b[j] \in Range(old)
        BY <2>4, <2>5, <2>9, <4>1 DEF Written, old
      <4> QED
        BY <2>7, <4>1, <4>2
    <3> QED
      BY <3>1, <3>2
  <2>10. ASSUME NEW i, Of(Range(s), i) # {}
         PROVE  Of(Range(new), i) # {}
    <3>1. Of(Range(old), i) # {}
      BY <2>5, <2>10 DEF Written, old
    <3> QED
      BY <2>7, <3>1 DEF Of
  <2> QED
    BY <2>2, <2>8, <2>9, <2>10 DEF Written, new
<1>5. len \in 0..len
  BY <1>1
<1> QED
  BY <1>2, <1>3, <1>4, <1>5 DEF len

-----------------------------------------------------------------------------
(* The two stores *)

\* The last chunk of an id that the batch still has is in the list already.
PendingIsThere ==
  \A k \in DOMAIN batch :
    (\A j \in DOMAIN batch : k < j => Id(batch[j]) # Id(batch[k])) => batch[k] \in Range(chunks)

CodesOf(S, i) == {c.code : c \in Of(S, i)}

\* Of every other id, the table and the list have the same code.
OthersAgree ==
  \A i \in Ids \ failed :
    (\A k \in DOMAIN batch : Id(batch[k]) # i) => CodesOf(rows, i) = CodesOf(Range(chunks), i)

StoreInv ==
  /\ chunks \in Lists
  /\ rows \subseteq Chunk /\ IsFiniteSet(rows)
  /\ \A r, q \in rows : Id(r) = Id(q) => r = q
  /\ batch \in Seq(Chunk) /\ failed \subseteq Ids
  /\ PendingIsThere
  /\ OthersAgree

LEMMA IdsOfChunks == \A c \in Chunk : Id(c) \in Ids
BY DEF Chunk, Id, Ids

LEMMA StoreInit == Init => StoreInv
<1> SUFFICES ASSUME Init PROVE StoreInv
  OBVIOUS
<1>1. chunks = <<>> /\ rows = {} /\ batch = <<>> /\ failed = {}
  BY DEF Init
<1>2. <<>> \in Seq(Chunk) /\ DOMAIN <<>> = {} /\ Range(<<>>) = {}
  BY DEF Range
<1>3. IsFiniteSet({})
  BY FS_EmptySet
<1>4. \A i : CodesOf({}, i) = {}
  BY DEF CodesOf, Of
<1> QED
  BY <1>1, <1>2, <1>3, <1>4 DEF StoreInv, Lists, OneEach, PendingIsThere, OthersAgree

\* A batch begins: the list has it, the table has nothing of it yet.
LEMMA StoreUpsert == StoreInv /\ Upsert => StoreInv'
<1> SUFFICES ASSUME StoreInv, Upsert PROVE StoreInv'
  OBVIOUS
<1>1. PICK n \in 1..MaxBatch : \E b \in [1..n -> Chunk] : chunks' = UpsertAll(chunks, b) /\ batch' = b
  BY DEF Upsert
<1>2. PICK b \in [1..n -> Chunk] : chunks' = UpsertAll(chunks, b) /\ batch' = b
  BY <1>1
<1>3. n \in Nat
  BY StoreAssumption
<1>4. b \in Seq(Chunk) /\ Len(b) = n /\ DOMAIN b = 1..n
  BY <1>3
<1>5. batch = <<>> /\ UNCHANGED <<rows, failed>>
  BY DEF Upsert
<1>6. chunks' \in Lists /\ Written(chunks', chunks, b, n)
  BY <1>2, <1>4, UpsertAllFacts DEF StoreInv
<1>7. PendingIsThere'
  BY <1>2, <1>4, <1>6 DEF Written, PendingIsThere
<1>8. OthersAgree'
  <2> SUFFICES ASSUME NEW i \in Ids \ failed, \A k \in 1..n : Id(b[k]) # i
               PROVE  CodesOf(rows, i) = CodesOf(Range(chunks'), i)
    BY <1>2, <1>4, <1>5 DEF OthersAgree
  <2>1. Of(Range(chunks'), i) = Of(Range(chunks), i)
    BY <1>6 DEF Written
  <2>2. CodesOf(rows, i) = CodesOf(Range(chunks), i)
    BY <1>5 DEF StoreInv, OthersAgree
  <2> QED
    BY <2>1, <2>2 DEF CodesOf
<1> QED
  BY <1>2, <1>4, <1>5, <1>6, <1>7, <1>8 DEF StoreInv

\* What is left of a batch.
LEMMA HeadAndTail ==
  ASSUME NEW b \in Seq(Chunk), b # <<>>
  PROVE  /\ Tail(b) \in Seq(Chunk) /\ Head(b) = b[1] /\ 1 \in DOMAIN b
         /\ \A k \in DOMAIN Tail(b) : k + 1 \in DOMAIN b /\ Tail(b)[k] = b[k + 1]
         /\ \A k \in DOMAIN b : k # 1 => k - 1 \in DOMAIN Tail(b) /\ b[k] = Tail(b)[k - 1]
<1> DEFINE len == Len(b)
           t == Tail(b)
<1>1. len \in Nat /\ DOMAIN b = 1..len /\ len # 0 /\ Head(b) = b[1]
  OBVIOUS
<1>2. t \in Seq(Chunk) /\ Len(t) = len - 1 /\ \A i \in 1..Len(t) : t[i] = b[i + 1]
  BY HeadTailProperties
<1>3. DOMAIN t = 1..(len - 1)
  BY <1>2
<1> HIDE DEF len, t
<1>4. \A k \in 1..(len - 1) : k + 1 \in 1..len /\ t[k] = b[k + 1]
  BY <1>1, <1>2, <1>3
<1>5. \A k \in 1..len : k # 1 => k - 1 \in 1..(len - 1) /\ b[k] = t[k - 1]
  <2> SUFFICES ASSUME NEW k \in 1..len, k # 1
               PROVE  k - 1 \in 1..(len - 1) /\ b[k] = t[k - 1]
    OBVIOUS
  <2>1. k - 1 \in 1..(len - 1) /\ (k - 1) + 1 = k
    BY <1>1
  <2> QED
    BY <1>4, <2>1
<1> QED
  BY <1>1, <1>2, <1>3, <1>4, <1>5 DEF t

\* A batch ends early: what was left counts as failed.
LEMMA StoreGivenUp ==
  ASSUME StoreInv, failed' = failed \cup {Id(d) : d \in Range(batch)}, batch' = <<>>,
         UNCHANGED <<chunks, rows>>
  PROVE  StoreInv'
<1>1. \A k \in DOMAIN batch : batch[k] \in Chunk /\ batch[k] \in Range(batch)
  BY DEF StoreInv, Range
<1>2. \A d \in Range(batch) : d \in Chunk
  BY <1>1 DEF Range
<1>3. failed' \subseteq Ids
  BY <1>2, IdsOfChunks DEF StoreInv
<1>4. <<>> \in Seq(Chunk) /\ DOMAIN <<>> = {}
  OBVIOUS
<1>5. PendingIsThere'
  BY <1>4 DEF PendingIsThere
<1>6. OthersAgree'
  <2> SUFFICES ASSUME NEW i \in Ids \ failed'
               PROVE  CodesOf(rows, i) = CodesOf(Range(chunks), i)
    BY DEF OthersAgree
  <2>1. i \in Ids \ failed /\ \A k \in DOMAIN batch : Id(batch[k]) # i
    BY <1>1
  <2> QED
    BY <2>1 DEF StoreInv, OthersAgree
<1> QED
  BY <1>3, <1>4, <1>5, <1>6 DEF StoreInv

\* One row is written.
LEMMA StoreInsertRow == StoreInv /\ InsertRow => StoreInv'
<1> SUFFICES ASSUME StoreInv, InsertRow PROVE StoreInv'
  OBVIOUS
<1> DEFINE c == Head(batch)
<1>1. batch # <<>> /\ UNCHANGED chunks
  BY DEF InsertRow
<1>2. CASE Similarity[c.code] = NoEmbedding
  <2>1. failed' = failed \cup {Id(d) : d \in Range(batch)} /\ batch' = <<>> /\ UNCHANGED rows
    BY <1>2 DEF InsertRow
  <2> QED
    BY <1>1, <2>1, StoreGivenUp
<1>3. CASE Similarity[c.code] # NoEmbedding
  <2>1. /\ rows' = IF Of(rows, Id(c)) = {} THEN rows \cup {c}
                   ELSE {IF Id(r) = Id(c) THEN OnConflict(r, c) ELSE r : r \in rows}
        /\ batch' = Tail(batch)
        /\ UNCHANGED failed
    BY <1>3 DEF InsertRow
  <2>2. /\ batch' \in Seq(Chunk) /\ c = batch[1] /\ 1 \in DOMAIN batch /\ c \in Chunk
        /\ \A k \in DOMAIN batch' : k + 1 \in DOMAIN batch /\ batch'[k] = batch[k + 1]
        /\ \A k \in DOMAIN batch : k # 1 => k - 1 \in DOMAIN batch' /\ batch[k] = batch'[k - 1]
    BY <1>1, <2>1, HeadAndTail DEF StoreInv
  <2>3. DOMAIN batch \subseteq Nat /\ DOMAIN batch' \subseteq Nat
    BY <2>2 DEF StoreInv
  <2> HIDE DEF c
  <2>4. \A r \in rows : Id(r) = Id(c) =>
          OnConflict(r, c) \in Chunk /\ Id(OnConflict(r, c)) = Id(c) /\ OnConflict(r, c).code = c.code
    BY <2>2 DEF StoreInv, OnConflict, Chunk, Id
  <2>5. /\ rows' \subseteq Chunk /\ IsFiniteSet(rows')
        /\ \A r, q \in rows' : Id(r) = Id(q) => r = q
        /\ CodesOf(rows', Id(c)) = {c.code}
        /\ \A i : i # Id(c) => Of(rows', i) = Of(rows, i)
    <3>1. CASE Of(rows, Id(c)) = {}
      <4>1. rows' = rows \cup {c} /\ \A r \in rows : Id(r) # Id(c)
        BY <2>1, <3>1 DEF Of
      <4>2. IsFiniteSet(rows')
        BY <4>1, FS_AddElement DEF StoreInv
      <4>3. Of(rows', Id(c)) = {c}
        BY <4>1 DEF Of
      <4>4. CodesOf(rows', Id(c)) = {c.code}
        BY <4>3 DEF CodesOf
      <4>5. \A i : i # Id(c) => Of(rows', i) = Of(rows, i)
        BY <4>1 DEF Of
      <4> QED
        BY <2>2, <4>1, <4>2, <4>4, <4>5 DEF StoreInv
    <3>2. CASE Of(rows, Id(c)) # {}
      <4>1. PICK old \in rows : Id(old) = Id(c)
        BY <3>2 DEF Of
      <4>2. \A r \in rows : Id(r) = Id(c) => r = old
        BY <4>1 DEF StoreInv
      <4> DEFINE new == OnConflict(old, c)
      <4>3. new \in Chunk /\ Id(new) = Id(c) /\ new.code = c.code
        BY <2>4, <4>1
      <4>4. rows' = {IF Id(r) = Id(c) THEN OnConflict(r, c) ELSE r : r \in rows}
        BY <2>1, <3>2
      <4>5. rows' = (rows \ {old}) \cup {new}
        BY <4>1, <4>2, <4>4
      <4> HIDE DEF new
      <4>6. IsFiniteSet(rows')
        <5>1. IsFiniteSet(rows \ {old})
          BY FS_RemoveElement DEF StoreInv
        <5> QED
          BY <4>5, <5>1, FS_AddElement
      <4>7. \A r \in rows \ {old} : Id(r) # Id(c)
        BY <4>2
      <4>8. Of(rows', Id(c)) = {new}
        BY <4>3, <4>5, <4>7 DEF Of
      <4>9. CodesOf(rows', Id(c)) = {c.code}
        BY <4>3, <4>8 DEF CodesOf
      <4>10. \A i : i # Id(c) => Of(rows', i) = Of(rows, i)
        BY <4>1, <4>3, <4>5 DEF Of
      <4>11. \A r, q \in rows' : Id(r) = Id(q) => r = q
        BY <4>3, <4>5, <4>7 DEF StoreInv
      <4>12. rows' \subseteq Chunk
        BY <4>3, <4>5 DEF StoreInv
      <4> QED
        BY <4>6, <4>9, <4>10, <4>11, <4>12
    <3> QED
      BY <3>1, <3>2
  <2>6. PendingIsThere'
    <3> SUFFICES ASSUME NEW k \in DOMAIN batch',
                        \A j \in DOMAIN batch' : k < j => Id(batch'[j]) # Id(batch'[k])
                 PROVE  batch'[k] \in Range(chunks)
      BY <1>1 DEF PendingIsThere
    <3>1. k + 1 \in DOMAIN batch /\ batch'[k] = batch[k + 1]
      BY <2>2
    <3>2. ASSUME NEW j \in DOMAIN batch, k + 1 < j
          PROVE  Id(batch[j]) # Id(batch[k + 1])
      <4>1. j # 1 /\ k < j - 1
        BY <2>3, <3>2
      <4> QED
        BY <2>2, <3>1, <4>1
    <3> QED
      BY <3>1, <3>2 DEF StoreInv, PendingIsThere
  <2>7. OthersAgree'
    <3> SUFFICES ASSUME NEW i \in Ids \ failed, \A k \in DOMAIN batch' : Id(batch'[k]) # i
                 PROVE  CodesOf(rows', i) = CodesOf(Range(chunks), i)
      BY <1>1, <2>1 DEF OthersAgree
    <3>1. \A k \in DOMAIN batch : k # 1 => Id(batch[k]) # i
      BY <2>2
    <3>2. CASE i = Id(c)
      <4>1. c \in Range(chunks)
        <5>1. \A j \in DOMAIN batch : 1 < j => Id(batch[j]) # Id(batch[1])
          BY <2>2, <3>1, <3>2
        <5> QED
          BY <2>2, <5>1 DEF StoreInv, PendingIsThere
      <4>2. Of(Range(chunks), i) = {c}
        BY <3>2, <4>1, TheOneOf DEF StoreInv, Lists
      <4>3. CodesOf(Range(chunks), i) = {c.code}
        BY <4>2 DEF CodesOf
      <4> QED
        BY <2>5, <3>2, <4>3
    <3>3. CASE i # Id(c)
      <4>1. CodesOf(rows, i) = CodesOf(Range(chunks), i)
        BY <2>2, <3>1, <3>3 DEF StoreInv, OthersAgree
      <4>2. Of(rows', i) = Of(rows, i)
        BY <2>5, <3>3
      <4> QED
        BY <4>1, <4>2 DEF CodesOf
    <3> QED
      BY <3>2, <3>3
  <2> QED
    BY <1>1, <2>1, <2>2, <2>5, <2>6, <2>7 DEF StoreInv
<1> QED
  BY <1>2, <1>3

\* Both forget a source, or one version of it.
LEMMA StoreDelete ==
  ASSUME StoreInv, Delete
  PROVE  /\ StoreInv'
         /\ \E scope \in Scopes : \A i \in Ids :
              Of(Range(chunks'), i) = IF From(i, scope) THEN {} ELSE Of(Range(chunks), i)
<1>1. PICK scope \in Scopes :
        /\ chunks' = Kept(chunks, {k \in DOMAIN chunks : ~From(Id(chunks[k]), scope)})
        /\ rows' = {c \in rows : ~From(Id(c), scope)}
        /\ failed' = {i \in failed : ~From(i, scope)}
  BY DEF Delete
<1>2. batch = <<>> /\ batch' = <<>>
  BY DEF Delete
<1> DEFINE at == {k \in DOMAIN chunks : ~From(Id(chunks[k]), scope)}
<1>3. chunks' \in Seq(Chunk) /\ OneEach(chunks') /\ Range(chunks') = {chunks[k] : k \in at}
  <2>1. at \in SUBSET (DOMAIN chunks) /\ chunks \in Seq(Chunk) /\ OneEach(chunks) /\ chunks' = Kept(chunks, at)
    BY <1>1 DEF StoreInv, Lists
  <2> HIDE DEF at
  <2> QED
    BY <2>1, KeptFacts
<1>4. Range(chunks') = {c \in Range(chunks) : ~From(Id(c), scope)}
  BY <1>3 DEF Range
<1>5. \A i : Of(Range(chunks'), i) = IF From(i, scope) THEN {} ELSE Of(Range(chunks), i)
  BY <1>4 DEF Of
<1>6. \A i : Of(rows', i) = IF From(i, scope) THEN {} ELSE Of(rows, i)
  BY <1>1 DEF Of
<1>7. OthersAgree'
  <2> SUFFICES ASSUME NEW i \in Ids \ failed'
               PROVE  CodesOf(rows', i) = CodesOf(Range(chunks'), i)
    BY DEF OthersAgree
  <2>1. CASE From(i, scope)
    BY <1>5, <1>6, <2>1 DEF CodesOf
  <2>2. CASE ~From(i, scope)
    <3>1. i \in Ids \ failed
      BY <1>1, <2>2
    <3>2. CodesOf(rows, i) = CodesOf(Range(chunks), i)
      BY <1>2, <3>1 DEF StoreInv, OthersAgree
    <3> QED
      BY <1>5, <1>6, <2>2, <3>2 DEF CodesOf
  <2> QED
    BY <2>1, <2>2
<1>8. rows' \subseteq rows /\ failed' \subseteq failed
  BY <1>1
<1>9. IsFiniteSet(rows')
  BY <1>8, FS_Subset DEF StoreInv
<1>10. PendingIsThere'
  BY <1>2 DEF PendingIsThere
<1>11. StoreInv'
  BY <1>2, <1>3, <1>7, <1>8, <1>9, <1>10 DEF StoreInv, Lists
<1> QED
  BY <1>5, <1>11

-----------------------------------------------------------------------------
(* The searches *)

\* A full-text or vector search of the list returns chunks of the list.
LEMMA StableTopFacts ==
  ASSUME NEW s \in Lists, NEW score \in [Codes -> Int], NEW n \in Nat
  PROVE  StableTop(s, score, n) \in Lists
<1> DEFINE x(i) == score[s[i].code]
           dom == DOMAIN s
           R == {p \in dom \X dom : Outranks(x(p[1]), x(p[2])) \/ (x(p[1]) = x(p[2]) /\ p[1] < p[2])}
<1>1. s \in Seq(Chunk) /\ OneEach(s) /\ dom \subseteq Nat
  BY DEF Lists
<1>2. \A i \in dom : x(i) \in Int
  <2> TAKE i \in dom
  <2>1. s[i] \in Chunk
    BY <1>1
  <2>2. s[i].code \in Codes
    BY <2>1 DEF Chunk
  <2> QED
    BY <2>2
<1>3. \A i, j : <<i, j>> \in R <=> i \in dom /\ j \in dom /\ (x(i) > x(j) \/ (x(i) = x(j) /\ i < j))
  BY DEF Outranks
<1>4. StableTop(s, score, n) = First(Picked(s, dom, R), n)
  BY DEF StableTop
<1> HIDE DEF R, x, dom
<1>5. Orders(R, dom)
  <2>1. \A i \in dom : <<i, i>> \notin R
    BY <1>1, <1>2, <1>3
  <2>2. \A i, j \in dom : i # j => <<i, j>> \in R \/ <<j, i>> \in R
    BY <1>1, <1>2, <1>3
  <2>3. \A i, j, k \in dom : <<i, j>> \in R /\ <<j, k>> \in R => <<i, k>> \in R
    BY <1>1, <1>2, <1>3
  <2> QED
    BY <2>1, <2>2, <2>3 DEF Orders
<1>6. Picked(s, dom, R) \in Lists
  <2>1. dom \in SUBSET (DOMAIN s)
    BY DEF dom
  <2>2. Picked(s, dom, R) \in Seq(Chunk) /\ OneEach(Picked(s, dom, R))
    BY <1>1, <1>5, <2>1, PickedKeeps
  <2> QED
    BY <2>2 DEF Lists
<1> DEFINE t == Picked(s, dom, R)
<1> HIDE DEF t
<1>7. t \in Seq(Chunk) /\ OneEach(t)
  BY <1>6 DEF t, Lists
<1>8. First(t, n) \in Seq(Chunk) /\ OneEach(First(t, n))
  BY <1>7, FirstFacts
<1> QED
  BY <1>4, <1>8 DEF t, Lists

LEMMA MemSearches ==
  ASSUME StoreInv, NEW f \in Filters, NEW n \in Nat
  PROVE  mem_bm25(f, n) \in Lists /\ mem_vector(f, n) \in Lists
<1>1. \A score, none : Seen(f, score, none) \in Lists
  <2> SUFFICES ASSUME NEW score, NEW none PROVE Seen(f, score, none) \in Lists
    OBVIOUS
  <2> DEFINE at == {k \in DOMAIN chunks : Passes(chunks[k], f) /\ score[chunks[k].code] # none}
  <2>1. at \in SUBSET (DOMAIN chunks) /\ Seen(f, score, none) = Kept(chunks, at)
    BY DEF Seen
  <2>2. chunks \in Seq(Chunk) /\ OneEach(chunks)
    BY DEF StoreInv, Lists
  <2> HIDE DEF at
  <2>3. Kept(chunks, at) \in Seq(Chunk) /\ OneEach(Kept(chunks, at))
    BY <2>1, <2>2, KeptFacts
  <2> QED
    BY <2>1, <2>3 DEF Lists
<1>2. Matches \in [Codes -> Int] /\ Similarity \in [Codes -> Int]
  BY StoreAssumption
<1> QED
  BY <1>1, <1>2, StableTopFacts DEF mem_bm25, mem_vector

\* A search of the table: rows, each once, at most n of them.
LEMMA AnyTopFacts ==
  ASSUME NEW S, S \subseteq Chunk, IsFiniteSet(S), \A r, q \in S : Id(r) = Id(q) => r = q,
         NEW score, NEW n \in Nat, NEW s \in AnyTop(S, score, n)
  PROVE  s \in Lists /\ Range(s) \subseteq S
<1> DEFINE m == Cardinality(S)
<1>1. PICK t \in [1..m -> S] : Range(t) = S /\ s = First(t, n)
  BY DEF AnyTop
<1>2. m \in Nat
  BY FS_CardinalityType
<1> HIDE DEF m
<1>3. t \in Surjection(1..m, S)
  BY <1>1 DEF Surjection, Range
<1>4. IsFiniteSet(1..m) /\ Cardinality(1..m) = Cardinality(S)
  BY <1>2, FS_Interval DEF m
<1>5. t \in Injection(1..m, S)
  BY <1>3, <1>4, FS_SurjSameCardinalityImpliesInj
<1>6. t \in Seq(Chunk) /\ DOMAIN t = 1..m
  BY <1>1, <1>2
<1>7. OneEach(t)
  BY <1>1, <1>5, <1>6 DEF OneEach, Injection, IsInjective
<1>8. First(t, n) \in Seq(Chunk) /\ OneEach(First(t, n)) /\ Range(First(t, n)) \subseteq Range(t)
  BY <1>6, <1>7, FirstFacts
<1> QED
  BY <1>1, <1>8 DEF Lists

LEMMA PgSearches ==
  ASSUME StoreInv, NEW f \in Filters, NEW n \in Nat, NEW s \in pg_bm25(f, n) \cup pg_vector(f, n)
  PROVE  s \in Lists /\ \A c \in Range(s) : Passes(c, f)
<1>1. ASSUME NEW score, NEW none, s \in AnyTop(Found(Rows(f), score, none), score, n)
      PROVE  s \in Lists /\ \A c \in Range(s) : Passes(c, f)
  <2> DEFINE S == Found(Rows(f), score, none)
  <2>1. S \subseteq rows /\ \A c \in S : Passes(c, f)
    BY DEF Found, Rows
  <2>2. IsFiniteSet(S) /\ S \subseteq Chunk /\ \A r, q \in S : Id(r) = Id(q) => r = q
    BY <2>1, FS_Subset DEF StoreInv
  <2> HIDE DEF S
  <2>3. s \in AnyTop(S, score, n)
    BY <1>1 DEF S
  <2>4. s \in Lists /\ Range(s) \subseteq S
    BY <2>2, <2>3, AnyTopFacts
  <2> QED
    BY <2>1, <2>4
<1> QED
  BY <1>1 DEF pg_bm25, pg_vector

-----------------------------------------------------------------------------
(* Fractions *)

\* Products of positive numbers: the order of one factor is that of the product.
LEMMA Times ==
  \A a, b, c \in Nat : c > 0 => (a > b <=> a * c > b * c)
OBVIOUS

\* a/b > c/d >= e/f, and a/b >= c/d >= e/f.
LEMMA CrossTimes ==
  ASSUME NEW a \in Nat, NEW b \in Nat, NEW c \in Nat, NEW d \in Nat, NEW e \in Nat, NEW f \in Nat,
         b > 0, d > 0, f > 0
  PROVE  /\ a * d > c * b /\ ~(e * d > c * f) => a * f > e * b
         /\ ~(c * b > a * d) /\ ~(e * d > c * f) => ~(e * b > a * f)
<1>1. /\ a * d \in Nat /\ c * b \in Nat /\ e * d \in Nat /\ c * f \in Nat
      /\ a * f \in Nat /\ e * b \in Nat
  OBVIOUS
<1>2. /\ a * d > c * b <=> (a * d) * f > (c * b) * f
      /\ c * b > a * d <=> (c * b) * f > (a * d) * f
      /\ e * d > c * f <=> (e * d) * b > (c * f) * b
      /\ a * f > e * b <=> (a * f) * d > (e * b) * d
      /\ e * b > a * f <=> (e * b) * d > (a * f) * d
  BY <1>1, Times
<1>3. /\ (c * b) * f = (c * f) * b /\ (a * d) * f = (a * f) * d /\ (e * d) * b = (e * b) * d
      /\ (c * f) * b \in Nat /\ (a * f) * d \in Nat /\ (e * b) * d \in Nat
  OBVIOUS
<1> DEFINE p == (c * f) * b
           q == (a * f) * d
           r == (e * b) * d
<1>4. /\ a * d > c * b <=> q > p
      /\ c * b > a * d <=> p > q
      /\ e * d > c * f <=> r > p
      /\ a * f > e * b <=> q > r
      /\ e * b > a * f <=> r > q
  BY <1>2, <1>3
<1>5. p \in Nat /\ q \in Nat /\ r \in Nat
  BY <1>3
<1> HIDE DEF p, q, r
<1> QED
  BY <1>4, <1>5

Fraction == {p \in Nat \X Nat : p[1] > 0 /\ p[2] > 0}

\* Exceeds compares fractions.
LEMMA ExceedsFacts ==
  /\ \A x \in Fraction : ~Exceeds(x, x)
  /\ \A x, y \in Fraction : Exceeds(x, y) => ~Exceeds(y, x)
  /\ \A x, y, z \in Fraction : Exceeds(x, y) /\ ~Exceeds(z, y) => Exceeds(x, z)
  /\ \A x, y, z \in Fraction : ~Exceeds(y, x) /\ ~Exceeds(z, y) => ~Exceeds(z, x)
<1>1. \A x, y : Exceeds(x, y) <=> x[1] * y[2] > y[1] * x[2]
  BY DEF Exceeds, Outranks
<1>2. \A x \in Fraction : x[1] \in Nat /\ x[2] \in Nat /\ x[2] > 0
  BY DEF Fraction
<1>3. \A x, y \in Fraction : x[1] * y[2] \in Nat
  BY <1>2
<1>4. \A x, y \in Fraction : Exceeds(x, y) => ~Exceeds(y, x)
  BY <1>1, <1>3
<1>5. ASSUME NEW x \in Fraction, NEW y \in Fraction, NEW z \in Fraction
      PROVE  /\ Exceeds(x, y) /\ ~Exceeds(z, y) => Exceeds(x, z)
             /\ ~Exceeds(y, x) /\ ~Exceeds(z, y) => ~Exceeds(z, x)
  BY <1>1, <1>2, CrossTimes
<1> QED
  BY <1>4, <1>5

-----------------------------------------------------------------------------
(* Fusion *)

LEMMA RankFacts ==
  ASSUME NEW s \in Lists, NEW i
  PROVE  /\ Rank(s, i) \in Nat
         /\ Rank(s, i) # 0 <=> \E k \in DOMAIN s : Id(s[k]) = i
         /\ \A k \in DOMAIN s : Id(s[k]) = i => Rank(s, i) = k /\ k # 0
<1>1. s \in Seq(Chunk) /\ OneEach(s)
  BY DEF Lists
<1>2. DOMAIN s \subseteq Nat \ {0}
  BY <1>1
<1>3. CASE \E k \in DOMAIN s : Id(s[k]) = i
  <2>1. Rank(s, i) \in DOMAIN s /\ Id(s[Rank(s, i)]) = i
    BY <1>3 DEF Rank
  <2>2. \A k \in DOMAIN s : Id(s[k]) = i => Rank(s, i) = k
    BY <1>1, <2>1 DEF OneEach
  <2> QED
    BY <1>2, <2>1, <2>2
<1>4. CASE ~\E k \in DOMAIN s : Id(s[k]) = i
  <2>1. Rank(s, i) = 0
    BY <1>4 DEF Rank
  <2> QED
    BY <1>4, <2>1
<1> QED
  BY <1>3, <1>4

LEMMA ShareIsFraction ==
  \A k, m \in Nat : Share(k, m) \in Fraction
<1> SUFFICES ASSUME NEW k \in Nat, NEW m \in Nat PROVE Share(k, m) \in Fraction
  OBVIOUS
<1>1. RrfK + k \in Nat /\ RrfK + k > 0 /\ RrfK + m \in Nat /\ RrfK + m > 0
  BY DEF RrfK
<1> DEFINE x == RrfK + k
           y == RrfK + m
<1> HIDE DEF x, y
<1>2. x \in Nat /\ x > 0 /\ y \in Nat /\ y > 0
  BY <1>1 DEF x, y
<1>3. x + y \in Nat /\ x + y > 0 /\ x * y \in Nat /\ x * y > 0
  BY <1>2
<1>4. Share(k, m) \in {<<1, y>>, <<1, x>>, <<x + y, x * y>>}
  BY DEF Share, x, y
<1> QED
  BY <1>2, <1>3, <1>4 DEF Fraction

\* What no list puts behind, and one puts before, has the greater share.
LEMMA BetterShare ==
  ASSUME NEW k1 \in Nat, NEW m1 \in Nat, NEW k2 \in Nat, NEW m2 \in Nat,
         k2 # 0 \/ m2 # 0,
         ~Behind(k2, k1), ~Behind(m2, m1), Behind(k1, k2) \/ Behind(m1, m2)
  PROVE  Exceeds(Share(k1, m1), Share(k2, m2))
<1> DEFINE K1 == RrfK + k1
           M1 == RrfK + m1
           K2 == RrfK + k2
           M2 == RrfK + m2
<1>1. /\ K1 \in Nat /\ K1 > 0 /\ M1 \in Nat /\ M1 > 0
      /\ K2 \in Nat /\ K2 > 0 /\ M2 \in Nat /\ M2 > 0
  BY DEF RrfK
<1>2. /\ k2 # 0 => k1 # 0 /\ k1 <= k2 /\ K1 <= K2
      /\ m2 # 0 => m1 # 0 /\ m1 <= m2 /\ M1 <= M2
      /\ Behind(k1, k2) /\ k2 # 0 => K1 < K2
      /\ Behind(m1, m2) /\ m2 # 0 => M1 < M2
  BY DEF Behind, RrfK
<1>3. \A x, y : Exceeds(x, y) <=> x[1] * y[2] > y[1] * x[2]
  BY DEF Exceeds, Outranks
<1>4. /\ Share(k1, m1) = IF k1 = 0 THEN <<1, M1>> ELSE IF m1 = 0 THEN <<1, K1>> ELSE <<K1 + M1, K1 * M1>>
      /\ Share(k2, m2) = IF k2 = 0 THEN <<1, M2>> ELSE IF m2 = 0 THEN <<1, K2>> ELSE <<K2 + M2, K2 * M2>>
  BY DEF Share
<1> HIDE DEF K1, M1, K2, M2
<1>5. CASE k1 = 0
  <2>1. k2 = 0 /\ m2 # 0 /\ m1 # 0 /\ M1 < M2
    BY <1>2, <1>5 DEF Behind
  <2>2. Share(k1, m1) = <<1, M1>> /\ Share(k2, m2) = <<1, M2>>
    BY <1>4, <1>5, <2>1
  <2> QED
    BY <1>1, <1>3, <2>1, <2>2
<1>6. CASE k1 # 0 /\ m1 = 0
  <2>1. m2 = 0 /\ k2 # 0 /\ K1 < K2
    BY <1>2, <1>6 DEF Behind
  <2>2. Share(k1, m1) = <<1, K1>> /\ Share(k2, m2) = <<1, K2>>
    BY <1>4, <1>6, <2>1
  <2> QED
    BY <1>1, <1>3, <2>1, <2>2
<1>7. CASE k1 # 0 /\ m1 # 0
  <2>1. Share(k1, m1) = <<K1 + M1, K1 * M1>>
    BY <1>4, <1>7
  <2>2. CASE k2 = 0
    <3>1. Share(k2, m2) = <<1, M2>> /\ M1 <= M2
      BY <1>2, <1>4, <2>2
    <3>2. (K1 + M1) * M2 > 1 * (K1 * M1)
      <4>1. K1 * M2 >= K1 * M1 /\ M1 * M2 > 0
        BY <1>1, <3>1
      <4> QED
        BY <1>1, <4>1
    <3> QED
      BY <1>3, <2>1, <3>1, <3>2
  <2>3. CASE k2 # 0 /\ m2 = 0
    <3>1. Share(k2, m2) = <<1, K2>> /\ K1 <= K2
      BY <1>2, <1>4, <2>3
    <3>2. (K1 + M1) * K2 > 1 * (K1 * M1)
      <4>1. M1 * K2 >= M1 * K1 /\ K1 * K2 > 0
        BY <1>1, <3>1
      <4> QED
        BY <1>1, <4>1
    <3> QED
      BY <1>3, <2>1, <3>1, <3>2
  <2>4. CASE k2 # 0 /\ m2 # 0
    <3>1. /\ Share(k2, m2) = <<K2 + M2, K2 * M2>>
          /\ K1 <= K2 /\ M1 <= M2 /\ (K1 < K2 \/ M1 < M2)
      BY <1>2, <1>4, <2>4
    <3>2. (K1 + M1) * (K2 * M2) > (K2 + M2) * (K1 * M1)
      <4> DEFINE p == K1 * K2
                 q == M1 * M2
      <4>1. p \in Nat /\ p > 0 /\ q \in Nat /\ q > 0
        BY <1>1
      <4>2. /\ (K1 + M1) * (K2 * M2) = p * M2 + q * K2
            /\ (K2 + M2) * (K1 * M1) = p * M1 + q * K1
        BY <1>1
      <4> HIDE DEF p, q
      <4>3. /\ p * M2 >= p * M1 /\ (M1 < M2 => p * M2 > p * M1)
            /\ q * K2 >= q * K1 /\ (K1 < K2 => q * K2 > q * K1)
        BY <1>1, <3>1, <4>1
      <4>4. p * M2 \in Nat /\ p * M1 \in Nat /\ q * K2 \in Nat /\ q * K1 \in Nat
        BY <1>1, <4>1
      <4> QED
        BY <3>1, <4>2, <4>3, <4>4
    <3> QED
      BY <1>3, <2>1, <3>1, <3>2
  <2> QED
    BY <2>2, <2>3, <2>4
<1> QED
  BY <1>5, <1>6, <1>7

\* The fused list: chunks of the two lists, each once, in an order both agree to.
LEMMA FuseFacts ==
  ASSUME NEW bm25 \in Lists, NEW vector \in Lists, NEW n \in Nat
  PROVE  /\ Fuse(bm25, vector, n) \in Lists
         /\ Len(Fuse(bm25, vector, n)) <= n
         /\ Range(Fuse(bm25, vector, n)) \subseteq Range(bm25) \cup Range(vector)
         /\ Respects(Fuse(bm25, vector, n), bm25, vector)
<1> DEFINE at == {k \in DOMAIN vector : Rank(bm25, Id(vector[k])) = 0}
           more == Kept(vector, at)
           all == bm25 \o more
           score(i) == Share(Rank(bm25, Id(all[i])), Rank(vector, Id(all[i])))
           R == {p \in (DOMAIN all) \X (DOMAIN all) :
                   \/ Exceeds(score(p[1]), score(p[2]))
                   \/ ~Exceeds(score(p[2]), score(p[1])) /\ p[1] < p[2]}
           line == Picked(all, DOMAIN all, R)
           out == Fuse(bm25, vector, n)
<1>1. out = First(line, n)
  BY DEF Fuse
<1>2. /\ bm25 \in Seq(Chunk) /\ OneEach(bm25)
      /\ vector \in Seq(Chunk) /\ OneEach(vector)
      /\ at \in SUBSET (DOMAIN vector)
  BY DEF Lists
<1>3. /\ more \in Seq(Chunk) /\ OneEach(more) /\ Range(more) = {vector[k] : k \in at}
  <2> HIDE DEF at
  <2> QED
    BY <1>2, KeptFacts
\* What is added has no id of the first list.
<1>4. \A c \in Range(more) : c \in Range(vector) /\ \A k \in DOMAIN bm25 : Id(bm25[k]) # Id(c)
  <2> TAKE c \in Range(more)
  <2>1. PICK k \in DOMAIN vector : c = vector[k] /\ Rank(bm25, Id(vector[k])) = 0
    BY <1>3
  <2> QED
    BY <2>1, RankFacts DEF Range
<1>5. \A c \in Range(vector) : c \in Range(more) \/ \E k \in DOMAIN bm25 : Id(bm25[k]) = Id(c)
  <2> TAKE c \in Range(vector)
  <2>1. PICK k \in DOMAIN vector : c = vector[k]
    BY DEF Range
  <2>2. CASE Rank(bm25, Id(vector[k])) = 0
    BY <1>3, <2>1, <2>2
  <2>3. CASE Rank(bm25, Id(vector[k])) # 0
    BY <2>1, <2>3, RankFacts
  <2> QED
    BY <2>2, <2>3
<1> HIDE DEF at, more
<1> DEFINE a == Len(bm25)
           m == Len(more)
<1>6. a \in Nat /\ m \in Nat /\ DOMAIN bm25 = 1..a /\ DOMAIN more = 1..m
  BY <1>2, <1>3
<1>7. /\ all \in Seq(Chunk) /\ Len(all) = a + m
      /\ \A i \in 1..(a + m) : all[i] = IF i <= a THEN bm25[i] ELSE more[i - a]
  BY <1>2, <1>3, ConcatProperties
<1> HIDE DEF a, m, all
<1>8. DOMAIN all = 1..(a + m)
  BY <1>7
<1>9. \A i \in 1..(a + m) : IF i <= a THEN i \in 1..a ELSE i - a \in 1..m
  BY <1>6
<1>10. OneEach(all)
  <2> SUFFICES ASSUME NEW i \in 1..(a + m), NEW j \in 1..(a + m), Id(all[i]) = Id(all[j])
               PROVE  i = j
    BY <1>8 DEF OneEach
  <2>1. CASE i <= a /\ j <= a
    BY <1>2, <1>6, <1>7, <1>9, <2>1 DEF OneEach
  <2>2. CASE i <= a /\ ~(j <= a)
    <3>1. i \in 1..a /\ all[i] = bm25[i] /\ all[j] = more[j - a] /\ j - a \in 1..m
      BY <1>7, <1>9, <2>2
    <3>2. more[j - a] \in Range(more)
      BY <1>6, <3>1 DEF Range
    <3> QED
      BY <1>4, <1>6, <3>1, <3>2
  <2>3. CASE ~(i <= a) /\ j <= a
    <3>1. j \in 1..a /\ all[j] = bm25[j] /\ all[i] = more[i - a] /\ i - a \in 1..m
      BY <1>7, <1>9, <2>3
    <3>2. more[i - a] \in Range(more)
      BY <1>6, <3>1 DEF Range
    <3> QED
      BY <1>4, <1>6, <3>1, <3>2
  <2>4. CASE ~(i <= a) /\ ~(j <= a)
    <3>1. all[i] = more[i - a] /\ all[j] = more[j - a] /\ i - a \in 1..m /\ j - a \in 1..m
      BY <1>7, <1>9, <2>4
    <3>2. i - a = j - a
      BY <1>3, <1>6, <3>1 DEF OneEach
    <3> QED
      BY <1>6, <3>2
  <2> QED
    BY <2>1, <2>2, <2>3, <2>4
<1>11. Range(all) = Range(bm25) \cup Range(more)
  <2>1. \A i \in 1..(a + m) : all[i] \in Range(bm25) \cup Range(more)
    BY <1>6, <1>7, <1>9 DEF Range
  <2>2. \A i \in 1..a : i \in 1..(a + m) /\ all[i] = bm25[i]
    BY <1>6, <1>7
  <2>3. \A i \in 1..m : i + a \in 1..(a + m) /\ all[i + a] = more[i]
    <3> TAKE i \in 1..m
    <3>1. i + a \in 1..(a + m) /\ ~(i + a <= a) /\ (i + a) - a = i
      BY <1>6
    <3> QED
      BY <1>7, <3>1
  <2> QED
    BY <1>6, <1>8, <2>1, <2>2, <2>3 DEF Range
<1> DEFINE dom == DOMAIN all
<1>12. \A i \in dom : score(i) \in Fraction
  BY RankFacts, ShareIsFraction
<1>13. \A i, j : <<i, j>> \in R <=> /\ i \in dom /\ j \in dom
                                    /\ \/ Exceeds(score(i), score(j))
                                       \/ ~Exceeds(score(j), score(i)) /\ i < j
  OBVIOUS
<1>14. dom \subseteq Nat
  BY <1>8
<1>15. \A i \in dom : score(i) = Share(Rank(bm25, Id(all[i])), Rank(vector, Id(all[i])))
  OBVIOUS
<1> HIDE DEF R, score, dom
<1>16. Orders(R, dom)
  <2>1. \A i \in dom : <<i, i>> \notin R
    BY <1>12, <1>13, <1>14, ExceedsFacts
  <2>2. \A i, j \in dom : i # j => <<i, j>> \in R \/ <<j, i>> \in R
    BY <1>13, <1>14
  <2>3. ASSUME NEW i \in dom, NEW j \in dom, NEW k \in dom, <<i, j>> \in R, <<j, k>> \in R
        PROVE  <<i, k>> \in R
    <3> DEFINE x == score(i)
               y == score(j)
               z == score(k)
    <3>1. x \in Fraction /\ y \in Fraction /\ z \in Fraction
      BY <1>12
    <3>2. /\ Exceeds(x, y) \/ (~Exceeds(y, x) /\ i < j)
          /\ Exceeds(y, z) \/ (~Exceeds(z, y) /\ j < k)
      BY <1>13, <2>3
    <3> HIDE DEF x, y, z
    <3>3. Exceeds(x, z) \/ (~Exceeds(z, x) /\ i < k)
      <4>1. CASE Exceeds(x, y)
        <5>1. ~Exceeds(z, y)
          BY <3>1, <3>2, ExceedsFacts
        <5> QED
          BY <3>1, <4>1, <5>1, ExceedsFacts
      <4>2. CASE ~Exceeds(x, y) /\ Exceeds(y, z)
        <5>1. Exceeds(x, z) \/ ~Exceeds(z, x)
          BY <3>1, <3>2, <4>2, ExceedsFacts
        <5>2. ~Exceeds(y, x)
          BY <3>2, <4>2
        <5>3. Exceeds(x, z)
          <6> SUFFICES ASSUME ~Exceeds(x, z) PROVE FALSE
            OBVIOUS
          <6>1. Exceeds(y, x)
            BY <3>1, <4>2, ExceedsFacts
          <6> QED
            BY <5>2, <6>1
        <5> QED
          BY <5>3
      <4>3. CASE ~Exceeds(x, y) /\ ~Exceeds(y, z)
        <5>1. ~Exceeds(y, x) /\ ~Exceeds(z, y) /\ i < j /\ j < k
          BY <3>2, <4>3
        <5>2. ~Exceeds(z, x)
          BY <3>1, <5>1, ExceedsFacts
        <5> QED
          BY <1>14, <5>1, <5>2
      <4> QED
        BY <4>1, <4>2, <4>3
    <3> QED
      BY <1>13, <3>3 DEF x, z
  <2> QED
    BY <2>1, <2>2, <2>3 DEF Orders
<1>17. /\ line \in Seq(Chunk) /\ Range(line) = {all[k] : k \in dom} /\ OneEach(line)
  <2>1. line = Picked(all, dom, R) /\ dom \in SUBSET (DOMAIN all)
    BY DEF dom
  <2> HIDE DEF line
  <2> QED
    BY <1>7, <1>10, <1>16, <2>1, PickedKeeps
<1> DEFINE len == Cardinality(dom)
<1>18. PICK t \in [1..len -> dom] :
         /\ Follow(t, len, R)
         /\ \A i \in 1..len : line[i] = all[t[i]]
         /\ \A x \in dom : \E i \in 1..len : t[i] = x
  <2>1. line = Picked(all, dom, R) /\ dom \in SUBSET (DOMAIN all)
    BY DEF dom
  <2> HIDE DEF line
  <2> QED
    BY <1>7, <1>16, <2>1, PickedIs
<1>19. DOMAIN line = 1..len /\ len \in Nat
  <2>1. line = Picked(all, dom, R) /\ dom \in SUBSET (DOMAIN all)
    BY DEF dom
  <2> HIDE DEF line
  <2> QED
    BY <1>7, <1>16, <2>1, PickedIs
<1> HIDE DEF line, len, out
<1>20. /\ out \in Seq(Chunk) /\ Len(out) <= n /\ OneEach(out) /\ Range(out) \subseteq Range(line)
       /\ DOMAIN out = 1..Len(out)
       /\ \A i \in DOMAIN out : i \in DOMAIN line /\ out[i] = line[i]
  BY <1>1, <1>17, FirstFacts
<1>21. out \in Lists
  BY <1>20 DEF Lists
<1>22. Range(out) \subseteq Range(bm25) \cup Range(vector)
  <2>1. Range(line) = Range(all)
    BY <1>17 DEF Range, dom
  <2> QED
    BY <1>4, <1>11, <1>20, <2>1
<1>23. Respects(out, bm25, vector)
  <2> SUFFICES ASSUME NEW c \in Range(bm25) \cup Range(vector), NEW d \in Range(bm25) \cup Range(vector),
                      Rank(out, Id(d)) # 0, Better(Id(c), Id(d), bm25, vector)
               PROVE  Behind(Rank(out, Id(c)), Rank(out, Id(d)))
    BY DEF Respects
  \* Where c and d are in the fused list.
  <2>1. \A e \in Range(bm25) \cup Range(vector) : \E i \in dom : Id(all[i]) = Id(e)
    <3> TAKE e \in Range(bm25) \cup Range(vector)
    <3>1. \E g \in Range(all) : Id(g) = Id(e)
      BY <1>5, <1>11 DEF Range
    <3> QED
      BY <3>1 DEF Range, dom
  <2>2. PICK q \in DOMAIN out : Id(out[q]) = Id(d)
    BY <1>21, RankFacts
  <2>3. q \in 1..len /\ Rank(out, Id(d)) = q /\ q # 0 /\ out[q] = all[t[q]]
    BY <1>18, <1>19, <1>20, <1>21, <2>2, RankFacts
  <2>4. PICK i \in dom : Id(all[i]) = Id(c)
    BY <2>1
  <2>5. PICK p \in 1..len : t[p] = i
    BY <1>18
  <2> DEFINE j == t[q]
  <2>6. j \in dom /\ Id(all[j]) = Id(d)
    BY <1>18, <2>2, <2>3
  <2> HIDE DEF j
  <2>7. Exceeds(score(i), score(j))
    <3> DEFINE k1 == Rank(bm25, Id(c))
               m1 == Rank(vector, Id(c))
               k2 == Rank(bm25, Id(d))
               m2 == Rank(vector, Id(d))
    <3>1. k1 \in Nat /\ m1 \in Nat /\ k2 \in Nat /\ m2 \in Nat
      BY RankFacts
    <3>2. k2 # 0 \/ m2 # 0
      <4>1. (\E k \in DOMAIN bm25 : bm25[k] = d) \/ (\E k \in DOMAIN vector : vector[k] = d)
        BY DEF Range
      <4> QED
        BY <4>1, RankFacts
    <3>3. ~Behind(k2, k1) /\ ~Behind(m2, m1) /\ (Behind(k1, k2) \/ Behind(m1, m2))
      BY DEF Better
    <3>4. score(i) = Share(k1, m1) /\ score(j) = Share(k2, m2)
      BY <1>15, <2>4, <2>6
    <3> HIDE DEF k1, m1, k2, m2
    <3> QED
      BY <3>1, <3>2, <3>3, <3>4, BetterShare
  <2>8. <<i, j>> \in R /\ <<j, i>> \notin R /\ i # j
    <3>1. ~Exceeds(score(j), score(i)) /\ i # j
      BY <1>12, <2>6, <2>7, ExceedsFacts
    <3> QED
      BY <1>13, <2>6, <2>7, <3>1
  <2>9. p < q
    <3>1. p # q
      BY <2>5, <2>8 DEF j
    <3>2. ~(q < p)
      BY <1>18, <2>3, <2>5, <2>8 DEF Follow, j
    <3> QED
      BY <1>19, <2>3, <3>1, <3>2
  <2>10. p \in DOMAIN out /\ Id(out[p]) = Id(c)
    <3>1. q <= Len(out) /\ p \in 1..Len(out)
      BY <1>19, <1>20, <2>2, <2>9
    <3> QED
      BY <1>18, <1>20, <2>4, <2>5, <3>1
  <2>11. Rank(out, Id(c)) = p /\ p # 0
    BY <1>21, <2>10, RankFacts
  <2> QED
    BY <2>3, <2>9, <2>11 DEF Behind
<1> QED
  BY <1>20, <1>21, <1>22, <1>23 DEF out

-----------------------------------------------------------------------------
(* The hybrid search of the table *)

Readers == [phase : {"idle", "bm25", "answered"}, filter : SUBSET Filters, top_k : Nat,
            bm25 : Seq(Chunk), vector : Seq(Chunk), answer : Seq(Chunk)]

Clean(s, f) == s \in Lists /\ \A c \in Range(s) : Passes(c, f)

\* What a search has got so far is clean, whatever became of the rows since.
ReaderInv ==
  /\ reader \in Readers
  /\ reader.phase # "idle" => \A f \in reader.filter : Clean(reader.bm25, f)
  /\ reader.phase # "idle" => \E f \in Filters : reader.filter = {f}
  /\ reader.phase = "answered" =>
       /\ \A f \in reader.filter : Clean(reader.vector, f)
       /\ reader.answer = Fuse(reader.bm25, reader.vector, reader.top_k)

VSInv == StoreInv /\ ReaderInv /\ written \in Nat /\ deletes \in Nat

LEMMA ReaderIdle == NoSearch \in Readers /\ NoSearch.phase = "idle"
<1>1. <<>> \in Seq(Chunk) /\ {} \in SUBSET Filters /\ 0 \in Nat
  OBVIOUS
<1> QED
  BY <1>1 DEF NoSearch, Readers

LEMMA ReaderInit == Init => ReaderInv
BY ReaderIdle DEF Init, ReaderInv

LEMMA ReaderQueryBm25 == VSInv /\ QueryBm25 => ReaderInv'
<1> SUFFICES ASSUME VSInv, QueryBm25 PROVE ReaderInv'
  OBVIOUS
<1>1. PICK f \in Filters, n \in TopK : \E s \in pg_bm25(f, 2 * n) :
        reader' = [NoSearch EXCEPT !.phase = "bm25", !.filter = {f}, !.top_k = n, !.bm25 = s]
  BY DEF QueryBm25
<1>2. PICK s \in pg_bm25(f, 2 * n) :
        reader' = [NoSearch EXCEPT !.phase = "bm25", !.filter = {f}, !.top_k = n, !.bm25 = s]
  BY <1>1
<1>3. n \in Nat /\ 2 * n \in Nat
  BY StoreAssumption
<1>4. Clean(s, f)
  BY <1>3, PgSearches DEF VSInv, Clean
<1>5. s \in Seq(Chunk)
  BY <1>4 DEF Clean, Lists
<1>6. reader' = [phase |-> "bm25", filter |-> {f}, top_k |-> n, bm25 |-> s, vector |-> <<>>, answer |-> <<>>]
  BY <1>2 DEF NoSearch
<1>7. <<>> \in Seq(Chunk) /\ {f} \in SUBSET Filters
  OBVIOUS
<1> QED
  BY <1>3, <1>4, <1>5, <1>6, <1>7 DEF ReaderInv, Readers

LEMMA ReaderQueryVector == VSInv /\ QueryVector => ReaderInv'
<1> SUFFICES ASSUME VSInv, QueryVector PROVE ReaderInv'
  OBVIOUS
<1> DEFINE n == reader.top_k
<1>1. PICK f \in reader.filter : \E s \in pg_vector(f, 2 * n) :
        reader' = [reader EXCEPT !.phase = "answered", !.vector = s, !.answer = Fuse(reader.bm25, s, n)]
  BY DEF QueryVector
<1>2. PICK s \in pg_vector(f, 2 * n) :
        reader' = [reader EXCEPT !.phase = "answered", !.vector = s, !.answer = Fuse(reader.bm25, s, n)]
  BY <1>1
<1>3. /\ reader \in Readers
      /\ reader.phase = "bm25" /\ \A g \in reader.filter : Clean(reader.bm25, g)
      /\ \E g \in Filters : reader.filter = {g}
  BY DEF VSInv, ReaderInv, QueryVector
<1>4. f \in Filters /\ reader.filter = {f} /\ n \in Nat /\ 2 * n \in Nat
  BY <1>3 DEF Readers
<1>5. Clean(reader.bm25, f) /\ Clean(s, f)
  BY <1>3, <1>4, PgSearches DEF VSInv, Clean
<1> DEFINE out == Fuse(reader.bm25, s, n)
<1>6. out \in Seq(Chunk) /\ s \in Seq(Chunk)
  BY <1>4, <1>5, FuseFacts DEF Clean, Lists
<1>7. /\ reader'.phase = "answered" /\ reader'.filter = reader.filter /\ reader'.top_k = n
      /\ reader'.bm25 = reader.bm25 /\ reader'.vector = s /\ reader'.answer = out
  BY <1>2, <1>3 DEF Readers
<1> HIDE DEF out
<1>8. reader' \in Readers
  BY <1>2, <1>3, <1>6 DEF out, Readers
<1> QED
  BY <1>3, <1>4, <1>5, <1>7, <1>8 DEF ReaderInv, out

LEMMA VSInit == Init => VSInv
BY StoreInit, ReaderInit DEF VSInv, Init

LEMMA VSNext == VSInv /\ [Next]_vars => VSInv'
<1> SUFFICES ASSUME VSInv, [Next]_vars PROVE VSInv'
  OBVIOUS
<1>1. ASSUME UNCHANGED reader PROVE ReaderInv'
  BY <1>1 DEF VSInv, ReaderInv
<1>2. ASSUME UNCHANGED <<chunks, rows, batch, failed>> PROVE StoreInv'
  BY <1>2 DEF VSInv, StoreInv, PendingIsThere, OthersAgree
<1>3. CASE Upsert
  <2>1. written' \in Nat /\ UNCHANGED <<reader, deletes>>
    BY <1>3 DEF VSInv, Upsert
  <2> QED
    BY <1>1, <1>3, <2>1, StoreUpsert DEF VSInv
<1>4. CASE InsertRow
  BY <1>1, <1>4, StoreInsertRow DEF VSInv, InsertRow
<1>5. CASE Break
  <2>1. StoreInv'
    BY <1>5, StoreGivenUp DEF VSInv, Break
  <2> QED
    BY <1>1, <1>5, <2>1 DEF VSInv, Break
<1>6. CASE Delete
  <2>1. StoreInv'
    BY <1>6, StoreDelete DEF VSInv
  <2> QED
    BY <1>1, <1>6, <2>1 DEF VSInv, Delete
<1>7. CASE QueryBm25
  BY <1>2, <1>7, ReaderQueryBm25 DEF VSInv, QueryBm25
<1>8. CASE QueryVector
  BY <1>2, <1>8, ReaderQueryVector DEF VSInv, QueryVector
<1>9. CASE Answer
  <2>1. ReaderInv'
    BY <1>9, ReaderIdle DEF Answer, ReaderInv
  <2> QED
    BY <1>2, <1>9, <2>1 DEF VSInv, Answer
<1>10. CASE UNCHANGED vars
  BY <1>1, <1>2, <1>10 DEF VSInv, vars
<1> QED
  BY <1>3, <1>4, <1>5, <1>6, <1>7, <1>8, <1>9, <1>10 DEF Next

\* What holds of the stores and the search in every state.
THEOREM VSSafe == Spec => []VSInv
<1> QED
  BY VSInit, VSNext, PTL DEF Spec

-----------------------------------------------------------------------------
(* What follows *)

\* Everything keeps its type.
THEOREM Types == Spec => []TypeOK
<1>1. VSInv => TypeOK
  BY DEF VSInv, StoreInv, ReaderInv, Readers, Lists, TypeOK
<1> QED
  BY <1>1, VSSafe, PTL

\* Between batches, table and list hold the same code for every id the table did
\* not refuse, however long the batches are and whatever was deleted.
THEOREM Agree == Spec => []StoresAgree
<1>1. VSInv => StoresAgree
  <2> SUFFICES ASSUME VSInv, batch = <<>>, NEW i \in Ids \ failed
               PROVE  {r.code : r \in Of(rows, i)} = {c.code : c \in Of(Range(chunks), i)}
    BY DEF StoresAgree
  <2>1. DOMAIN batch = {}
    OBVIOUS
  <2>2. CodesOf(rows, i) = CodesOf(Range(chunks), i)
    BY <2>1 DEF VSInv, StoreInv, OthersAgree
  <2> QED
    BY <2>2 DEF CodesOf
<1> QED
  BY <1>1, VSSafe, PTL

\* A hybrid answer never puts a chunk behind one that neither search puts before
\* it and one puts behind it, for lists of any length: the scores are compared as
\* the fractions they are.
THEOREM Respectful == Spec => []HybridRespectsBoth
<1>1. VSInv => HybridRespectsBoth
  <2> SUFFICES ASSUME VSInv PROVE HybridRespectsBoth
    OBVIOUS
  <2>1. ASSUME NEW f \in Filters, NEW n \in TopK
        PROVE  Respects(mem_hybrid(f, n), mem_bm25(f, 2 * n), mem_vector(f, 2 * n))
    <3>1. n \in Nat /\ 2 * n \in Nat
      BY StoreAssumption
    <3>2. mem_bm25(f, 2 * n) \in Lists /\ mem_vector(f, 2 * n) \in Lists
      BY <3>1, MemSearches DEF VSInv
    <3> QED
      BY <3>1, <3>2, FuseFacts DEF mem_hybrid
  <2>2. ASSUME reader.phase = "answered"
        PROVE  Respects(reader.answer, reader.bm25, reader.vector)
    <3>1. PICK f \in Filters : reader.filter = {f}
      BY <2>2 DEF VSInv, ReaderInv
    <3>2. /\ reader.bm25 \in Lists /\ reader.vector \in Lists /\ reader.top_k \in Nat
          /\ reader.answer = Fuse(reader.bm25, reader.vector, reader.top_k)
      BY <2>2, <3>1 DEF VSInv, ReaderInv, Readers, Clean
    <3> QED
      BY <3>2, FuseFacts
  <2> QED
    BY <2>1, <2>2 DEF HybridRespectsBoth
<1> QED
  BY <1>1, VSSafe, PTL

\* The answer of a search of the table has no chunk twice and none of another
\* configuration, version or kind, whatever is written between its two queries.
THEOREM AnswersClean == Spec => []AnswersAreClean
<1>1. VSInv => AnswersAreClean
  <2> SUFFICES ASSUME VSInv, reader.phase = "answered"
               PROVE  /\ Cardinality({Id(c) : c \in Range(reader.answer)}) = Len(reader.answer)
                      /\ \A c \in Range(reader.answer) : \A f \in reader.filter : Passes(c, f)
    BY DEF AnswersAreClean
  <2> DEFINE out == reader.answer
  <2>1. PICK f \in Filters : reader.filter = {f}
    BY DEF VSInv, ReaderInv
  <2>2. /\ Clean(reader.bm25, f) /\ Clean(reader.vector, f) /\ reader.top_k \in Nat
        /\ out = Fuse(reader.bm25, reader.vector, reader.top_k)
    BY <2>1 DEF VSInv, ReaderInv, Readers
  <2> HIDE DEF out
  <2>3. out \in Lists /\ Range(out) \subseteq Range(reader.bm25) \cup Range(reader.vector)
    BY <2>2, FuseFacts DEF Clean
  <2>4. \A c \in Range(out) : Passes(c, f)
    BY <2>2, <2>3 DEF Clean
  <2>5. Cardinality({Id(c) : c \in Range(out)}) = Len(out)
    <3> DEFINE n == Len(out)
               S == {Id(c) : c \in Range(out)}
               t == [k \in 1..n |-> Id(out[k])]
    <3>1. n \in Nat /\ DOMAIN out = 1..n
      BY <2>3 DEF Lists
    <3> HIDE DEF n
    <3>2. \A i, j \in 1..n : t[i] = t[j] => i = j
      BY <2>3, <3>1 DEF Lists, OneEach
    <3>3. t \in [1..n -> S] /\ \A x \in S : \E k \in 1..n : t[k] = x
      BY <3>1 DEF Range
    <3> HIDE DEF t, S
    <3>4. t \in Bijection(1..n, S)
      BY <3>2, <3>3 DEF Bijection, Injection, Surjection, IsInjective
    <3>5. IsFiniteSet(1..n) /\ Cardinality(1..n) = n
      BY <3>1, FS_Interval
    <3>6. Cardinality(S) = Cardinality(1..n)
      BY <3>4, <3>5, FS_Bijection DEF ExistsBijection
    <3> QED
      BY <3>5, <3>6 DEF S, n
  <2> QED
    BY <2>1, <2>4, <2>5 DEF out
<1> QED
  BY <1>1, VSSafe, PTL

-----------------------------------------------------------------------------
(* The list implements the promised map *)

LEMMA MapInit == Init => Abstract!Init
<1> SUFFICES ASSUME Init PROVE Abstract!Init
  OBVIOUS
<1>1. \A i : Of(Range(chunks), i) = {}
  BY DEF Init, Of, Range
<1> QED
  BY <1>1 DEF Abstract!Init

LEMMA MapUpsert == StoreInv /\ Upsert => Abstract!Upsert
<1> SUFFICES ASSUME StoreInv, Upsert PROVE Abstract!Upsert
  OBVIOUS
<1>1. PICK n \in 1..MaxBatch : \E b \in [1..n -> Chunk] : chunks' = UpsertAll(chunks, b) /\ batch' = b
  BY DEF Upsert
<1>2. PICK b \in [1..n -> Chunk] : chunks' = UpsertAll(chunks, b) /\ batch' = b
  BY <1>1
<1>3. n \in Nat
  BY StoreAssumption
<1>4. b \in Seq(Chunk) /\ Len(b) = n /\ DOMAIN b = 1..n /\ \A k \in 1..n : b[k] \in Chunk
  BY <1>3
<1>5. chunks' \in Lists /\ Written(chunks', chunks, b, n)
  BY <1>2, <1>4, UpsertAllFacts DEF StoreInv
<1>6. ASSUME NEW k \in 1..n, \A j \in 1..n : k < j => Id(b[j]) # Id(b[k])
      PROVE  Id(b[k]) \in Ids /\ Of(Range(chunks'), Id(b[k])) = {b[k]}
  <2>1. b[k] \in Range(chunks')
    BY <1>5, <1>6 DEF Written
  <2> QED
    BY <1>4, <1>5, <2>1, TheOneOf, IdsOfChunks DEF Lists
<1>7. ASSUME NEW i \in Ids, \A k \in 1..n : Id(b[k]) # i
      PROVE  Of(Range(chunks'), i) = Of(Range(chunks), i)
  BY <1>5, <1>7 DEF Written
<1> QED
  BY <1>2, <1>4, <1>6, <1>7 DEF Abstract!Upsert, Abstract!Last

LEMMA MapDelete == StoreInv /\ Delete => \E scope \in Scopes : Abstract!Delete(scope)
<1> SUFFICES ASSUME StoreInv, Delete PROVE \E scope \in Scopes : Abstract!Delete(scope)
  OBVIOUS
<1>1. PICK scope \in Scopes : \A i \in Ids :
        Of(Range(chunks'), i) = IF From(i, scope) THEN {} ELSE Of(Range(chunks), i)
  BY StoreDelete
<1>2. Abstract!Delete(scope)
  BY <1>1 DEF Abstract!Delete
<1> QED
  BY <1>2

\* InMemoryVectorStore keeps VectorStoreProtocol's promise: its list is a map from
\* ids to chunks, of which upsert_chunks replaces and delete_by_source removes.
THEOREM Implements == Spec => ImplementsStore
<1>1. VSInv /\ [Next]_vars =>
        [Abstract!Upsert \/ \E scope \in Scopes : Abstract!Delete(scope)]_[i \in Ids |-> Of(Range(chunks), i)]
  <2> SUFFICES ASSUME VSInv, [Next]_vars
               PROVE  \/ Abstract!Upsert \/ \E scope \in Scopes : Abstract!Delete(scope)
                      \/ UNCHANGED [i \in Ids |-> Of(Range(chunks), i)]
    OBVIOUS
  <2>1. CASE Upsert
    BY <2>1, MapUpsert DEF VSInv
  <2>2. CASE Delete
    BY <2>2, MapDelete DEF VSInv
  <2>3. CASE UNCHANGED chunks
    BY <2>3
  <2>4. Upsert \/ Delete \/ UNCHANGED chunks
    BY DEF Next, InsertRow, Break, QueryBm25, QueryVector, Answer, vars
  <2> QED
    BY <2>1, <2>2, <2>3, <2>4
<1> QED
  BY <1>1, MapInit, VSSafe, PTL DEF Spec, ImplementsStore, Abstract!Spec

=============================================================================
