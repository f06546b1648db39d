----------------------------- MODULE QueueLemmas -----------------------------
(***************************************************************************)
(* Facts about queues that the proofs about every component need: what     *)
(* inserting, unlinking and filtering entries does to the members of a     *)
(* queue, to their order, and to each entry being in it once; and about    *)
(* the system time and the timer queue, which several components share: an *)
(* addition in two words is an addition, the comparison of two words is a  *)
(* comparison of times, and the queue stays in order of time whatever is   *)
(* connected and disconnected.                                             *)
(***************************************************************************)
EXTENDS Queue, TimerQueue, FiniteSets, TLAPS,
        SequenceTheorems, FiniteSetTheorems, WellFoundedInduction

(* No entry occurs twice. *)
Once(q) == \A i, j \in 1..Len(q) : q[i] = q[j] => i = j

(* No entry that belongs to S occurs twice. *)
OnceIn(q, S) == \A i, j \in 1..Len(q) : q[i] = q[j] /\ q[i] \in S => i = j

(* The entries come in the order of their keys. *)
Ordered(q, key) == \A i, j \in 1..Len(q) : i < j => key[q[i]] <= key[q[j]]

-----------------------------------------------------------------------------
(* NATURAL NUMBERS                                                         *)

(* A set of numbers that is not empty has a least one. *)
LEMMA LeastOf ==
    ASSUME NEW T \in SUBSET Nat, T # {}
    PROVE  \E k \in T : \A j \in T : k <= j
<1> DEFINE R == OpToRel(<, Nat)
<1>1. IsWellFoundedOn(R, Nat)
      BY NatLessThanWellFounded
<1>2. \A x, y \in Nat : x < y => <<x, y>> \in R
      BY DEF OpToRel
<1> HIDE DEF R
<1>3. PICK k \in T : \A y \in T : ~(<<y, k>> \in R)
      BY <1>1, WFMin
<1>4. ASSUME NEW j \in T PROVE k <= j
  <2>1. ~(j < k) BY <1>2, <1>3
  <2>2. j \in Nat /\ k \in Nat OBVIOUS
  <2> QED BY <2>1, <2>2
<1> QED BY <1>4

(* Induction, about a set of numbers instead of an operator. *)
LEMMA SetInduction ==
    ASSUME NEW S \in SUBSET Nat, 0 \in S, \A n \in S : n + 1 \in S
    PROVE  S = Nat
<1> SUFFICES ASSUME S # Nat PROVE FALSE
    OBVIOUS
<1>1. PICK k \in Nat \ S : \A j \in Nat \ S : k <= j
      BY LeastOf, Nat \ S # {}, Nat \ S \in SUBSET Nat
<1>2. k # 0 OBVIOUS
<1>3. k - 1 \in Nat /\ (k - 1) + 1 = k BY <1>2
<1>4. ~(k <= k - 1) OBVIOUS
<1>5. k - 1 \in S BY <1>1, <1>3, <1>4
<1> QED BY <1>5, <1>3

(* Among n positions there is a first one in T, or the one behind them. *)
LEMMA FirstPosition ==
    ASSUME NEW n \in Nat, NEW T
    PROVE  \E k \in 1..(n + 1) : /\ \A i \in 1..(k - 1) : i \notin T
                                 /\ k <= n => k \in T
<1> DEFINE U == {i \in 1..(n + 1) : i \in T \/ i = n + 1}
<1>1. U \in SUBSET Nat /\ U # {}
  <2>1. n + 1 \in U OBVIOUS
  <2> QED BY <2>1
<1>2. PICK k \in U : \A j \in U : k <= j
      BY <1>1, LeastOf
<1>3. ASSUME NEW i \in 1..(k - 1) PROVE i \notin T
  <2>1. i \in 1..(n + 1) /\ ~(k <= i) OBVIOUS
  <2> QED BY <1>2, <2>1
<1>4. k <= n => k \in T
      OBVIOUS
<1> QED BY <1>3, <1>4

-----------------------------------------------------------------------------
(* INSERTING AND REMOVING AT A POSITION                                    *)

LEMMA InsertAtFacts ==
    ASSUME NEW S, NEW q \in Seq(S), NEW x \in S, NEW k \in 1..(Len(q) + 1)
    PROVE  /\ InsertAt(q, k, x) \in Seq(S)
           /\ Len(InsertAt(q, k, x)) = Len(q) + 1
           /\ \A i \in 1..(Len(q) + 1) :
                 InsertAt(q, k, x)[i] = IF i < k THEN q[i] ELSE IF i = k THEN x ELSE q[i - 1]
<1> DEFINE a == SubSeq(q, 1, k - 1)
           b == SubSeq(q, k, Len(q))
<1>0. Len(q) \in Nat BY LenProperties
<1>1. /\ a \in Seq(S) /\ Len(a) = k - 1
      /\ \A i \in 1..(k - 1) : a[i] = q[i]
  <2>1. CASE k = 1
        BY <2>1, <1>0, SubSeqProperties
  <2>2. CASE k # 1
    <3>1. k - 1 \in 1..Len(q) BY <2>2, <1>0
    <3> QED BY <3>1, <1>0, SubSeqProperties
  <2> QED BY <2>1, <2>2
<1>2. /\ b \in Seq(S) /\ Len(b) = Len(q) - k + 1
      /\ \A i \in 1..(Len(q) - k + 1) : b[i] = q[k + i - 1]
  <2>1. CASE k = Len(q) + 1
    <3>1. b = <<>> BY <2>1, <1>0, SubSeqEmpty
    <3> QED BY <3>1, <2>1, <1>0
  <2>2. CASE k # Len(q) + 1
    <3>1. k \in 1..Len(q) BY <2>2, <1>0
    <3> QED BY <3>1, <1>0, SubSeqProperties
  <2> QED BY <2>1, <2>2
<1>3. InsertAt(q, k, x) = (a \o <<x>>) \o b
      BY DEF InsertAt
<1>4. <<x>> \in Seq(S) /\ Len(<<x>>) = 1 /\ <<x>>[1] = x
      OBVIOUS
<1> HIDE DEF a, b
<1> DEFINE c == a \o <<x>>
<1>5. /\ c \in Seq(S) /\ Len(c) = k
      /\ \A i \in 1..k : c[i] = IF i < k THEN q[i] ELSE x
  <2>1. /\ c \in Seq(S) /\ Len(c) = k - 1 + 1
        /\ \A i \in 1..(k - 1 + 1) : c[i] = IF i <= k - 1 THEN a[i] ELSE <<x>>[i - (k - 1)]
        BY <1>1, <1>4, ConcatProperties
  <2>2. k - 1 + 1 = k BY <1>0
  <2>3. ASSUME NEW i \in 1..k PROVE c[i] = IF i < k THEN q[i] ELSE x
    <3>1. CASE i < k
      <4>1. i \in 1..(k - 1) /\ i \in 1..(k - 1 + 1) BY <3>1
      <4> QED BY <4>1, <3>1, <2>1, <1>1
    <3>2. CASE ~(i < k)
      <4>1. i = k /\ i - (k - 1) = 1 /\ ~(i <= k - 1) /\ i \in 1..(k - 1 + 1) BY <3>2
      <4> QED BY <4>1, <3>2, <2>1, <1>4
    <3> QED BY <3>1, <3>2
  <2> QED BY <2>1, <2>2, <2>3
<1> HIDE DEF c
<1>6. /\ c \o b \in Seq(S) /\ Len(c \o b) = k + (Len(q) - k + 1)
      /\ \A i \in 1..(k + (Len(q) - k + 1)) : (c \o b)[i] = IF i <= k THEN c[i] ELSE b[i - k]
      BY <1>2, <1>5, ConcatProperties
<1>7. k + (Len(q) - k + 1) = Len(q) + 1 BY <1>0
<1>8. ASSUME NEW i \in 1..(Len(q) + 1)
      PROVE  (c \o b)[i] = IF i < k THEN q[i] ELSE IF i = k THEN x ELSE q[i - 1]
  <2>1. CASE i <= k
    <3>1. i \in 1..k BY <2>1
    <3> QED BY <2>1, <3>1, <1>5, <1>6, <1>7
  <2>2. CASE ~(i <= k)
    <3>1. i - k \in 1..(Len(q) - k + 1) /\ k + (i - k) - 1 = i - 1 /\ ~(i < k) /\ i # k
          BY <2>2, <1>0
    <3> QED BY <2>2, <3>1, <1>2, <1>6, <1>7
  <2> QED BY <2>1, <2>2
<1> QED BY <1>3, <1>6, <1>7, <1>8 DEF c

LEMMA RemoveAtFacts ==
    ASSUME NEW S, NEW q \in Seq(S), NEW k \in 1..Len(q)
    PROVE  /\ RemoveAt(q, k) \in Seq(S)
           /\ Len(RemoveAt(q, k)) = Len(q) - 1
           /\ \A i \in 1..(Len(q) - 1) :
                 RemoveAt(q, k)[i] = IF i < k THEN q[i] ELSE q[i + 1]
<1> DEFINE a == SubSeq(q, 1, k - 1)
           b == SubSeq(q, k + 1, Len(q))
<1>0. Len(q) \in Nat BY LenProperties
<1>1. /\ a \in Seq(S) /\ Len(a) = k - 1
      /\ \A i \in 1..(k - 1) : a[i] = q[i]
  <2>1. CASE k = 1
        BY <2>1, <1>0, SubSeqProperties
  <2>2. CASE k # 1
    <3>1. k - 1 \in 1..Len(q) BY <2>2, <1>0
    <3> QED BY <3>1, <1>0, SubSeqProperties
  <2> QED BY <2>1, <2>2
<1>2. /\ b \in Seq(S) /\ Len(b) = Len(q) - k
      /\ \A i \in 1..(Len(q) - k) : b[i] = q[k + i]
  <2>1. CASE k = Len(q)
    <3>1. b = <<>> BY <2>1, <1>0, SubSeqEmpty
    <3> QED BY <3>1, <2>1, <1>0
  <2>2. CASE k # Len(q)
    <3>1. k + 1 \in 1..Len(q) /\ Len(q) - (k + 1) + 1 = Len(q) - k BY <2>2, <1>0
    <3>2. /\ b \in Seq(S) /\ Len(b) = Len(q) - k
          /\ \A i \in 1..(Len(q) - k) : b[i] = q[(k + 1) + i - 1]
          BY <3>1, <1>0, SubSeqProperties
    <3>3. \A i \in 1..(Len(q) - k) : (k + 1) + i - 1 = k + i
          BY <1>0
    <3> QED BY <3>2, <3>3
  <2> QED BY <2>1, <2>2
<1> HIDE DEF a, b
<1>3. /\ a \o b \in Seq(S) /\ Len(a \o b) = k - 1 + (Len(q) - k)
      /\ \A i \in 1..(k - 1 + (Len(q) - k)) : (a \o b)[i] = IF i <= k - 1 THEN a[i] ELSE b[i - (k - 1)]
  <2>1. /\ a \o b \in Seq(S) /\ Len(a \o b) = Len(a) + Len(b)
        /\ \A i \in 1..(Len(a) + Len(b)) : (a \o b)[i] = IF i <= Len(a) THEN a[i] ELSE b[i - Len(a)]
        BY <1>1, <1>2, ConcatProperties
  <2> QED BY <2>1, <1>1, <1>2
<1>4. k - 1 + (Len(q) - k) = Len(q) - 1 BY <1>0
<1>5. ASSUME NEW i \in 1..(Len(q) - 1)
      PROVE  (a \o b)[i] = IF i < k THEN q[i] ELSE q[i + 1]
  <2>1. CASE i < k
    <3>1. i \in 1..(k - 1) /\ i <= k - 1 BY <2>1
    <3> QED BY <2>1, <3>1, <1>1, <1>3, <1>4
  <2>2. CASE ~(i < k)
    <3>1. i - (k - 1) \in 1..(Len(q) - k) /\ k + (i - (k - 1)) = i + 1 /\ ~(i <= k - 1)
          BY <2>2, <1>0
    <3> QED BY <2>2, <3>1, <1>2, <1>3, <1>4
  <2> QED BY <2>1, <2>2
<1> QED BY <1>3, <1>4, <1>5 DEF RemoveAt, a, b

-----------------------------------------------------------------------------
(* MEMBERS, ENTRIES THAT OCCUR ONCE, AND ORDER                             *)

LEMMA ToSetFacts ==
    ASSUME NEW S, NEW q \in Seq(S)
    PROVE  /\ ToSet(q) = {q[i] : i \in 1..Len(q)}
           /\ ToSet(q) \subseteq S
           /\ \A x : Contains(q, x) <=> x \in ToSet(q)
           /\ ToSet(<<>>) = {} /\ Once(<<>>)
           /\ q # <<>> <=> Len(q) > 0
<1>1. Len(q) \in Nat /\ DOMAIN q = 1..Len(q) BY LenProperties
<1>2. \A i \in 1..Len(q) : q[i] \in S BY ElementOfSeq
<1>3. q = <<>> <=> Len(q) = 0 BY EmptySeq
<1>4. Len(<<>>) = 0 /\ DOMAIN <<>> = {} OBVIOUS
<1> QED BY <1>1, <1>2, <1>3, <1>4 DEF ToSet, Contains, Once

LEMMA InsertAtOnce ==
    ASSUME NEW S, NEW q \in Seq(S), NEW x \in S, NEW k \in 1..(Len(q) + 1)
    PROVE  /\ ToSet(InsertAt(q, k, x)) = ToSet(q) \cup {x}
           /\ Once(q) /\ x \notin ToSet(q) => Once(InsertAt(q, k, x))
<1> DEFINE r == InsertAt(q, k, x)
<1>0. Len(q) \in Nat BY LenProperties
<1>1. /\ r \in Seq(S) /\ Len(r) = Len(q) + 1
      /\ \A i \in 1..(Len(q) + 1) :
            r[i] = IF i < k THEN q[i] ELSE IF i = k THEN x ELSE q[i - 1]
      BY InsertAtFacts, SMTT(30)
<1>2. ToSet(r) = {r[i] : i \in 1..(Len(q) + 1)} /\ ToSet(q) = {q[i] : i \in 1..Len(q)}
      BY <1>1, ToSetFacts
<1> HIDE DEF r
<1>3. ToSet(r) \subseteq ToSet(q) \cup {x}
  <2>1. ASSUME NEW i \in 1..(Len(q) + 1) PROVE r[i] \in ToSet(q) \cup {x}
    <3>1. CASE i < k
      <4>1. i \in 1..Len(q) BY <3>1, <1>0
      <4> QED BY <4>1, <3>1, <1>1, <1>2
    <3>2. CASE i = k
      BY <3>2, <1>1
    <3>3. CASE i > k
      <4>1. i - 1 \in 1..Len(q) /\ ~(i < k) /\ i # k BY <3>3, <1>0
      <4> QED BY <4>1, <1>1, <1>2
    <3> QED BY <3>1, <3>2, <3>3
  <2> QED BY <2>1, <1>2
<1>4. ToSet(q) \cup {x} \subseteq ToSet(r)
  <2>1. x \in ToSet(r)
    <3>1. k \in 1..(Len(q) + 1) /\ ~(k < k) OBVIOUS
    <3>2. r[k] = x BY <3>1, <1>1
    <3> QED BY <3>1, <3>2, <1>2
  <2>2. ASSUME NEW i \in 1..Len(q) PROVE q[i] \in ToSet(r)
    <3>1. CASE i < k
      <4>1. i \in 1..(Len(q) + 1) BY <1>0
      <4>2. r[i] = q[i] BY <4>1, <3>1, <1>1
      <4> QED BY <4>1, <4>2, <1>2
    <3>2. CASE ~(i < k)
      <4>1. i + 1 \in 1..(Len(q) + 1) /\ ~(i + 1 < k) /\ i + 1 # k /\ (i + 1) - 1 = i BY <3>2, <1>0
      <4>2. r[i + 1] = q[(i + 1) - 1] BY <4>1, <1>1
      <4> QED BY <4>1, <4>2, <1>2
    <3> QED BY <3>1, <3>2
  <2> QED BY <2>1, <2>2, <1>2
<1>5. ASSUME Once(q), x \notin ToSet(q),
             NEW i \in 1..(Len(q) + 1), NEW j \in 1..(Len(q) + 1), r[i] = r[j]
      PROVE  i = j
  <2>1. \A m \in 1..Len(q) : q[m] # x BY <1>5, <1>2
  <2>2. \A m, n \in 1..Len(q) : q[m] = q[n] => m = n BY <1>5 DEF Once
  <2>3. i < k => i \in 1..Len(q) BY <1>0
  <2>4. j < k => j \in 1..Len(q) BY <1>0
  <2>5. i > k => i - 1 \in 1..Len(q) BY <1>0
  <2>6. j > k => j - 1 \in 1..Len(q) BY <1>0
  <2>7. r[i] = (IF i < k THEN q[i] ELSE IF i = k THEN x ELSE q[i - 1]) BY <1>1
  <2>8. r[j] = (IF j < k THEN q[j] ELSE IF j = k THEN x ELSE q[j - 1]) BY <1>1
  <2>9. i \in Nat /\ j \in Nat /\ k \in Nat BY <1>0
  <2>10. CASE i = k
    <3>1. r[i] = x BY <2>10, <2>7
    <3> QED BY <3>1, <1>5, <2>1, <2>4, <2>6, <2>8, <2>9, <2>10
  <2>11. CASE j = k
    <3>1. r[j] = x BY <2>11, <2>8
    <3> QED BY <3>1, <1>5, <2>1, <2>3, <2>5, <2>7, <2>9, <2>11
  <2>12. CASE i < k /\ j < k
    BY <2>12, <1>5, <2>2, <2>3, <2>4, <2>7, <2>8
  <2>13. CASE i > k /\ j > k
    <3>1. r[i] = q[i - 1] /\ r[j] = q[j - 1] BY <2>13, <2>7, <2>8, <2>9
    <3>2. i - 1 = j - 1 BY <3>1, <2>13, <1>5, <2>2, <2>5, <2>6
    <3> QED BY <3>2, <2>9
  <2>14. CASE i < k /\ j > k
    <3>1. r[i] = q[i] /\ r[j] = q[j - 1] BY <2>14, <2>7, <2>8, <2>9
    <3>2. i = j - 1 BY <3>1, <2>14, <1>5, <2>2, <2>3, <2>6
    <3> QED BY <3>2, <2>9, <2>14
  <2>15. CASE i > k /\ j < k
    <3>1. r[i] = q[i - 1] /\ r[j] = q[j] BY <2>15, <2>7, <2>8, <2>9
    <3>2. i - 1 = j BY <3>1, <2>15, <1>5, <2>2, <2>4, <2>5
    <3> QED BY <3>2, <2>9, <2>15
  <2> QED BY <2>9, <2>10, <2>11, <2>12, <2>13, <2>14, <2>15
<1> QED BY <1>1, <1>3, <1>4, <1>5 DEF r, Once

LEMMA InsertAtOrdered ==
    ASSUME NEW S, NEW q \in Seq(S), NEW x \in S, NEW k \in 1..(Len(q) + 1),
           NEW key, \A y \in S : key[y] \in Nat,
           Ordered(q, key),
           \A i \in 1..(k - 1) : key[q[i]] <= key[x],
           \A i \in k..Len(q) : key[x] <= key[q[i]]
    PROVE  Ordered(InsertAt(q, k, x), key)
<1> DEFINE r == InsertAt(q, k, x)
<1>0. Len(q) \in Nat BY LenProperties
<1>1. /\ r \in Seq(S) /\ Len(r) = Len(q) + 1
      /\ \A i \in 1..(Len(q) + 1) :
            r[i] = IF i < k THEN q[i] ELSE IF i = k THEN x ELSE q[i - 1]
      BY InsertAtFacts, SMTT(30)
<1> HIDE DEF r
<1>2. ASSUME NEW i \in 1..(Len(q) + 1), NEW j \in 1..(Len(q) + 1), i < j
      PROVE  key[r[i]] <= key[r[j]]
  <2>1. \A m, n \in 1..Len(q) : m < n => key[q[m]] <= key[q[n]] BY DEF Ordered
  <2>2. r[i] = (IF i < k THEN q[i] ELSE IF i = k THEN x ELSE q[i - 1]) BY <1>1
  <2>3. r[j] = (IF j < k THEN q[j] ELSE IF j = k THEN x ELSE q[j - 1]) BY <1>1
  <2>4. i \in Nat /\ j \in Nat /\ k \in Nat BY <1>0
  <2>5. CASE i < k /\ j < k
    <3>1. i \in 1..Len(q) /\ j \in 1..Len(q) BY <2>5, <1>0
    <3> QED BY <3>1, <2>1, <2>2, <2>3, <2>5, <1>2
  <2>6. CASE i < k /\ j = k
    <3>1. i \in 1..(k - 1) BY <2>6, <1>0
    <3> QED BY <3>1, <2>2, <2>3, <2>6
  <2>7. CASE i < k /\ j > k
    <3>1. i \in 1..Len(q) /\ j - 1 \in 1..Len(q) /\ i < j - 1 BY <2>7, <1>0
    <3> QED BY <3>1, <2>1, <2>2, <2>3, <2>4, <2>7
  <2>8. CASE i = k /\ j > k
    <3>1. j - 1 \in k..Len(q) BY <2>8, <1>0
    <3> QED BY <3>1, <2>2, <2>3, <2>4, <2>8
  <2>9. CASE i > k /\ j > k
    <3>1. i - 1 \in 1..Len(q) /\ j - 1 \in 1..Len(q) /\ i - 1 < j - 1 BY <2>9, <1>0, <1>2
    <3> QED BY <3>1, <2>1, <2>2, <2>3, <2>4, <2>9
  <2> QED BY <2>4, <1>2, <2>5, <2>6, <2>7, <2>8, <2>9
<1> QED BY <1>1, <1>2 DEF r, Ordered

(* RemoveFirst takes out the entry, or leaves a queue without it alone. *)
LEMMA RemoveFirstAt ==
    ASSUME NEW S, NEW q \in Seq(S), NEW x
    PROVE  \/ x \notin ToSet(q) /\ RemoveFirst(q, x) = q
           \/ \E k \in 1..Len(q) : q[k] = x /\ RemoveFirst(q, x) = RemoveAt(q, k)
<1>0. Len(q) \in Nat BY LenProperties
<1>1. ToSet(q) = {q[i] : i \in 1..Len(q)} BY ToSetFacts
<1>2. CASE x \notin ToSet(q)
  BY <1>1, <1>2 DEF RemoveFirst
<1>3. CASE x \in ToSet(q)
  <2> DEFINE I == {i \in 1..Len(q) : q[i] = x}
  <2>1. I # {} /\ I \in SUBSET Nat BY <1>1, <1>3
  <2>2. \E k \in I : \A j \in I : k <= j BY <2>1, LeastOf
  <2>3. Min(I) \in I BY <2>2 DEF Min
  <2>4. RemoveFirst(q, x) = RemoveAt(q, Min(I))
        BY <2>1 DEF RemoveFirst, SelectInSeq
  <2> QED BY <2>3, <2>4
<1> QED BY <1>2, <1>3

LEMMA RemoveFirstOnce ==
    ASSUME NEW S, NEW q \in Seq(S), NEW x, Once(q)
    PROVE  /\ RemoveFirst(q, x) \in Seq(S)
           /\ ToSet(RemoveFirst(q, x)) = ToSet(q) \ {x}
           /\ Once(RemoveFirst(q, x))
           /\ \A key : Ordered(q, key) => Ordered(RemoveFirst(q, x), key)
<1>0. Len(q) \in Nat BY LenProperties
<1>1. ToSet(q) = {q[i] : i \in 1..Len(q)} BY ToSetFacts
<1>2. CASE x \notin ToSet(q) /\ RemoveFirst(q, x) = q
  BY <1>2
<1>3. ASSUME NEW k \in 1..Len(q), q[k] = x, RemoveFirst(q, x) = RemoveAt(q, k)
      PROVE  /\ RemoveFirst(q, x) \in Seq(S)
             /\ ToSet(RemoveFirst(q, x)) = ToSet(q) \ {x}
             /\ Once(RemoveFirst(q, x))
             /\ \A key : Ordered(q, key) => Ordered(RemoveFirst(q, x), key)
  <2> DEFINE r == RemoveAt(q, k)
  <2>1. /\ r \in Seq(S) /\ Len(r) = Len(q) - 1
        /\ \A i \in 1..(Len(q) - 1) : r[i] = IF i < k THEN q[i] ELSE q[i + 1]
        BY RemoveAtFacts
  <2>2. ToSet(r) = {r[i] : i \in 1..(Len(q) - 1)} BY <2>1, ToSetFacts
  <2> HIDE DEF r
  <2>3. \A m, n \in 1..Len(q) : q[m] = q[n] => m = n BY DEF Once
  <2> DEFINE f(i) == IF i < k THEN i ELSE i + 1
  <2>4. ASSUME NEW i \in 1..(Len(q) - 1)
        PROVE  f(i) \in 1..Len(q) /\ f(i) # k /\ r[i] = q[f(i)]
    <3>1. i \in Nat /\ k \in Nat /\ i \in 1..Len(q) /\ i + 1 \in 1..Len(q) BY <1>0
    <3> QED BY <3>1, <2>1
  <2>5. ASSUME NEW i \in 1..(Len(q) - 1), NEW j \in 1..(Len(q) - 1), i < j
        PROVE  f(i) < f(j)
        BY <1>0, <2>5
  <2>6. ASSUME NEW m \in 1..Len(q), m # k
        PROVE  \E i \in 1..(Len(q) - 1) : f(i) = m
    <3>1. CASE m < k
      <4>1. m \in 1..(Len(q) - 1) BY <3>1, <1>0
      <4> QED BY <3>1, <4>1
    <3>2. CASE m > k
      <4>1. m - 1 \in 1..(Len(q) - 1) /\ ~(m - 1 < k) /\ (m - 1) + 1 = m BY <3>2, <1>0
      <4> QED BY <4>1
    <3> QED BY <3>1, <3>2, <2>6, <1>0
  <2> HIDE DEF f
  <2>7. ToSet(r) \subseteq ToSet(q) \ {x} BY <2>2, <2>3, <2>4, <1>1, <1>3
  <2>8. ToSet(q) \ {x} \subseteq ToSet(r)
    <3>1. ASSUME NEW m \in 1..Len(q), q[m] # x PROVE q[m] \in ToSet(r)
      <4>1. PICK i \in 1..(Len(q) - 1) : f(i) = m BY <3>1, <2>6, <1>3
      <4> QED BY <4>1, <2>2, <2>4
    <3> QED BY <3>1, <1>1
  <2>9. Once(r)
    <3>1. ASSUME NEW i \in 1..(Len(q) - 1), NEW j \in 1..(Len(q) - 1), r[i] = r[j], i < j
          PROVE  FALSE
      <4>1. f(i) = f(j) BY <3>1, <2>3, <2>4
      <4>2. f(i) < f(j) /\ f(i) \in Int BY <3>1, <2>4, <2>5
      <4> QED BY <4>1, <4>2
    <3>2. ASSUME NEW i \in 1..(Len(q) - 1), NEW j \in 1..(Len(q) - 1), r[i] = r[j]
          PROVE  i = j
      <4>1. ~(i < j) /\ ~(j < i) BY <3>1, <3>2
      <4> QED BY <4>1, <1>0
    <3> QED BY <3>2, <2>1 DEF Once
  <2>10. ASSUME NEW key, Ordered(q, key) PROVE Ordered(r, key)
    <3>1. ASSUME NEW i \in 1..(Len(q) - 1), NEW j \in 1..(Len(q) - 1), i < j
          PROVE  key[r[i]] <= key[r[j]]
      <4>1. f(i) < f(j) BY <3>1, <2>5
      <4> QED BY <4>1, <2>4, <2>10 DEF Ordered
    <3> QED BY <3>1, <2>1 DEF Ordered
  <2> QED BY <2>1, <2>7, <2>8, <2>9, <2>10, <1>3 DEF r
<1> QED BY <1>2, <1>3, RemoveFirstAt

LEMMA AppendOnce ==
    ASSUME NEW S, NEW q \in Seq(S), NEW x \in S
    PROVE  /\ Append(q, x) \in Seq(S) /\ Append(q, x) # <<>>
           /\ ToSet(Append(q, x)) = ToSet(q) \cup {x}
           /\ Once(q) /\ x \notin ToSet(q) => Once(Append(q, x))
           /\ q # <<>> => Head(Append(q, x)) = Head(q)
           /\ q = <<>> => Head(Append(q, x)) = x
<1> DEFINE r == Append(q, x)
<1>0. Len(q) \in Nat BY LenProperties
<1>1. /\ r \in Seq(S) /\ Len(r) = Len(q) + 1 /\ r[Len(q) + 1] = x
      /\ \A i \in 1..Len(q) : r[i] = q[i]
      BY AppendProperties
<1>2. ToSet(r) = {r[i] : i \in 1..(Len(q) + 1)} /\ ToSet(q) = {q[i] : i \in 1..Len(q)}
      BY <1>1, ToSetFacts
<1>3. q # <<>> => Head(r) = Head(q)
  <2>1. q # <<>> => Len(q) > 0 BY ToSetFacts
  <2>2. Head(r) = r[1] /\ Head(q) = q[1] BY <1>1
  <2> QED BY <2>1, <2>2, <1>0, <1>1
<1>4. q = <<>> => Head(r) = x
  <2>1. q = <<>> => Len(q) = 0 OBVIOUS
  <2> QED BY <2>1, <1>1
<1> HIDE DEF r
<1>5. ToSet(r) = ToSet(q) \cup {x}
  <2>1. ASSUME NEW i \in 1..(Len(q) + 1) PROVE r[i] \in ToSet(q) \cup {x}
    <3>1. i \in 1..Len(q) \/ i = Len(q) + 1 BY <1>0
    <3> QED BY <3>1, <1>1, <1>2
  <2>2. ASSUME NEW i \in 1..Len(q) PROVE q[i] \in ToSet(r)
    <3>1. i \in 1..(Len(q) + 1) BY <1>0
    <3> QED BY <3>1, <1>1, <1>2
  <2>3. x \in ToSet(r) BY <1>0, <1>1, <1>2
  <2> QED BY <2>1, <2>2, <2>3, <1>2
<1>6. ASSUME Once(q), x \notin ToSet(q),
             NEW i \in 1..(Len(q) + 1), NEW j \in 1..(Len(q) + 1), r[i] = r[j]
      PROVE  i = j
  <2>1. \A m, n \in 1..Len(q) : q[m] = q[n] => m = n BY <1>6 DEF Once
  <2>2. \A m \in 1..Len(q) : q[m] # x BY <1>6, <1>2
  <2>3. i \in 1..Len(q) \/ i = Len(q) + 1 BY <1>0
  <2>4. j \in 1..Len(q) \/ j = Len(q) + 1 BY <1>0
  <2> QED BY <2>1, <2>2, <2>3, <2>4, <1>1, <1>6
<1>7. r # <<>>
  <2>1. Len(r) # 0 BY <1>0, <1>1
  <2> QED BY <2>1
<1> QED BY <1>1, <1>3, <1>4, <1>5, <1>6, <1>7 DEF r, Once

(* A queue falls into what is before a position and what is from it on. *)
Before(q, k) == SubSeq(q, 1, k - 1)
From(q, k) == SubSeq(q, k, Len(q))

LEMMA SplitOnce ==
    ASSUME NEW S, NEW q \in Seq(S), NEW k \in 1..(Len(q) + 1)
    PROVE  /\ Before(q, k) \in Seq(S) /\ From(q, k) \in Seq(S)
           /\ \A x : x \in ToSet(Before(q, k)) <=> \E i \in 1..(k - 1) : q[i] = x
           /\ \A x : x \in ToSet(From(q, k)) <=> \E i \in k..Len(q) : q[i] = x
           /\ ToSet(q) = ToSet(Before(q, k)) \cup ToSet(From(q, k))
           /\ Once(q) => /\ Once(Before(q, k)) /\ Once(From(q, k))
                         /\ ToSet(Before(q, k)) \cap ToSet(From(q, k)) = {}
           /\ \A key : Ordered(q, key) => Ordered(Before(q, k), key) /\ Ordered(From(q, k), key)
<1> DEFINE a == Before(q, k)
           b == From(q, k)
<1>0. Len(q) \in Nat BY LenProperties
<1>1. /\ a \in Seq(S) /\ Len(a) = k - 1
      /\ \A i \in 1..(k - 1) : a[i] = q[i]
  <2>1. CASE k = 1
        BY <2>1, <1>0, SubSeqProperties DEF Before
  <2>2. CASE k # 1
    <3>1. k - 1 \in 1..Len(q) BY <2>2, <1>0
    <3> QED BY <3>1, <1>0, SubSeqProperties DEF Before
  <2> QED BY <2>1, <2>2
<1>2. /\ b \in Seq(S) /\ Len(b) = Len(q) - k + 1
      /\ \A i \in 1..(Len(q) - k + 1) : b[i] = q[k + i - 1]
  <2>1. CASE k = Len(q) + 1
    <3>1. b = <<>> BY <2>1, <1>0, SubSeqEmpty DEF From
    <3> QED BY <3>1, <2>1, <1>0
  <2>2. CASE k # Len(q) + 1
    <3>1. k \in 1..Len(q) BY <2>2, <1>0
    <3> QED BY <3>1, <1>0, SubSeqProperties DEF From
  <2> QED BY <2>1, <2>2
<1> HIDE DEF a, b
<1>3. /\ ToSet(a) = {a[i] : i \in 1..(k - 1)}
      /\ ToSet(b) = {b[i] : i \in 1..(Len(q) - k + 1)}
      /\ ToSet(q) = {q[i] : i \in 1..Len(q)}
  <2>0. a \in Seq(S) /\ b \in Seq(S) BY <1>1, <1>2
  <2>1. ToSet(a) = {a[i] : i \in 1..Len(a)} BY <2>0, LenProperties DEF ToSet
  <2>2. ToSet(b) = {b[i] : i \in 1..Len(b)} BY <2>0, LenProperties DEF ToSet
  <2>3. ToSet(q) = {q[i] : i \in 1..Len(q)} BY ToSetFacts
  <2> QED BY <2>1, <2>2, <2>3, <1>1, <1>2
<1>4. ToSet(a) = {q[i] : i \in 1..(k - 1)}
      BY <1>1, <1>3
<1>5. ToSet(b) = {q[i] : i \in k..Len(q)}
  <2>1. ASSUME NEW i \in 1..(Len(q) - k + 1) PROVE b[i] \in {q[m] : m \in k..Len(q)}
    <3>1. k + i - 1 \in k..Len(q) BY <1>0
    <3> QED BY <3>1, <1>2
  <2>2. ASSUME NEW m \in k..Len(q) PROVE q[m] \in ToSet(b)
    <3>1. m - k + 1 \in 1..(Len(q) - k + 1) /\ k + (m - k + 1) - 1 = m BY <1>0
    <3>2. b[m - k + 1] = q[m] BY <3>1, <1>2
    <3> QED BY <3>1, <3>2, <1>3
  <2> QED BY <2>1, <2>2, <1>3
<1>6. ToSet(q) = ToSet(a) \cup ToSet(b)
  <2>1. \A i \in 1..Len(q) : i \in 1..(k - 1) \/ i \in k..Len(q) BY <1>0
  <2>2. \A i \in 1..(k - 1) : i \in 1..Len(q) BY <1>0
  <2>3. \A i \in k..Len(q) : i \in 1..Len(q) BY <1>0
  <2> QED BY <2>1, <2>2, <2>3, <1>3, <1>4, <1>5
<1>7. ASSUME Once(q) PROVE Once(a) /\ Once(b) /\ ToSet(a) \cap ToSet(b) = {}
  <2>1. \A m, n \in 1..Len(q) : q[m] = q[n] => m = n BY <1>7 DEF Once
  <2>2. \A i \in 1..(k - 1) : i \in 1..Len(q) BY <1>0
  <2>3. Once(a) BY <2>1, <2>2, <1>1 DEF Once
  <2>4. ASSUME NEW i \in 1..(Len(q) - k + 1), NEW j \in 1..(Len(q) - k + 1), b[i] = b[j]
        PROVE  i = j
    <3>1. k + i - 1 \in 1..Len(q) /\ k + j - 1 \in 1..Len(q) BY <1>0
    <3>2. k + i - 1 = k + j - 1 BY <3>1, <2>1, <2>4, <1>2
    <3> QED BY <3>2, <1>0
  <2>5. \A i \in 1..(k - 1), j \in k..Len(q) : j \in 1..Len(q) /\ i # j BY <1>0
  <2>6. ToSet(a) \cap ToSet(b) = {} BY <2>1, <2>2, <2>5, <1>4, <1>5
  <2> QED BY <2>3, <2>4, <2>6, <1>2 DEF Once
<1>8. ASSUME NEW key, Ordered(q, key) PROVE Ordered(a, key) /\ Ordered(b, key)
  <2>1. \A m, n \in 1..Len(q) : m < n => key[q[m]] <= key[q[n]] BY <1>8 DEF Ordered
  <2>2. \A i \in 1..(k - 1) : i \in 1..Len(q) BY <1>0
  <2>3. Ordered(a, key) BY <2>1, <2>2, <1>1 DEF Ordered
  <2>4. ASSUME NEW i \in 1..(Len(q) - k + 1), NEW j \in 1..(Len(q) - k + 1), i < j
        PROVE  key[b[i]] <= key[b[j]]
    <3>1. k + i - 1 \in 1..Len(q) /\ k + j - 1 \in 1..Len(q) /\ k + i - 1 < k + j - 1
          BY <1>0, <2>4
    <3> QED BY <3>1, <2>1, <1>2
  <2> QED BY <2>3, <2>4, <1>2 DEF Ordered
<1> QED BY <1>1, <1>2, <1>4, <1>5, <1>6, <1>7, <1>8 DEF a, b

LEMMA ConcatOnce ==
    ASSUME NEW S, NEW a \in Seq(S), NEW b \in Seq(S)
    PROVE  /\ a \o b \in Seq(S)
           /\ ToSet(a \o b) = ToSet(a) \cup ToSet(b)
           /\ Once(a) /\ Once(b) /\ ToSet(a) \cap ToSet(b) = {} => Once(a \o b)
<1> DEFINE r == a \o b
<1>0. Len(a) \in Nat /\ Len(b) \in Nat BY LenProperties
<1>1. /\ r \in Seq(S) /\ Len(r) = Len(a) + Len(b)
      /\ \A i \in 1..(Len(a) + Len(b)) : r[i] = IF i <= Len(a) THEN a[i] ELSE b[i - Len(a)]
      BY ConcatProperties
<1> HIDE DEF r
<1>2. /\ ToSet(r) = {r[i] : i \in 1..(Len(a) + Len(b))}
      /\ ToSet(a) = {a[i] : i \in 1..Len(a)} /\ ToSet(b) = {b[i] : i \in 1..Len(b)}
      BY <1>1, ToSetFacts
<1>3. ASSUME NEW i \in 1..(Len(a) + Len(b))
      PROVE  \/ i \in 1..Len(a) /\ r[i] = a[i]
             \/ i > Len(a) /\ i - Len(a) \in 1..Len(b) /\ r[i] = b[i - Len(a)]
      BY <1>0, <1>1
<1>4. ASSUME NEW i \in 1..Len(a) PROVE a[i] \in ToSet(r)
  <2>1. i \in 1..(Len(a) + Len(b)) /\ i <= Len(a) BY <1>0
  <2> QED BY <2>1, <1>1, <1>2
<1>5. ASSUME NEW i \in 1..Len(b) PROVE b[i] \in ToSet(r)
  <2>1. Len(a) + i \in 1..(Len(a) + Len(b)) /\ ~(Len(a) + i <= Len(a))
        /\ (Len(a) + i) - Len(a) = i BY <1>0
  <2>2. r[Len(a) + i] = b[(Len(a) + i) - Len(a)] BY <2>1, <1>1
  <2> QED BY <2>1, <2>2, <1>2
<1>6. ToSet(r) = ToSet(a) \cup ToSet(b)
      BY <1>2, <1>3, <1>4, <1>5
<1>7. ASSUME Once(a), Once(b), ToSet(a) \cap ToSet(b) = {} PROVE Once(r)
  <2>1. \A m, n \in 1..Len(a) : a[m] = a[n] => m = n BY <1>7 DEF Once
  <2>2. \A m, n \in 1..Len(b) : b[m] = b[n] => m = n BY <1>7 DEF Once
  <2>3. \A m \in 1..Len(a), n \in 1..Len(b) : a[m] # b[n] BY <1>2, <1>7
  <2>4. ASSUME NEW i \in 1..(Len(a) + Len(b)), NEW j \in 1..(Len(a) + Len(b)), r[i] = r[j]
        PROVE  i = j
    <3>1. CASE i \in 1..Len(a) /\ r[i] = a[i]
      BY <3>1, <1>3, <2>1, <2>3, <2>4
    <3>2. CASE i > Len(a) /\ i - Len(a) \in 1..Len(b) /\ r[i] = b[i - Len(a)]
      <4>1. j > Len(a) /\ j - Len(a) \in 1..Len(b) /\ r[j] = b[j - Len(a)]
            BY <3>2, <1>3, <2>3, <2>4
      <4>2. i - Len(a) = j - Len(a) BY <4>1, <3>2, <2>2, <2>4
      <4> QED BY <4>2, <1>0
    <3> QED BY <3>1, <3>2, <1>3
  <2> QED BY <2>4, <1>1 DEF Once
<1> QED BY <1>1, <1>6, <1>7 DEF r

LEMMA TailOnce ==
    ASSUME NEW S, NEW q \in Seq(S), q # <<>>
    PROVE  /\ Tail(q) \in Seq(S) /\ Head(q) \in S /\ Head(q) \in ToSet(q)
           /\ ToSet(q) = {Head(q)} \cup ToSet(Tail(q))
           /\ Once(q) => /\ Once(Tail(q)) /\ Head(q) \notin ToSet(Tail(q))
                         /\ ToSet(Tail(q)) = ToSet(q) \ {Head(q)}
           /\ \A key : Ordered(q, key) => Ordered(Tail(q), key)
<1>0. Len(q) \in Nat /\ Len(q) > 0 BY LenProperties, ToSetFacts
<1>1. From(q, 2) = Tail(q) BY TailIsSubSeq DEF From
<1>2. 2 \in 1..(Len(q) + 1) BY <1>0
<1> DEFINE a == Before(q, 2)
           b == From(q, 2)
<1>3. /\ a \in Seq(S) /\ b \in Seq(S)
      /\ \A x : x \in ToSet(a) <=> \E i \in 1..(2 - 1) : q[i] = x
      /\ ToSet(q) = ToSet(a) \cup ToSet(b)
      /\ Once(q) => Once(a) /\ Once(b) /\ ToSet(a) \cap ToSet(b) = {}
      /\ \A key : Ordered(q, key) => Ordered(a, key) /\ Ordered(b, key)
      BY <1>2, SplitOnce
<1> HIDE DEF a, b
<1>4. ToSet(a) = {Head(q)}
  <2>1. 1..(2 - 1) = {1} OBVIOUS
  <2>2. Head(q) = q[1] OBVIOUS
  <2> QED BY <2>1, <2>2, <1>3
<1>5. Head(q) \in S BY <1>3, <1>4, ToSetFacts
<1> QED BY <1>1, <1>3, <1>4, <1>5 DEF b

(* The same of queues in which entries outside of S may repeat. *)
LEMMA OnceInFacts ==
    ASSUME NEW T, NEW q \in Seq(T), NEW S
    PROVE  /\ OnceIn(<<>>, S)
           /\ \A x \in T : OnceIn(q, S) /\ (x \in S => x \notin ToSet(q)) => OnceIn(Append(q, x), S)
           /\ OnceIn(q, S) /\ q # <<>> =>
                 /\ OnceIn(Tail(q), S)
                 /\ \A x \in S : x \in ToSet(Tail(q)) <=> x \in ToSet(q) /\ x # Head(q)
<1>0. Len(q) \in Nat BY LenProperties
<1>1. ToSet(q) = {q[i] : i \in 1..Len(q)} BY ToSetFacts
<1>2. OnceIn(<<>>, S)
  <2>1. Len(<<>>) = 0 OBVIOUS
  <2> QED BY <2>1 DEF OnceIn
<1>3. ASSUME NEW x \in T, OnceIn(q, S), x \in S => x \notin ToSet(q)
      PROVE  OnceIn(Append(q, x), S)
  <2> DEFINE r == Append(q, x)
  <2>1. /\ Len(r) = Len(q) + 1 /\ r[Len(q) + 1] = x
        /\ \A i \in 1..Len(q) : r[i] = q[i]
        BY AppendProperties
  <2> HIDE DEF r
  <2>2. ASSUME NEW i \in 1..(Len(q) + 1), NEW j \in 1..(Len(q) + 1), r[i] = r[j], r[i] \in S
        PROVE  i = j
    <3>1. \A m, n \in 1..Len(q) : q[m] = q[n] /\ q[m] \in S => m = n BY <1>3 DEF OnceIn
    <3>2. x \in S => \A m \in 1..Len(q) : q[m] # x BY <1>1, <1>3
    <3>3. i \in 1..Len(q) \/ i = Len(q) + 1 BY <1>0
    <3>4. j \in 1..Len(q) \/ j = Len(q) + 1 BY <1>0
    <3>5. CASE i \in 1..Len(q) /\ j \in 1..Len(q)
      BY <3>5, <3>1, <2>1, <2>2
    <3>6. CASE i = Len(q) + 1 /\ j \in 1..Len(q)
      BY <3>6, <3>2, <2>1, <2>2
    <3>7. CASE j = Len(q) + 1 /\ i \in 1..Len(q)
      BY <3>7, <3>2, <2>1, <2>2
    <3> QED BY <3>3, <3>4, <3>5, <3>6, <3>7
  <2> QED BY <2>1, <2>2 DEF OnceIn, r
<1>4. ASSUME OnceIn(q, S), q # <<>>
      PROVE  /\ OnceIn(Tail(q), S)
             /\ \A x \in S : x \in ToSet(Tail(q)) <=> x \in ToSet(q) /\ x # Head(q)
  <2>1. Len(q) > 0 BY <1>4, ToSetFacts
  <2> DEFINE r == Tail(q)
  <2>2. r \in Seq(T) /\ Len(r) = Len(q) - 1 /\ \A i \in 1..(Len(q) - 1) : r[i] = q[i + 1]
        BY <1>4, HeadTailProperties
  <2>3. ToSet(r) = {r[i] : i \in 1..(Len(q) - 1)} BY <2>2, ToSetFacts
  <2>4. Head(q) = q[1] OBVIOUS
  <2> HIDE DEF r
  <2>5. \A m, n \in 1..Len(q) : q[m] = q[n] /\ q[m] \in S => m = n BY <1>4 DEF OnceIn
  <2>6. \A i \in 1..(Len(q) - 1) : i + 1 \in 1..Len(q) /\ i + 1 # 1 BY <1>0
  <2>7. ASSUME NEW i \in 1..(Len(q) - 1), NEW j \in 1..(Len(q) - 1), r[i] = r[j], r[i] \in S
        PROVE  i = j
    <3>1. i + 1 = j + 1 BY <2>2, <2>5, <2>6, <2>7
    <3> QED BY <3>1, <1>0
  <2>8. ASSUME NEW x \in S, x \in ToSet(r) PROVE x \in ToSet(q) /\ x # Head(q)
    <3>1. PICK i \in 1..(Len(q) - 1) : r[i] = x BY <2>3, <2>8
    <3>2. x = q[i + 1] /\ i + 1 \in 1..Len(q) /\ i + 1 # 1 BY <3>1, <2>2, <2>6
    <3>3. 1 \in 1..Len(q) BY <1>0, <2>1
    <3> QED BY <3>2, <3>3, <2>4, <2>5, <1>1
  <2>9. ASSUME NEW x \in S, x \in ToSet(q), x # Head(q) PROVE x \in ToSet(r)
    <3>1. PICK i \in 1..Len(q) : q[i] = x BY <1>1, <2>9
    <3>2. i # 1 BY <3>1, <2>4, <2>9
    <3>3. i - 1 \in 1..(Len(q) - 1) /\ (i - 1) + 1 = i BY <3>2, <1>0
    <3>4. r[i - 1] = x BY <3>1, <3>3, <2>2
    <3> QED BY <3>3, <3>4, <2>3
  <2> QED BY <2>2, <2>7, <2>8, <2>9 DEF OnceIn, r
<1> QED BY <1>2, <1>3, <1>4

LEMMA ConcatOnceIn ==
    ASSUME NEW T, NEW a \in Seq(T), NEW b \in Seq(T), NEW S,
           OnceIn(a, S), Once(b), ToSet(a) \cap ToSet(b) \cap S = {}
    PROVE  OnceIn(a \o b, S)
<1> DEFINE r == a \o b
<1>0. Len(a) \in Nat /\ Len(b) \in Nat BY LenProperties
<1>1. /\ r \in Seq(T) /\ Len(r) = Len(a) + Len(b)
      /\ \A i \in 1..(Len(a) + Len(b)) : r[i] = IF i <= Len(a) THEN a[i] ELSE b[i - Len(a)]
      BY ConcatProperties
<1> HIDE DEF r
<1>2. ToSet(a) = {a[i] : i \in 1..Len(a)} /\ ToSet(b) = {b[i] : i \in 1..Len(b)}
      BY ToSetFacts
<1>3. ASSUME NEW i \in 1..(Len(a) + Len(b))
      PROVE  \/ i \in 1..Len(a) /\ r[i] = a[i]
             \/ i > Len(a) /\ i - Len(a) \in 1..Len(b) /\ r[i] = b[i - Len(a)]
      BY <1>0, <1>1
<1>4. \A m, n \in 1..Len(a) : a[m] = a[n] /\ a[m] \in S => m = n BY DEF OnceIn
<1>5. \A m, n \in 1..Len(b) : b[m] = b[n] => m = n BY DEF Once
<1>6. \A m \in 1..Len(a), n \in 1..Len(b) : a[m] \in S => a[m] # b[n] BY <1>2
<1>7. ASSUME NEW i \in 1..(Len(a) + Len(b)), NEW j \in 1..(Len(a) + Len(b)), r[i] = r[j], r[i] \in S
      PROVE  i = j
  <2>1. CASE i \in 1..Len(a) /\ r[i] = a[i]
    BY <2>1, <1>3, <1>4, <1>6, <1>7
  <2>2. CASE i > Len(a) /\ i - Len(a) \in 1..Len(b) /\ r[i] = b[i - Len(a)]
    <3>1. j > Len(a) /\ j - Len(a) \in 1..Len(b) /\ r[j] = b[j - Len(a)]
          BY <2>2, <1>3, <1>6, <1>7
    <3>2. i - Len(a) = j - Len(a) BY <3>1, <2>2, <1>5, <1>7
    <3> QED BY <3>2, <1>0
  <2> QED BY <2>1, <2>2, <1>3
<1> QED BY <1>1, <1>7 DEF OnceIn, r

-----------------------------------------------------------------------------
(* FILTERING                                                               *)

(* r has the entries of q that belong to S, in their order: f tells where  *)
(* in q each of them is.                                                   *)
Selects(f, r, q, S) ==
    /\ f \in [1..Len(r) -> 1..Len(q)]
    /\ \A i, j \in 1..Len(r) : i < j => f[i] < f[j]
    /\ \A i \in 1..Len(r) : r[i] = q[f[i]] /\ q[f[i]] \in S
    /\ \A m \in 1..Len(q) : q[m] \in S => \E i \in 1..Len(r) : f[i] = m

(* The recursive function in Keep exists, and so satisfies its equation. *)
LEMMA KeepDefined ==
    ASSUME NEW T, NEW q \in Seq(T), NEW S
    PROVE  \E k : /\ k[0] = <<>> /\ Keep(q, S) = k[Len(q)]
                  /\ \A n \in 1..Len(q) :
                        k[n] = IF q[n] \in S THEN Append(k[n - 1], q[n]) ELSE k[n - 1]
<1> DEFINE B(g, n) == IF n = 0 THEN <<>>
                      ELSE IF q[n] \in S THEN Append(g[n - 1], q[n]) ELSE g[n - 1]
           N == {n \in Nat : \E g : \A i \in 0..n : g[i] = B(g, i)}
           k == CHOOSE g : g = [n \in 0..Len(q) |-> B(g, n)]
<1>0. Len(q) \in Nat BY LenProperties
<1>1. 0 \in N
  <2>1. \A i \in 0..0 : [j \in {0} |-> <<>>][i] = B([j \in {0} |-> <<>>], i) OBVIOUS
  <2> QED BY <2>1
<1>2. ASSUME NEW n \in N PROVE n + 1 \in N
  <2>1. PICK g : \A i \in 0..n : g[i] = B(g, i) OBVIOUS
  <2> DEFINE h == [i \in 0..(n + 1) |-> IF i = n + 1 THEN B(g, n + 1) ELSE g[i]]
  <2>2. ASSUME NEW i \in 0..(n + 1) PROVE h[i] = B(h, i)
    <3>1. CASE i = n + 1
      <4>1. h[i] = B(g, n + 1) BY <3>1
      <4>2. i # 0 /\ i - 1 = n /\ n \in 0..(n + 1) /\ n # n + 1 BY <3>1
      <4>3. h[i - 1] = g[i - 1] BY <4>2
      <4> QED BY <4>1, <4>2, <4>3, <3>1
    <3>2. CASE i # n + 1
      <4>1. i \in 0..n BY <3>2
      <4>2. h[i] = g[i] /\ g[i] = B(g, i) BY <4>1, <3>2, <2>1
      <4>3. CASE i = 0
        BY <4>2, <4>3
      <4>4. CASE i # 0
        <5>1. i - 1 \in 0..(n + 1) /\ i - 1 # n + 1 BY <4>1, <4>4
        <5>2. h[i - 1] = g[i - 1] BY <5>1
        <5> QED BY <5>2, <4>2, <4>4
      <4> QED BY <4>3, <4>4
    <3> QED BY <3>1, <3>2
  <2>3. n + 1 \in Nat OBVIOUS
  <2> HIDE DEF h
  <2> QED BY <2>2, <2>3
<1>3. N = Nat
  <2>1. N \in SUBSET Nat OBVIOUS
  <2> HIDE DEF N
  <2> QED BY <2>1, <1>1, <1>2, SetInduction
<1>4. PICK g : \A i \in 0..Len(q) : g[i] = B(g, i)
  <2>1. Len(q) \in N BY <1>0, <1>3
  <2> QED BY <2>1
<1>5. \E h : h = [n \in 0..Len(q) |-> B(h, n)]
  <2> DEFINE h == [n \in 0..Len(q) |-> g[n]]
  <2>1. ASSUME NEW n \in 0..Len(q) PROVE h[n] = B(h, n)
    <3>1. h[n] = B(g, n) BY <1>4
    <3>2. CASE n = 0
      BY <3>1, <3>2
    <3>3. CASE n # 0
      <4>1. n - 1 \in 0..Len(q) BY <3>3, <1>0
      <4>2. h[n - 1] = g[n - 1] BY <4>1
      <4> QED BY <4>2, <3>1, <3>3
    <3> QED BY <3>2, <3>3
  <2>2. h = [n \in 0..Len(q) |-> h[n]] OBVIOUS
  <2> HIDE DEF h
  <2>3. h = [n \in 0..Len(q) |-> B(h, n)] BY <2>1, <2>2
  <2> QED BY <2>3
<1>6. k = [n \in 0..Len(q) |-> B(k, n)]
  <2> HIDE DEF B
  <2> QED BY <1>5
<1>7. Keep(q, S) = k[Len(q)]
  BY DEF Keep
<1> HIDE DEF k
<1>8. \A n \in 0..Len(q) : k[n] = B(k, n)
  BY <1>6
<1>9. k[0] = <<>>
  BY <1>0, <1>8
<1>10. ASSUME NEW n \in 1..Len(q)
       PROVE  k[n] = IF q[n] \in S THEN Append(k[n - 1], q[n]) ELSE k[n - 1]
  <2>1. n \in 0..Len(q) /\ n # 0 BY <1>0
  <2> QED BY <2>1, <1>8
<1> QED BY <1>7, <1>9, <1>10

LEMMA KeepSelects ==
    ASSUME NEW T, NEW q \in Seq(T), NEW S
    PROVE  Keep(q, S) \in Seq(T) /\ \E f : Selects(f, Keep(q, S), q, S)
<1>0. Len(q) \in Nat BY LenProperties
<1>1. PICK k : /\ k[0] = <<>> /\ Keep(q, S) = k[Len(q)]
               /\ \A n \in 1..Len(q) :
                     k[n] = IF q[n] \in S THEN Append(k[n - 1], q[n]) ELSE k[n - 1]
      BY KeepDefined
<1> DEFINE Sel(f, n) ==
               /\ f \in [1..Len(k[n]) -> 1..n]
               /\ \A i, j \in 1..Len(k[n]) : i < j => f[i] < f[j]
               /\ \A i \in 1..Len(k[n]) : k[n][i] = q[f[i]] /\ q[f[i]] \in S
               /\ \A m \in 1..n : q[m] \in S => \E i \in 1..Len(k[n]) : f[i] = m
           N == {n \in Nat : n <= Len(q) => k[n] \in Seq(T) /\ \E f : Sel(f, n)}
<1>2. 0 \in N
  <2>1. Len(k[0]) = 0 /\ k[0] \in Seq(T) BY <1>1
  <2>2. 1..0 = {} OBVIOUS
  <2>3. Sel([i \in {} |-> 1], 0) BY <2>1, <2>2
  <2> QED BY <2>1, <2>3
<1>3. ASSUME NEW n \in N PROVE n + 1 \in N
  <2> SUFFICES ASSUME n + 1 <= Len(q)
               PROVE  k[n + 1] \in Seq(T) /\ \E f : Sel(f, n + 1)
      OBVIOUS
  <2>1. n \in Nat /\ n <= Len(q) /\ n + 1 \in 1..Len(q) /\ (n + 1) - 1 = n BY <1>0
  <2>2. k[n] \in Seq(T) BY <2>1
  <2>3. PICK f : Sel(f, n) BY <2>1
  <2>4. Len(k[n]) \in Nat BY <2>2, LenProperties
  <2>5. \A i \in 1..Len(k[n]) : f[i] \in 1..n BY <2>3
  <2>6. CASE q[n + 1] \notin S
    <3>1. k[n + 1] = k[n] BY <2>1, <2>6, <1>1
    <3>2. f \in [1..Len(k[n]) -> 1..(n + 1)]
      <4>1. \A i \in 1..n : i \in 1..(n + 1) BY <2>1
      <4> QED BY <2>3, <2>5, <4>1
    <3>3. ASSUME NEW m \in 1..(n + 1), q[m] \in S PROVE \E i \in 1..Len(k[n]) : f[i] = m
      <4>1. m \in 1..n BY <3>3, <2>1, <2>6
      <4> QED BY <4>1, <3>3, <2>3
    <3>4. Sel(f, n + 1) BY <3>1, <3>2, <3>3, <2>3
    <3> QED BY <3>1, <3>4, <2>2
  <2>7. CASE q[n + 1] \in S
    <3> DEFINE r == Append(k[n], q[n + 1])
               l == Len(k[n])
               g == [i \in 1..(l + 1) |-> IF i = l + 1 THEN n + 1 ELSE f[i]]
    <3>1. k[n + 1] = r BY <2>1, <2>7, <1>1
    <3>2. q[n + 1] \in T BY <2>1, ElementOfSeq
    <3>3. /\ r \in Seq(T) /\ Len(r) = l + 1 /\ r[l + 1] = q[n + 1]
          /\ \A i \in 1..l : r[i] = k[n][i]
          BY <2>2, <3>2, AppendProperties
    <3>4. l \in Nat BY <2>4
    <3> HIDE DEF r
    <3>5. \A i \in 1..l : i \in 1..(l + 1) /\ i # l + 1 /\ g[i] = f[i] BY <3>4
    <3>6. g[l + 1] = n + 1 BY <3>4
    <3>7. \A i \in 1..(l + 1) : i \in 1..l \/ i = l + 1 BY <3>4
    <3>8. ASSUME NEW i \in 1..(l + 1) PROVE g[i] \in 1..(n + 1)
          BY <2>1, <2>5, <3>5, <3>6, <3>7
    <3>9. g \in [1..(l + 1) -> 1..(n + 1)] BY <3>8
    <3>10. ASSUME NEW i \in 1..(l + 1), NEW j \in 1..(l + 1), i < j PROVE g[i] < g[j]
      <4>1. i \in 1..l BY <3>4, <3>10
      <4>2. g[i] = f[i] /\ f[i] \in 1..n BY <4>1, <2>5, <3>5
      <4>3. CASE j = l + 1
        BY <4>2, <4>3, <3>6, <2>1
      <4>4. CASE j \in 1..l
        <5>1. g[j] = f[j] BY <4>4, <3>5
        <5> QED BY <4>1, <4>2, <4>4, <5>1, <3>10, <2>3
      <4> QED BY <4>3, <4>4, <3>7
    <3>11. ASSUME NEW i \in 1..(l + 1) PROVE r[i] = q[g[i]] /\ q[g[i]] \in S
      <4>1. CASE i = l + 1
        BY <4>1, <3>3, <3>6, <2>7
      <4>2. CASE i \in 1..l
        BY <4>2, <3>3, <3>5, <2>3
      <4> QED BY <4>1, <4>2, <3>7
    <3>12. ASSUME NEW m \in 1..(n + 1), q[m] \in S PROVE \E i \in 1..(l + 1) : g[i] = m
      <4>1. CASE m = n + 1
        <5>1. l + 1 \in 1..(l + 1) BY <3>4
        <5> QED BY <4>1, <5>1, <3>6
      <4>2. CASE m # n + 1
        <5>1. m \in 1..n BY <4>2, <2>1
        <5>2. PICK i \in 1..l : f[i] = m BY <5>1, <3>12, <2>3
        <5> QED BY <5>2, <3>5
      <4> QED BY <4>1, <4>2
    <3> HIDE DEF g
    <3>13. Sel(g, n + 1) BY <3>1, <3>3, <3>9, <3>10, <3>11, <3>12
    <3> HIDE DEF Sel
    <3> QED BY <3>1, <3>3, <3>13
  <2> QED BY <2>6, <2>7
<1>4. Len(q) \in N
  <2>1. N \in SUBSET Nat OBVIOUS
  <2> HIDE DEF N
  <2> QED BY <2>1, <1>0, <1>2, <1>3, SetInduction
<1>5. k[Len(q)] \in Seq(T) /\ \E f : Sel(f, Len(q))
  BY <1>0, <1>4
<1> QED BY <1>1, <1>5 DEF Selects

(* What the above says about members, repetitions and order. *)
LEMMA KeepOnce ==
    ASSUME NEW T, NEW q \in Seq(T), NEW S
    PROVE  /\ Keep(q, S) \in Seq(T)
           /\ ToSet(Keep(q, S)) = ToSet(q) \cap S
           /\ Once(q) => Once(Keep(q, S))
           /\ \A key : Ordered(q, key) => Ordered(Keep(q, S), key)
           /\ Len(Keep(q, S)) <= Len(q)
<1>0. Len(q) \in Nat BY LenProperties
<1> DEFINE r == Keep(q, S)
<1>1. r \in Seq(T) BY KeepSelects
<1>2. PICK f : Selects(f, r, q, S) BY KeepSelects
<1>3. Len(r) \in Nat BY <1>1, LenProperties
<1> HIDE DEF r
<1>4. /\ ToSet(r) = {r[i] : i \in 1..Len(r)} /\ ToSet(q) = {q[i] : i \in 1..Len(q)}
      BY <1>1, ToSetFacts
<1>5. \A i \in 1..Len(r) : f[i] \in 1..Len(q) /\ r[i] = q[f[i]] /\ q[f[i]] \in S
      BY <1>2 DEF Selects
<1>6. \A i, j \in 1..Len(r) : i < j => f[i] < f[j] BY <1>2 DEF Selects
<1>7. ToSet(r) = ToSet(q) \cap S
  <2>1. ASSUME NEW m \in 1..Len(q), q[m] \in S PROVE q[m] \in ToSet(r)
    <3>1. PICK i \in 1..Len(r) : f[i] = m BY <2>1, <1>2 DEF Selects
    <3> QED BY <3>1, <1>4, <1>5
  <2> QED BY <2>1, <1>4, <1>5
<1>8. ASSUME Once(q) PROVE Once(r)
  <2>1. ASSUME NEW i \in 1..Len(r), NEW j \in 1..Len(r), r[i] = r[j] PROVE i = j
    <3>1. f[i] = f[j] BY <2>1, <1>5, <1>8 DEF Once
    <3>2. ~(f[i] < f[j]) /\ ~(f[j] < f[i]) BY <3>1, <1>5
    <3>3. ~(i < j) /\ ~(j < i) BY <3>2, <1>6
    <3> QED BY <3>3
  <2> QED BY <2>1 DEF Once
<1>9. ASSUME NEW key, Ordered(q, key) PROVE Ordered(r, key)
  BY <1>5, <1>6, <1>9 DEF Ordered
<1>10. Len(r) <= Len(q)
  <2> DEFINE N == {n \in Nat : n <= Len(r) /\ n > 0 => f[n] >= n}
  <2>1. 0 \in N OBVIOUS
  <2>2. ASSUME NEW n \in N PROVE n + 1 \in N
    <3> SUFFICES ASSUME n + 1 <= Len(r) PROVE f[n + 1] >= n + 1
        OBVIOUS
    <3>1. n \in Nat /\ n + 1 \in 1..Len(r) BY <1>3
    <3>2. CASE n = 0
      BY <3>1, <3>2, <1>5
    <3>3. CASE n # 0
      <4>1. n \in 1..Len(r) /\ n > 0 /\ n <= Len(r) BY <3>1, <3>3, <1>3
      <4>2. f[n] >= n BY <4>1
      <4>3. f[n] < f[n + 1] BY <4>1, <3>1, <1>6
      <4>4. f[n] \in Int /\ f[n + 1] \in Int BY <4>1, <3>1, <1>5
      <4> QED BY <4>2, <4>3, <4>4, <3>1
    <3> QED BY <3>2, <3>3
  <2>3. N \in SUBSET Nat OBVIOUS
  <2>4. Len(r) \in N
    <3> HIDE DEF N
    <3> QED BY <2>1, <2>2, <2>3, <1>3, SetInduction
  <2>5. CASE Len(r) = 0
    BY <2>5, <1>0
  <2>6. CASE Len(r) # 0
    <3>1. f[Len(r)] >= Len(r) BY <2>4, <2>6, <1>3
    <3>2. f[Len(r)] \in 1..Len(q) BY <2>6, <1>3, <1>5
    <3> QED BY <3>1, <3>2, <1>0, <1>3
  <2> QED BY <2>5, <2>6
<1> QED BY <1>1, <1>7, <1>8, <1>9, <1>10 DEF r

(* If all entries belong to S, the queue is as it was; the first entry, if *)
(* it belongs to S, stays the first; and without it the queue is the rest. *)
LEMMA KeepEnds ==
    ASSUME NEW T, NEW q \in Seq(T), NEW S
    PROVE  /\ ToSet(q) \subseteq S => Keep(q, S) = q
           /\ q # <<>> /\ Head(q) \in S => Keep(q, S) # <<>> /\ Head(Keep(q, S)) = Head(q)
           /\ q # <<>> /\ Once(q) => Keep(q, T \ {Head(q)}) = Tail(q)
<1>0. Len(q) \in Nat /\ \A i \in 1..Len(q) : q[i] \in T BY LenProperties, ElementOfSeq
<1>1. ASSUME ToSet(q) \subseteq S PROVE Keep(q, S) = q
  <2>1. PICK f : Selects(f, Keep(q, S), q, S) BY KeepSelects
  <2>2. PICK k : /\ k[0] = <<>> /\ Keep(q, S) = k[Len(q)]
                 /\ \A n \in 1..Len(q) :
                       k[n] = IF q[n] \in S THEN Append(k[n - 1], q[n]) ELSE k[n - 1]
        BY KeepDefined
  <2>3. \A n \in 1..Len(q) : k[n] = Append(k[n - 1], q[n])
    <3>1. \A n \in 1..Len(q) : q[n] \in S BY <1>1, ToSetFacts
    <3> QED BY <2>2, <3>1
  <2> DEFINE N == {n \in Nat : n <= Len(q) => /\ k[n] \in Seq(T) /\ Len(k[n]) = n
                                              /\ \A i \in 1..n : k[n][i] = q[i]}
  <2>4. 0 \in N
    <3>1. k[0] \in Seq(T) /\ Len(k[0]) = 0 /\ 1..0 = {} BY <2>2
    <3> QED BY <3>1
  <2>5. ASSUME NEW n \in N PROVE n + 1 \in N
    <3> SUFFICES ASSUME n + 1 <= Len(q)
                 PROVE  /\ k[n + 1] \in Seq(T) /\ Len(k[n + 1]) = n + 1
                        /\ \A i \in 1..(n + 1) : k[n + 1][i] = q[i]
        OBVIOUS
    <3>1. n \in Nat /\ n <= Len(q) /\ n + 1 \in 1..Len(q) /\ (n + 1) - 1 = n BY <1>0
    <3>2. k[n] \in Seq(T) /\ Len(k[n]) = n /\ \A i \in 1..n : k[n][i] = q[i] BY <3>1
    <3>3. k[n + 1] = Append(k[n], q[n + 1]) BY <2>3, <3>1
    <3>4. /\ k[n + 1] \in Seq(T) /\ Len(k[n + 1]) = n + 1 /\ k[n + 1][n + 1] = q[n + 1]
          /\ \A i \in 1..n : k[n + 1][i] = k[n][i]
          BY <1>0, <3>1, <3>2, <3>3, AppendProperties
    <3>5. \A i \in 1..(n + 1) : i \in 1..n \/ i = n + 1 BY <3>1
    <3> QED BY <3>2, <3>4, <3>5
  <2>6. N \in SUBSET Nat OBVIOUS
  <2>7. Len(q) \in N
    <3> HIDE DEF N
    <3> QED BY <1>0, <2>4, <2>5, <2>6, SetInduction
  <2>8. k[Len(q)] \in Seq(T) /\ Len(k[Len(q)]) = Len(q)
        /\ \A i \in 1..Len(q) : k[Len(q)][i] = q[i]
        BY <2>7, <1>0
  <2> QED BY <2>2, <2>8, SeqEqual
<1>2. ASSUME q # <<>>, Head(q) \in S PROVE Keep(q, S) # <<>> /\ Head(Keep(q, S)) = Head(q)
  <2>1. PICK r : r = Keep(q, S) OBVIOUS
  <2>2. r \in Seq(T) /\ \E f : Selects(f, r, q, S) BY <2>1, KeepSelects
  <2>3. PICK f : Selects(f, r, q, S) BY <2>2
  <2>4. Len(r) \in Nat BY <2>2, LenProperties
  <2>5. 1 \in 1..Len(q) /\ q[1] = Head(q) BY <1>0, <1>2, ToSetFacts
  <2>6. PICK i \in 1..Len(r) : f[i] = 1 BY <1>2, <2>3, <2>5 DEF Selects
  <2>7. 1 \in 1..Len(r) /\ (i # 1 => 1 < i) BY <2>4
  <2>8. f[1] \in 1..Len(q) /\ (i # 1 => f[1] < f[i]) BY <2>3, <2>7 DEF Selects
  <2>9. f[1] = 1
    <3>1. ~(f[1] < 1) BY <1>0, <2>8
    <3> QED BY <2>6, <2>8, <3>1
  <2>10. r[1] = q[1] BY <2>3, <2>7, <2>9 DEF Selects
  <2>11. r # <<>> /\ Head(r) = r[1] BY <2>2, <2>7, ToSetFacts
  <2> QED BY <2>1, <2>5, <2>10, <2>11
<1>3. ASSUME q # <<>>, Once(q) PROVE Keep(q, T \ {Head(q)}) = Tail(q)
  <2>0. PICK C : C = T \ {Head(q)} OBVIOUS
  <2>1. PICK k : /\ k[0] = <<>> /\ Keep(q, C) = k[Len(q)]
                 /\ \A n \in 1..Len(q) :
                       k[n] = IF q[n] \in C THEN Append(k[n - 1], q[n]) ELSE k[n - 1]
        BY KeepDefined
  <2>2. Len(q) > 0 /\ 1 \in 1..Len(q) /\ q[1] = Head(q) BY <1>0, <1>3, ToSetFacts
  <2>3. k[1] = <<>> BY <2>0, <2>1, <2>2
  <2>4. \A n \in 1..Len(q) : n # 1 => k[n] = Append(k[n - 1], q[n])
    <3>1. \A n \in 1..Len(q) : n # 1 => q[n] \in C BY <1>0, <1>3, <2>0, <2>2 DEF Once
    <3> QED BY <2>1, <3>1
  <2> DEFINE N == {n \in Nat : n + 1 <= Len(q) =>
                      /\ k[n + 1] \in Seq(T) /\ Len(k[n + 1]) = n
                      /\ \A i \in 1..n : k[n + 1][i] = q[i + 1]}
  <2>5. 0 \in N
    <3>1. k[0 + 1] = <<>>
      <4>1. 0 + 1 = 1 OBVIOUS
      <4> QED BY <2>3, <4>1
    <3>2. 1..0 = {} /\ Len(<<>>) = 0 /\ <<>> \in Seq(T) OBVIOUS
    <3> QED BY <3>1, <3>2
  <2>6. ASSUME NEW n \in N PROVE n + 1 \in N
    <3> SUFFICES ASSUME n + 2 <= Len(q)
                 PROVE  /\ k[n + 2] \in Seq(T) /\ Len(k[n + 2]) = n + 1
                        /\ \A i \in 1..(n + 1) : k[n + 2][i] = q[i + 1]
      <4>1. (n + 1) + 1 = n + 2 BY <2>6
      <4> QED BY <4>1
    <3>1. /\ n \in Nat /\ n + 1 <= Len(q) /\ n + 2 \in 1..Len(q) /\ (n + 2) - 1 = n + 1
          /\ n + 2 # 1
          BY <1>0
    <3>2. k[n + 1] \in Seq(T) /\ Len(k[n + 1]) = n /\ \A i \in 1..n : k[n + 1][i] = q[i + 1]
          BY <3>1
    <3>3. k[n + 2] = Append(k[n + 1], q[n + 2]) BY <2>4, <3>1
    <3>4. /\ k[n + 2] \in Seq(T) /\ Len(k[n + 2]) = n + 1 /\ k[n + 2][n + 1] = q[n + 2]
          /\ \A i \in 1..n : k[n + 2][i] = k[n + 1][i]
          BY <1>0, <3>1, <3>2, <3>3, AppendProperties
    <3>5. \A i \in 1..(n + 1) : i \in 1..n \/ (i = n + 1 /\ i + 1 = n + 2) BY <3>1
    <3> QED BY <3>2, <3>4, <3>5
  <2>7. N \in SUBSET Nat OBVIOUS
  <2>8. Len(q) - 1 \in Nat /\ (Len(q) - 1) + 1 = Len(q) BY <1>0, <2>2
  <2>9. Len(q) - 1 \in N
    <3> HIDE DEF N
    <3> QED BY <2>8, <2>5, <2>6, <2>7, SetInduction
  <2>10. k[Len(q)] \in Seq(T) /\ Len(k[Len(q)]) = Len(q) - 1
         /\ \A i \in 1..(Len(q) - 1) : k[Len(q)][i] = q[i + 1]
    <3>1. k[(Len(q) - 1) + 1] \in Seq(T) /\ Len(k[(Len(q) - 1) + 1]) = Len(q) - 1
          /\ \A i \in 1..(Len(q) - 1) : k[(Len(q) - 1) + 1][i] = q[i + 1]
      <4>1. (Len(q) - 1) + 1 <= Len(q) BY <1>0, <2>8
      <4> QED BY <2>9, <4>1
    <3> QED BY <2>8, <3>1
  <2>11. /\ Tail(q) \in Seq(T) /\ Len(Tail(q)) = Len(q) - 1
         /\ \A i \in 1..(Len(q) - 1) : Tail(q)[i] = q[i + 1]
         BY <1>3, HeadTailProperties
  <2>12. k[Len(q)] = Tail(q)
    <3>1. PICK a : a = k[Len(q)] OBVIOUS
    <3>2. PICK b : b = Tail(q) OBVIOUS
    <3>3. /\ a \in Seq(T) /\ b \in Seq(T) /\ Len(a) = Len(b)
          /\ \A i \in 1..Len(a) : a[i] = b[i]
          BY <2>10, <2>11, <3>1, <3>2
    <3> QED BY <3>1, <3>2, <3>3, SeqEqual
  <2> QED BY <2>0, <2>1, <2>12
<1> QED BY <1>1, <1>2, <1>3

(* Filtering a queue that one entry was added to. *)
LEMMA KeepAppend ==
    ASSUME NEW T, NEW q \in Seq(T), NEW S, NEW x \in T
    PROVE  Keep(Append(q, x), S) = IF x \in S THEN Append(Keep(q, S), x) ELSE Keep(q, S)
<1>0. Len(q) \in Nat BY LenProperties
<1>1. PICK k : /\ k[0] = <<>> /\ Keep(q, S) = k[Len(q)]
               /\ \A n \in 1..Len(q) :
                     k[n] = IF q[n] \in S THEN Append(k[n - 1], q[n]) ELSE k[n - 1]
      BY KeepDefined
<1>2. PICK r : r = Append(q, x) OBVIOUS
<1>3. /\ r \in Seq(T) /\ Len(r) = Len(q) + 1 /\ r[Len(q) + 1] = x
      /\ \A i \in 1..Len(q) : r[i] = q[i]
      BY <1>2, AppendProperties
<1>4. PICK l : /\ l[0] = <<>> /\ Keep(r, S) = l[Len(r)]
               /\ \A n \in 1..Len(r) :
                     l[n] = IF r[n] \in S THEN Append(l[n - 1], r[n]) ELSE l[n - 1]
      BY <1>3, KeepDefined
<1> DEFINE N == {n \in Nat : n <= Len(q) => l[n] = k[n]}
<1>5. 0 \in N BY <1>1, <1>4
<1>6. ASSUME NEW n \in N PROVE n + 1 \in N
  <2> SUFFICES ASSUME n + 1 <= Len(q) PROVE l[n + 1] = k[n + 1]
      OBVIOUS
  <2>1. /\ n \in Nat /\ n <= Len(q) /\ n + 1 \in 1..Len(q) /\ n + 1 \in 1..Len(r)
        /\ (n + 1) - 1 = n
        BY <1>0, <1>3
  <2>2. l[n] = k[n] /\ r[n + 1] = q[n + 1] BY <1>3, <2>1
  <2> QED BY <1>1, <1>4, <2>1, <2>2
<1>7. N \in SUBSET Nat OBVIOUS
<1>8. l[Len(q)] = k[Len(q)]
  <2>1. Len(q) \in N
    <3> HIDE DEF N
    <3> QED BY <1>0, <1>5, <1>6, <1>7, SetInduction
  <2> QED BY <2>1, <1>0
<1>9. Len(r) \in 1..Len(r) /\ Len(r) - 1 = Len(q) BY <1>0, <1>3
<1> QED BY <1>1, <1>2, <1>3, <1>4, <1>8, <1>9

(* Filtering twice. *)
LEMMA KeepTwice ==
    ASSUME NEW T, NEW q \in Seq(T), NEW A, NEW B
    PROVE  Keep(Keep(q, A), B) = Keep(q, A \cap B)
<1>0. Len(q) \in Nat /\ \A i \in 1..Len(q) : q[i] \in T BY LenProperties, ElementOfSeq
<1>1. PICK k : /\ k[0] = <<>> /\ Keep(q, A) = k[Len(q)]
               /\ \A n \in 1..Len(q) :
                     k[n] = IF q[n] \in A THEN Append(k[n - 1], q[n]) ELSE k[n - 1]
      BY KeepDefined
<1>2. PICK l : /\ l[0] = <<>> /\ Keep(q, A \cap B) = l[Len(q)]
               /\ \A n \in 1..Len(q) :
                     l[n] = IF q[n] \in A \cap B THEN Append(l[n - 1], q[n]) ELSE l[n - 1]
      BY KeepDefined
<1> DEFINE N == {n \in Nat : n <= Len(q) => k[n] \in Seq(T) /\ Keep(k[n], B) = l[n]}
<1>3. 0 \in N
  <2>1. <<>> \in Seq(T) /\ ToSet(<<>>) = {} BY ToSetFacts
  <2>2. Keep(<<>>, B) = <<>> BY <2>1, KeepEnds
  <2> QED BY <1>1, <1>2, <2>1, <2>2
<1>4. ASSUME NEW n \in N PROVE n + 1 \in N
  <2> SUFFICES ASSUME n + 1 <= Len(q)
               PROVE  k[n + 1] \in Seq(T) /\ Keep(k[n + 1], B) = l[n + 1]
      OBVIOUS
  <2>1. n \in Nat /\ n <= Len(q) /\ n + 1 \in 1..Len(q) /\ (n + 1) - 1 = n BY <1>0
  <2>2. k[n] \in Seq(T) /\ Keep(k[n], B) = l[n] /\ q[n + 1] \in T BY <1>0, <2>1
  <2>3. CASE q[n + 1] \notin A
    <3>1. k[n + 1] = k[n] /\ l[n + 1] = l[n] BY <1>1, <1>2, <2>1, <2>3
    <3> QED BY <2>2, <3>1
  <2>4. CASE q[n + 1] \in A
    <3>1. k[n + 1] = Append(k[n], q[n + 1]) BY <1>1, <2>1, <2>4
    <3>2. k[n + 1] \in Seq(T) BY <2>2, <3>1, AppendProperties
    <3>3. Keep(k[n + 1], B) = IF q[n + 1] \in B THEN Append(l[n], q[n + 1]) ELSE l[n]
      <4>1. PICK p : p = k[n] OBVIOUS
      <4>2. PICK x : x = q[n + 1] OBVIOUS
      <4>3. p \in Seq(T) /\ x \in T BY <2>2, <4>1, <4>2
      <4>4. Keep(Append(p, x), B) = IF x \in B THEN Append(Keep(p, B), x) ELSE Keep(p, B)
            BY <4>3, KeepAppend
      <4> QED BY <2>2, <3>1, <4>1, <4>2, <4>4
    <3>4. l[n + 1] = IF q[n + 1] \in B THEN Append(l[n], q[n + 1]) ELSE l[n]
          BY <1>2, <2>1, <2>4
    <3> QED BY <3>2, <3>3, <3>4
  <2> QED BY <2>3, <2>4
<1>5. N \in SUBSET Nat OBVIOUS
<1>6. Keep(k[Len(q)], B) = l[Len(q)]
  <2>1. Len(q) \in N
    <3> HIDE DEF N
    <3> QED BY <1>0, <1>3, <1>4, <1>5, SetInduction
  <2> QED BY <2>1, <1>0
<1> QED BY <1>1, <1>2, <1>6

(* Two queues one behind the other: their order, and what is first. *)
LEMMA ConcatOrdered ==
    ASSUME NEW S, NEW a \in Seq(S), NEW b \in Seq(S)
    PROVE  /\ \A key : /\ Ordered(a, key) /\ Ordered(b, key)
                       /\ \A x \in ToSet(a), y \in ToSet(b) : key[x] <= key[y]
                       => Ordered(a \o b, key)
           /\ a # <<>> => a \o b # <<>> /\ Head(a \o b) = Head(a)
           /\ a = <<>> => a \o b = b
<1>0. Len(a) \in Nat /\ Len(b) \in Nat BY LenProperties
<1>1. PICK r : r = a \o b OBVIOUS
<1>2. /\ r \in Seq(S) /\ Len(r) = Len(a) + Len(b)
      /\ \A i \in 1..(Len(a) + Len(b)) : r[i] = IF i <= Len(a) THEN a[i] ELSE b[i - Len(a)]
      BY <1>1, ConcatProperties
<1>3. \A i \in 1..(Len(a) + Len(b)) :
          \/ i \in 1..Len(a) /\ r[i] = a[i]
          \/ i > Len(a) /\ i - Len(a) \in 1..Len(b) /\ r[i] = b[i - Len(a)]
      BY <1>0, <1>2
<1>4. ASSUME NEW key, Ordered(a, key), Ordered(b, key),
             \A x \in ToSet(a), y \in ToSet(b) : key[x] <= key[y]
      PROVE  Ordered(r, key)
  <2>1. /\ \A i \in 1..Len(a) : a[i] \in ToSet(a)
        /\ \A i \in 1..Len(b) : b[i] \in ToSet(b)
        BY ToSetFacts
  <2>2. ASSUME NEW i \in 1..(Len(a) + Len(b)), NEW j \in 1..(Len(a) + Len(b)), i < j
        PROVE  key[r[i]] <= key[r[j]]
    <3>1. CASE i \in 1..Len(a) /\ r[i] = a[i]
      <4>1. CASE j \in 1..Len(a) /\ r[j] = a[j]
        BY <1>4, <2>2, <3>1, <4>1 DEF Ordered
      <4>2. CASE j > Len(a) /\ j - Len(a) \in 1..Len(b) /\ r[j] = b[j - Len(a)]
        BY <1>4, <2>1, <3>1, <4>2
      <4> QED BY <1>3, <4>1, <4>2
    <3>2. CASE i > Len(a) /\ i - Len(a) \in 1..Len(b) /\ r[i] = b[i - Len(a)]
      <4>1. j > Len(a) /\ j \notin 1..Len(a) BY <1>0, <2>2, <3>2
      <4>2. j - Len(a) \in 1..Len(b) /\ r[j] = b[j - Len(a)] BY <1>3, <4>1
      <4>3. i - Len(a) < j - Len(a) BY <1>0, <2>2
      <4> QED BY <1>4, <3>2, <4>2, <4>3 DEF Ordered
    <3> QED BY <1>3, <3>1, <3>2
  <2> QED BY <1>2, <2>2 DEF Ordered
<1>5. ASSUME a # <<>> PROVE r # <<>> /\ Head(r) = Head(a)
  <2>1. Len(a) > 0 BY <1>5, ToSetFacts
  <2>2. 1 \in 1..(Len(a) + Len(b)) /\ 1 <= Len(a) /\ Len(r) > 0 BY <1>0, <1>2, <2>1
  <2>3. r[1] = a[1] BY <1>2, <2>2
  <2>4. r # <<>> BY <1>2, <2>2, ToSetFacts
  <2>5. Head(r) = r[1] /\ Head(a) = a[1] BY <1>2, <1>5, <2>4
  <2> QED BY <2>3, <2>4, <2>5
<1>6. a = <<>> => r = b BY <1>1
<1> QED BY <1>1, <1>4, <1>5, <1>6

-----------------------------------------------------------------------------
(* RINGS                                                                   *)

(* The place n behind p in a ring of S places, and how far i lies behind p. *)
Walk(S, p, n) ==
    IF S - p < n THEN n - (S - p) ELSE IF p + n >= S THEN 0 ELSE p + n
Back(S, p, i) == IF i >= p THEN i - p ELSE i + S - p

LEMMA WalkFacts ==
    ASSUME NEW S \in Nat, NEW p \in Nat, p < S, NEW n \in Nat, n <= S
    PROVE  /\ Walk(S, p, n) = IF p + n >= S THEN p + n - S ELSE p + n
           /\ Walk(S, p, n) \in Nat /\ Walk(S, p, n) < S
BY DEF Walk

(* LEMMA: two walks are one. *)
LEMMA WalkWalk ==
    ASSUME NEW S \in Nat, NEW p \in Nat, p < S, NEW a \in Nat, NEW b \in Nat, a + b <= S
    PROVE  Walk(S, Walk(S, p, a), b) = Walk(S, p, a + b)
<1>1. PICK w \in Nat : w = Walk(S, p, a) /\ w < S BY WalkFacts
<1>2. w = IF p + a >= S THEN p + a - S ELSE p + a BY <1>1 DEF Walk
<1>3. Walk(S, w, b) = IF w + b >= S THEN w + b - S ELSE w + b BY <1>1 DEF Walk
<1>4. Walk(S, p, a + b) = IF p + (a + b) >= S THEN p + (a + b) - S ELSE p + (a + b)
  BY WalkFacts
<1>5. Walk(S, w, b) = Walk(S, p, a + b) BY <1>1, <1>2, <1>3, <1>4
<1> QED BY <1>1, <1>5

(* LEMMA: the distance between two places of a walk. *)
LEMMA BackWalk ==
    ASSUME NEW S \in Nat, NEW p \in Nat, p < S, NEW a \in Nat, a <= S, NEW d \in Nat, d < S
    PROVE  Back(S, Walk(S, p, a), Walk(S, p, d)) = IF d >= a THEN d - a ELSE d - a + S
<1>1. PICK w \in Nat : w = Walk(S, p, a) /\ w < S BY WalkFacts
<1>2. PICK v \in Nat : v = Walk(S, p, d) /\ v < S BY WalkFacts
<1>3. w = IF p + a >= S THEN p + a - S ELSE p + a BY <1>1 DEF Walk
<1>4. v = IF p + d >= S THEN p + d - S ELSE p + d BY <1>2 DEF Walk
<1>5. Back(S, w, v) = IF d >= a THEN d - a ELSE d - a + S BY <1>1, <1>2, <1>3, <1>4 DEF Back
<1> QED BY <1>1, <1>2, <1>5

(* LEMMA: there are the partial sums of a sequence. *)
LEMMA SumsDefined ==
    ASSUME NEW n \in Nat, NEW f
    PROVE  \E b : b = [j \in 0..n |-> IF j = 0 THEN 0 ELSE b[j - 1] + f[j]]
<1> DEFINE B(g, j) == IF j = 0 THEN 0 ELSE g[j - 1] + f[j]
           N == {k \in Nat : \E g : \A i \in 0..k : g[i] = B(g, i)}
<1>1. 0 \in N
  <2>1. \A i \in 0..0 : [j \in {0} |-> 0][i] = B([j \in {0} |-> 0], i) OBVIOUS
  <2> QED BY <2>1
<1>2. ASSUME NEW k \in N PROVE k + 1 \in N
  <2>1. PICK g : \A i \in 0..k : g[i] = B(g, i) OBVIOUS
  <2> DEFINE h == [i \in 0..(k + 1) |-> IF i = k + 1 THEN B(g, k + 1) ELSE g[i]]
  <2>2. ASSUME NEW i \in 0..(k + 1) PROVE h[i] = B(h, i)
    <3>1. CASE i = k + 1
      <4>1. h[i] = B(g, k + 1) BY <3>1
      <4>2. i # 0 /\ i - 1 = k /\ k \in 0..(k + 1) /\ k # k + 1 BY <3>1
      <4>3. h[i - 1] = g[i - 1] BY <4>2
      <4> QED BY <4>1, <4>2, <4>3, <3>1
    <3>2. CASE i # k + 1
      <4>1. i \in 0..k BY <3>2
      <4>2. h[i] = g[i] /\ g[i] = B(g, i) BY <4>1, <3>2, <2>1
      <4>3. CASE i = 0
        BY <4>2, <4>3
      <4>4. CASE i # 0
        <5>1. i - 1 \in 0..(k + 1) /\ i - 1 # k + 1 BY <4>1, <4>4
        <5>2. h[i - 1] = g[i - 1] BY <5>1
        <5> QED BY <5>2, <4>2, <4>4
      <4> QED BY <4>3, <4>4
    <3> QED BY <3>1, <3>2
  <2>3. k + 1 \in Nat OBVIOUS
  <2> HIDE DEF h
  <2> QED BY <2>2, <2>3
<1>3. N = Nat
  <2>1. N \in SUBSET Nat OBVIOUS
  <2> HIDE DEF N
  <2> QED BY <2>1, <1>1, <1>2, SetInduction
<1>4. PICK g : \A i \in 0..n : g[i] = B(g, i)
  <2>1. n \in N BY <1>3
  <2> QED BY <2>1
<1> DEFINE h == [j \in 0..n |-> g[j]]
<1>5. ASSUME NEW j \in 0..n PROVE h[j] = B(h, j)
  <2>1. h[j] = B(g, j) BY <1>4
  <2>2. CASE j = 0
    BY <2>1, <2>2
  <2>3. CASE j # 0
    <3>1. j - 1 \in 0..n BY <2>3
    <3>2. h[j - 1] = g[j - 1] BY <3>1
    <3> QED BY <3>2, <2>1, <2>3
  <2> QED BY <2>2, <2>3
<1>6. h = [j \in 0..n |-> h[j]] OBVIOUS
<1> HIDE DEF h
<1>7. h = [j \in 0..n |-> B(h, j)] BY <1>5, <1>6
<1> QED BY <1>7

(* LEMMA: sums that begin alike and grow alike are the same. *)
LEMMA SumsAgree ==
    ASSUME NEW n \in Nat, NEW a \in [0..n -> Nat], NEW b \in [0..n -> Nat], a[0] = b[0],
           \A k \in 1..n : a[k - 1] = b[k - 1] => a[k] = b[k]
    PROVE  a = b
<1> DEFINE N == {k \in Nat : k <= n => a[k] = b[k]}
<1>1. 0 \in N OBVIOUS
<1>2. ASSUME NEW k \in N PROVE k + 1 \in N
  <2> SUFFICES ASSUME k + 1 <= n PROVE a[k + 1] = b[k + 1] OBVIOUS
  <2>1. k + 1 \in 1..n /\ (k + 1) - 1 = k /\ a[k] = b[k] OBVIOUS
  <2> QED BY <2>1
<1>3. N = Nat
  <2>1. N \in SUBSET Nat OBVIOUS
  <2> HIDE DEF N
  <2> QED BY <2>1, <1>1, <1>2, SetInduction
<1>4. \A k \in 0..n : a[k] = b[k] BY <1>3
<1> QED BY <1>4

(* LEMMA: sums of natural numbers grow. *)
LEMMA SumsGrow ==
    ASSUME NEW n \in Nat, NEW a, NEW f, a[0] = 0,
           \A k \in 1..n : f[k] \in Nat /\ a[k] = a[k - 1] + f[k]
    PROVE  /\ \A k \in 0..n : a[k] \in Nat
           /\ \A j \in 0..n, k \in 0..n : j <= k => a[j] <= a[k]
<1> DEFINE N == {k \in Nat : k <= n => a[k] \in Nat /\ \A j \in 0..k : a[j] \in Nat /\ a[j] <= a[k]}
<1>1. 0 \in N OBVIOUS
<1>2. ASSUME NEW k \in N PROVE k + 1 \in N
  <2> SUFFICES ASSUME k + 1 <= n
               PROVE  a[k + 1] \in Nat /\ \A j \in 0..(k + 1) : a[j] \in Nat /\ a[j] <= a[k + 1]
    OBVIOUS
  <2>1. k + 1 \in 1..n /\ (k + 1) - 1 = k OBVIOUS
  <2>2. a[k] \in Nat /\ \A j \in 0..k : a[j] \in Nat /\ a[j] <= a[k] OBVIOUS
  <2>3. a[k + 1] = a[k] + f[k + 1] /\ f[k + 1] \in Nat BY <2>1
  <2>4. a[k + 1] \in Nat /\ a[k] <= a[k + 1] BY <2>2, <2>3
  <2>5. \A j \in 0..(k + 1) : j \in 0..k \/ j = k + 1 OBVIOUS
  <2> QED BY <2>2, <2>4, <2>5
<1>3. N = Nat
  <2>1. N \in SUBSET Nat OBVIOUS
  <2> HIDE DEF N
  <2> QED BY <2>1, <1>1, <1>2, SetInduction
<1>4. ASSUME NEW j \in 0..n, NEW k \in 0..n PROVE a[k] \in Nat /\ (j <= k => a[j] <= a[k])
  <2>1. k \in N BY <1>3
  <2> QED BY <2>1
<1> QED BY <1>4
-----------------------------------------------------------------------------
(* ITERATION                                                               *)

(* LEMMA: what holds of the first value, and of each by the one before,    *)
(* holds of all: value i lies in W[i].                                     *)
LEMMA StaysIn ==
    ASSUME NEW W, NEW n \in Nat, NEW F, F[0] \in W[0],
           \A i \in 1..n : F[i - 1] \in W[i - 1] => F[i] \in W[i]
    PROVE  \A i \in 0..n : F[i] \in W[i]
<1> DEFINE N == {i \in Nat : i <= n => F[i] \in W[i]}
<1>1. 0 \in N OBVIOUS
<1>2. ASSUME NEW i \in N PROVE i + 1 \in N
  <2> SUFFICES ASSUME i + 1 <= n PROVE F[i + 1] \in W[i + 1] OBVIOUS
  <2>1. i + 1 \in 1..n /\ (i + 1) - 1 = i /\ F[i] \in W[i] OBVIOUS
  <2> QED BY <2>1
<1>3. N = Nat
  <2>1. N \in SUBSET Nat OBVIOUS
  <2> HIDE DEF N
  <2> QED BY <2>1, <1>1, <1>2, SetInduction
<1> QED BY <1>3

(* The values that step i leads to from b, from one to the next. *)
Iterated(g, n, b, f) == g = [i \in 0..n |-> IF i = 0 THEN b ELSE f[i][g[i - 1]]]

(* LEMMA: the values that step i leads to, from one to the next, exist,    *)
(* when step i leads from W[i - 1] to W[i].                                *)
LEMMA Iterates ==
    ASSUME NEW W, NEW n \in Nat, NEW b \in W[0], NEW f,
           \A i \in 1..n : \A x \in W[i - 1] : f[i][x] \in W[i]
    PROVE  \E g : Iterated(g, n, b, f) /\ \A i \in 0..n : g[i] \in W[i]
<1> DEFINE B(g, i) == IF i = 0 THEN b ELSE f[i][g[i - 1]]
           N == {k \in Nat : k <= n => \E g : \A i \in 0..k : g[i] = B(g, i) /\ g[i] \in W[i]}
<1>1. 0 \in N
  <2> DEFINE g == [j \in 0..0 |-> b]
  <2>1. \A i \in 0..0 : i = 0 /\ g[i] = b OBVIOUS
  <2>2. \A i \in 0..0 : g[i] = B(g, i) /\ g[i] \in W[i] BY <2>1
  <2> HIDE DEF g
  <2> QED BY <2>2
<1>2. ASSUME NEW k \in N PROVE k + 1 \in N
  <2> SUFFICES ASSUME k + 1 <= n
               PROVE  \E g : \A i \in 0..(k + 1) : g[i] = B(g, i) /\ g[i] \in W[i]
    OBVIOUS
  <2>1. PICK g : \A i \in 0..k : g[i] = B(g, i) /\ g[i] \in W[i] OBVIOUS
  <2> DEFINE h == [i \in 0..(k + 1) |-> IF i = k + 1 THEN f[k + 1][g[k]] ELSE g[i]]
  <2>2. k + 1 \in 1..n /\ g[k] \in W[k] /\ (k + 1) - 1 = k BY <2>1
  <2>3. f[k + 1][g[k]] \in W[k + 1] BY <2>2
  <2>4. ASSUME NEW i \in 0..(k + 1) PROVE h[i] = B(h, i) /\ h[i] \in W[i]
    <3>1. CASE i = k + 1
      <4>1. i # 0 /\ i - 1 = k /\ k \in 0..(k + 1) /\ k # k + 1 BY <3>1
      <4>2. h[k] = g[k] /\ h[i] = f[k + 1][g[k]] BY <4>1, <3>1
      <4> QED BY <4>1, <4>2, <3>1, <2>3
    <3>2. CASE i # k + 1
      <4>1. i \in 0..k BY <3>2
      <4>2. h[i] = g[i] /\ g[i] = B(g, i) /\ g[i] \in W[i] BY <4>1, <3>2, <2>1
      <4>3. i # 0 => i - 1 \in 0..(k + 1) /\ i - 1 # k + 1 BY <4>1
      <4>4. i # 0 => h[i - 1] = g[i - 1] BY <4>3
      <4> QED BY <4>2, <4>4
    <3> QED BY <3>1, <3>2
  <2> HIDE DEF h
  <2> QED BY <2>4
<1>3. N = Nat
  <2>1. N \in SUBSET Nat OBVIOUS
  <2> HIDE DEF N
  <2> QED BY <2>1, <1>1, <1>2, SetInduction
<1>4. PICK g : \A i \in 0..n : g[i] = B(g, i) /\ g[i] \in W[i] BY <1>3
<1> DEFINE h == [i \in 0..n |-> g[i]]
<1>5. \A i \in 0..n : h[i] = g[i] /\ (i # 0 => i - 1 \in 0..n /\ h[i - 1] = g[i - 1]) OBVIOUS
<1>6. \A i \in 0..n : h[i] = B(h, i) /\ h[i] \in W[i] BY <1>4, <1>5
<1>7. h = [i \in 0..n |-> h[i]] OBVIOUS
<1> HIDE DEF h
<1>8. h = [i \in 0..n |-> B(h, i)] BY <1>6, <1>7
<1>9. Iterated(h, n, b, f) BY <1>8 DEF Iterated
<1> QED BY <1>6, <1>9

-----------------------------------------------------------------------------
(* THE SYSTEM TIME AND THE TIMER QUEUE                                     *)

LEMMA WordFacts == Word \in Nat /\ Word > 0
BY WordAssumption

(* A carry is worth one word. *)
LEMMA Carry ==
    \A m, n \in Nat : /\ m * Word \in Nat
                      /\ (m + 1) * Word = m * Word + Word
                      /\ m > n => m * Word >= n * Word + Word
<1>1. \A m \in Nat : m * Word \in Nat /\ (m + 1) * Word = m * Word + Word
      BY WordFacts
<1>2. ASSUME NEW m \in Nat, NEW n \in Nat, m > n PROVE m * Word >= n * Word + Word
  <2>1. m >= n + 1 BY <1>2
  <2>2. m * Word >= (n + 1) * Word BY <2>1, WordFacts
  <2> QED BY <2>2, <1>1
<1> QED BY <1>1, <1>2

LEMMA ValueType == \A s \in Stamp : Value(s) \in Nat
BY Carry DEF Stamp, Value, UW

(* Advance is exact: the carry is recognised whenever there is one. *)
LEMMA AdvanceExact ==
    ASSUME NEW s \in Stamp, NEW d \in UW
    PROVE  Advance(s, d) \in Stamp /\ Value(Advance(s, d)) = Value(s) + d
<1> DEFINE l == s.ltime + d
<1>1. s.utime \in Nat /\ s.ltime \in UW /\ s.ltime \in Nat /\ d \in Nat
      /\ s.ltime < Word /\ d < Word
      BY WordFacts DEF Stamp, UW
<1>2. CASE l < Word
  <2>1. l % Word = l BY <1>1, <1>2, WordFacts
  <2>2. Advance(s, d) = [utime |-> s.utime, ltime |-> l] BY <1>1, <2>1 DEF Advance
  <2> QED BY <1>1, <1>2, <2>2, WordFacts, Carry DEF Stamp, UW, Value
<1>3. CASE l >= Word
  <2>1. l % Word = l - Word BY <1>1, <1>3, WordFacts
  <2>2. l - Word < s.ltime BY <1>1, <1>3, WordFacts
  <2>3. Advance(s, d) = [utime |-> s.utime + 1, ltime |-> l - Word]
        BY <2>1, <2>2 DEF Advance
  <2>4. Advance(s, d) \in Stamp BY <1>1, <1>3, <2>2, <2>3, WordFacts DEF Stamp, UW
  <2>5. Value(Advance(s, d)) = (s.utime + 1) * Word + (l - Word) BY <2>3 DEF Value
  <2>6. (s.utime + 1) * Word = s.utime * Word + Word /\ s.utime * Word \in Nat BY <1>1, Carry
  <2> QED BY <1>1, <2>4, <2>5, <2>6, WordFacts DEF Value
<1> QED BY <1>1, <1>2, <1>3, WordFacts

(* Comparing the words one after the other compares the times. *)
LEMMA LaterMeans ==
    ASSUME NEW a \in Stamp, NEW b \in Stamp
    PROVE  Later(a, b) <=> Value(a) > Value(b)
<1>1. /\ a.utime \in Nat /\ a.ltime \in Nat /\ a.ltime < Word
      /\ b.utime \in Nat /\ b.ltime \in Nat /\ b.ltime < Word
      BY WordFacts DEF Stamp, UW
<1>2. /\ a.utime * Word \in Nat /\ b.utime * Word \in Nat
      /\ a.utime > b.utime => a.utime * Word >= b.utime * Word + Word
      /\ b.utime > a.utime => b.utime * Word >= a.utime * Word + Word
      BY <1>1, Carry
<1>3. CASE a.utime = b.utime
  BY <1>1, <1>2, <1>3, WordFacts DEF Later, Value
<1>4. CASE a.utime > b.utime
  BY <1>1, <1>2, <1>4, WordFacts DEF Later, Value
<1>5. CASE a.utime < b.utime
  BY <1>1, <1>2, <1>5, WordFacts DEF Later, Value
<1> QED BY <1>1, <1>3, <1>4, <1>5

-----------------------------------------------------------------------------
(* THE QUEUE                                                               *)

(* The entries of q come in the order in which they are due. *)
InTime(q, stime) ==
    \A i, j \in 1..Len(q) : i < j => Value(stime[q[i]]) <= Value(stime[q[j]])

LEMMA InTimeOrdered ==
    ASSUME NEW O, NEW q \in Seq(O), NEW stime \in [O -> Stamp]
    PROVE  InTime(q, stime) <=> Ordered(q, [x \in O |-> Value(stime[x])])
<1>1. \A i \in 1..Len(q) : q[i] \in O BY ElementOfSeq
<1> QED BY <1>1 DEF InTime, Ordered

(* The times of other entries do not matter. *)
LEMMA InTimeKept ==
    ASSUME NEW O, NEW q \in Seq(O), NEW st1, NEW st2,
           \A x \in ToSet(q) : st1[x] = st2[x], InTime(q, st1)
    PROVE  InTime(q, st2)
<1>1. \A i \in 1..Len(q) : q[i] \in ToSet(q) BY ToSetFacts
<1> QED BY <1>1 DEF InTime

LEMMA FirstLaterFacts ==
    ASSUME NEW O, NEW q \in Seq(O), NEW stime \in [O -> Stamp], NEW s \in Stamp
    PROVE  /\ FirstLater(q, stime, s) \in 1..(Len(q) + 1)
           /\ \A i \in 1..(FirstLater(q, stime, s) - 1) : Value(stime[q[i]]) <= Value(s)
           /\ InTime(q, stime) =>
                 \A i \in FirstLater(q, stime, s)..Len(q) : Value(stime[q[i]]) > Value(s)
<1> DEFINE k == FirstLater(q, stime, s)
<1>0. Len(q) \in Nat BY LenProperties
<1>1. \A i \in 1..Len(q) : q[i] \in O /\ stime[q[i]] \in Stamp BY ElementOfSeq
<1>2. \E m \in 1..(Len(q) + 1) :
         /\ \A i \in 1..(m - 1) : ~Later(stime[q[i]], s)
         /\ m <= Len(q) => Later(stime[q[m]], s)
  <2> DEFINE T == {i \in 1..Len(q) : Later(stime[q[i]], s)}
  <2>1. PICK m \in 1..(Len(q) + 1) : /\ \A i \in 1..(m - 1) : i \notin T
                                     /\ m <= Len(q) => m \in T
    <3> HIDE DEF T
    <3> QED BY <1>0, FirstPosition
  <2>2. \A i \in 1..(m - 1) : i \in 1..Len(q) BY <1>0
  <2> QED BY <2>1, <2>2
<1>3. /\ k \in 1..(Len(q) + 1)
      /\ \A i \in 1..(k - 1) : ~Later(stime[q[i]], s)
      /\ k <= Len(q) => Later(stime[q[k]], s)
  BY <1>2 DEF FirstLater
<1> HIDE DEF k
<1>4. ASSUME NEW i \in 1..(k - 1) PROVE Value(stime[q[i]]) <= Value(s)
  <2>1. i \in 1..Len(q) BY <1>0, <1>3
  <2>2. ~(Value(stime[q[i]]) > Value(s)) BY <2>1, <1>1, <1>3, LaterMeans
  <2>3. Value(stime[q[i]]) \in Nat /\ Value(s) \in Nat BY <2>1, <1>1, ValueType
  <2> QED BY <2>2, <2>3
<1>5. ASSUME InTime(q, stime), NEW i \in k..Len(q) PROVE Value(stime[q[i]]) > Value(s)
  <2>1. k \in 1..Len(q) /\ i \in 1..Len(q) BY <1>0, <1>3
  <2>2. Value(stime[q[k]]) > Value(s) BY <2>1, <1>1, <1>3, LaterMeans
  <2>3. k = i \/ k < i BY <2>1
  <2>4. k < i => Value(stime[q[k]]) <= Value(stime[q[i]]) BY <2>1, <1>5 DEF InTime
  <2>5. Value(stime[q[i]]) \in Nat /\ Value(stime[q[k]]) \in Nat /\ Value(s) \in Nat
        BY <2>1, <1>1, ValueType
  <2> QED BY <2>2, <2>3, <2>4, <2>5
<1> QED BY <1>3, <1>4, <1>5 DEF k

(* Connecting an entry that is not connected. *)
LEMMA EnqTimFacts ==
    ASSUME NEW O, NEW q \in Seq(O), NEW stime \in [O -> Stamp], NEW x \in O,
           Once(q), x \notin ToSet(q), InTime(q, stime)
    PROVE  /\ EnqTim(q, stime, x) \in Seq(O)
           /\ ToSet(EnqTim(q, stime, x)) = ToSet(q) \cup {x}
           /\ Once(EnqTim(q, stime, x))
           /\ InTime(EnqTim(q, stime, x), stime)
<1>1. PICK k \in 1..(Len(q) + 1) : k = FirstLater(q, stime, stime[x])
      BY FirstLaterFacts
<1>2. /\ \A i \in 1..(k - 1) : Value(stime[q[i]]) <= Value(stime[x])
      /\ \A i \in k..Len(q) : Value(stime[q[i]]) > Value(stime[x])
      BY <1>1, FirstLaterFacts
<1>3. EnqTim(q, stime, x) = InsertAt(q, k, x)
      BY <1>1 DEF EnqTim
<1>4. InsertAt(q, k, x) \in Seq(O) BY InsertAtFacts
<1>5. /\ ToSet(InsertAt(q, k, x)) = ToSet(q) \cup {x}
      /\ Once(InsertAt(q, k, x))
      BY InsertAtOnce
<1>6. InTime(InsertAt(q, k, x), stime)
  <2> DEFINE key == [y \in O |-> Value(stime[y])]
  <2>0. Len(q) \in Nat BY LenProperties
  <2>1. \A i \in 1..Len(q) : q[i] \in O BY ElementOfSeq
  <2>2. \A y \in O : key[y] = Value(stime[y]) /\ key[y] \in Nat BY ValueType
  <2>3. Ordered(q, key) BY InTimeOrdered
  <2> HIDE DEF key
  <2>4. ASSUME NEW i \in 1..(k - 1) PROVE key[q[i]] <= key[x]
    <3>1. i \in 1..Len(q) BY <2>0
    <3> QED BY <3>1, <1>2, <2>1, <2>2
  <2>5. ASSUME NEW i \in k..Len(q) PROVE key[x] <= key[q[i]]
    <3>1. i \in 1..Len(q) BY <2>0
    <3>2. key[q[i]] > key[x] /\ key[q[i]] \in Nat /\ key[x] \in Nat BY <3>1, <1>2, <2>1, <2>2
    <3> QED BY <3>2
  <2>6. Ordered(InsertAt(q, k, x), key) BY <2>2, <2>3, <2>4, <2>5, InsertAtOrdered
  <2> QED BY <2>6, <1>4, InTimeOrdered DEF key
<1> QED BY <1>3, <1>4, <1>5, <1>6

(* Disconnecting one that may be. *)
LEMMA UnlinkFacts ==
    ASSUME NEW O, NEW q \in Seq(O), NEW stime \in [O -> Stamp], NEW x, Once(q)
    PROVE  /\ Unlink(q, x) \in Seq(O)
           /\ ToSet(Unlink(q, x)) = ToSet(q) \ {x}
           /\ Once(Unlink(q, x))
           /\ InTime(q, stime) => InTime(Unlink(q, x), stime)
<1>1. /\ Unlink(q, x) \in Seq(O)
      /\ ToSet(Unlink(q, x)) = ToSet(q) \ {x}
      /\ Once(Unlink(q, x))
      /\ \A key : Ordered(q, key) => Ordered(Unlink(q, x), key)
      BY RemoveFirstOnce DEF Unlink
<1> QED BY <1>1, InTimeOrdered

(* A tick takes off exactly the entries whose time has come. *)
LEMMA DueFacts ==
    ASSUME NEW O, NEW q \in Seq(O), NEW stime \in [O -> Stamp], NEW now \in Stamp,
           Once(q), InTime(q, stime)
    PROVE  /\ DueOf(q, stime, now) \in Seq(O) /\ RestOf(q, stime, now) \in Seq(O)
           /\ \A x : x \in ToSet(DueOf(q, stime, now)) <=>
                        x \in ToSet(q) /\ Value(stime[x]) <= Value(now)
           /\ \A x : x \in ToSet(RestOf(q, stime, now)) <=>
                        x \in ToSet(q) /\ Value(stime[x]) > Value(now)
           /\ Once(DueOf(q, stime, now)) /\ Once(RestOf(q, stime, now))
           /\ InTime(RestOf(q, stime, now), stime)
<1>0. Len(q) \in Nat BY LenProperties
<1>1. PICK k \in 1..(Len(q) + 1) : k = FirstLater(q, stime, now)
      BY FirstLaterFacts
<1>2. /\ \A i \in 1..(k - 1) : Value(stime[q[i]]) <= Value(now)
      /\ \A i \in k..Len(q) : Value(stime[q[i]]) > Value(now)
      BY <1>1, FirstLaterFacts
<1>3. DueOf(q, stime, now) = Before(q, k) /\ RestOf(q, stime, now) = From(q, k)
      BY <1>1 DEF DueOf, RestOf, Before, From
<1>4. /\ Before(q, k) \in Seq(O) /\ From(q, k) \in Seq(O)
      /\ \A x : x \in ToSet(Before(q, k)) <=> \E i \in 1..(k - 1) : q[i] = x
      /\ \A x : x \in ToSet(From(q, k)) <=> \E i \in k..Len(q) : q[i] = x
      /\ ToSet(q) = ToSet(Before(q, k)) \cup ToSet(From(q, k))
      /\ Once(Before(q, k)) /\ Once(From(q, k))
      /\ \A key : Ordered(q, key) => Ordered(From(q, k), key)
      BY SplitOnce
<1>5. \A x \in ToSet(q) : x \in O /\ Value(stime[x]) \in Nat
  <2>1. ToSet(q) \subseteq O BY ToSetFacts
  <2> QED BY <2>1, ValueType
<1>6. Value(now) \in Nat BY ValueType
<1>7. \A x : x \in ToSet(Before(q, k)) => Value(stime[x]) <= Value(now)
      BY <1>2, <1>4
<1>8. \A x : x \in ToSet(From(q, k)) => Value(stime[x]) > Value(now)
      BY <1>2, <1>4
<1>9. ASSUME NEW x
      PROVE  /\ x \in ToSet(Before(q, k)) <=> x \in ToSet(q) /\ Value(stime[x]) <= Value(now)
             /\ x \in ToSet(From(q, k)) <=> x \in ToSet(q) /\ Value(stime[x]) > Value(now)
  <2>1. x \in ToSet(q) => ~(Value(stime[x]) <= Value(now) /\ Value(stime[x]) > Value(now))
        BY <1>5, <1>6
  <2> QED BY <2>1, <1>4, <1>7, <1>8
<1>10. InTime(From(q, k), stime)
      BY <1>4, InTimeOrdered
<1> QED BY <1>3, <1>4, <1>9, <1>10

-----------------------------------------------------------------------------
(* LINES: ONE QUEUE BEHIND ANOTHER                                         *)

(* LEMMA: who comes last, comes last behind other queues too. *)
LEMMA ConcatAppend ==
    ASSUME NEW T, NEW a \in Seq(T), NEW b \in Seq(T), NEW x \in T
    PROVE  a \o Append(b, x) = Append(a \o b, x)
<1>1. <<x>> \in Seq(T) OBVIOUS
<1>2. a \o b \in Seq(T) BY ConcatProperties
<1>3. Append(b, x) = b \o <<x>> BY AppendIsConcat
<1>4. Append(a \o b, x) = (a \o b) \o <<x>> BY <1>2, AppendIsConcat
<1>5. (a \o b) \o <<x>> = a \o (b \o <<x>>) BY <1>1, ConcatAssociative
<1> QED BY <1>3, <1>4, <1>5

(* LEMMA: a line is filtered part by part. *)
LEMMA KeepConcat ==
    ASSUME NEW T, NEW a \in Seq(T), NEW b \in Seq(T)
    PROVE  \A S : Keep(a \o b, S) = Keep(a, S) \o Keep(b, S)
<1> SUFFICES ASSUME NEW S PROVE Keep(a \o b, S) = Keep(a, S) \o Keep(b, S)
    OBVIOUS
<1> DEFINE N == {n \in Nat : \A c \in Seq(T) :
                    Len(c) = n => Keep(a \o c, S) = Keep(a, S) \o Keep(c, S)}
<1>0. Len(b) \in Nat /\ Keep(a, S) \in Seq(T) BY LenProperties, KeepOnce
<1>1. 0 \in N
  <2> SUFFICES ASSUME NEW c \in Seq(T), Len(c) = 0
               PROVE  Keep(a \o c, S) = Keep(a, S) \o Keep(c, S)
      OBVIOUS
  <2>1. c = <<>> BY EmptySeq
  <2>2. ToSet(c) = {} BY <2>1, ToSetFacts
  <2>3. Keep(c, S) = <<>> BY <2>1, <2>2, KeepEnds
  <2> QED BY <1>0, <2>1, <2>3, ConcatEmptySeq
<1>2. ASSUME NEW n \in N PROVE n + 1 \in N
  <2> SUFFICES ASSUME NEW c \in Seq(T), Len(c) = n + 1
               PROVE  Keep(a \o c, S) = Keep(a, S) \o Keep(c, S)
      OBVIOUS
  <2>1. c # <<>> BY EmptySeq
  <2>2. PICK d \in Seq(T), x \in T : c = Append(d, x) BY <2>1, SequenceEmptyOrAppend
  <2>3. Len(d) = n BY <2>2, LenProperties, AppendProperties
  <2>4. PICK r \in Seq(T) : r = a \o d BY ConcatProperties
  <2>5. a \o c = Append(r, x) BY <2>2, <2>4, ConcatAppend
  <2>6. Keep(r, S) = Keep(a, S) \o Keep(d, S) BY <2>3, <2>4
  <2>7. Keep(Append(r, x), S) = IF x \in S THEN Append(Keep(r, S), x) ELSE Keep(r, S)
      BY KeepAppend
  <2>8. Keep(c, S) = IF x \in S THEN Append(Keep(d, S), x) ELSE Keep(d, S)
      BY <2>2, KeepAppend
  <2>9. PICK ka \in Seq(T), kd \in Seq(T) : ka = Keep(a, S) /\ kd = Keep(d, S)
      BY KeepOnce
  <2>10. ka \o Append(kd, x) = Append(ka \o kd, x) BY ConcatAppend
  <2> QED BY <2>5, <2>6, <2>7, <2>8, <2>9, <2>10
<1>3. N \in SUBSET Nat OBVIOUS
<1>4. Len(b) \in N
  <2> HIDE DEF N
  <2> QED BY <1>0, <1>1, <1>2, <1>3, SetInduction
<1> QED BY <1>4

(* LEMMA: what is linked behind some of a queue and before the rest is     *)
(* inserted there; who is left out is removed from where it was.           *)
Splits(q, k, A, B) == /\ \A i \in 1..(k - 1) : q[i] \in A /\ q[i] \notin B
                      /\ \A i \in k..Len(q) : q[i] \in B /\ q[i] \notin A

LEMMA KeepInsert ==
    ASSUME NEW T, NEW q \in Seq(T), NEW k \in 1..(Len(q) + 1), NEW x \in T, NEW A, NEW B,
           Splits(q, k, A, B)
    PROVE  Keep(q, A) \o <<x>> \o Keep(q, B) = InsertAt(q, k, x)
<1>0. Len(q) \in Nat BY LenProperties
<1>1. PICK a \in Seq(T), b \in Seq(T) : a = Before(q, k) /\ b = From(q, k) BY SplitOnce
<1>2. a \o b = q
  <2>1. /\ k - 1 \in (1 - 1)..Len(q) /\ (k - 1) + 1 = k /\ 1 \in 1..(Len(q) + 1)
        /\ Len(q) \in (k - 1)..Len(q)
    BY <1>0
  <2> DEFINE m == k - 1
             n == Len(q)
  <2>2. m \in (1 - 1)..Len(q) /\ n \in m..Len(q) BY <2>1
  <2> HIDE DEF m, n
  <2>3. SubSeq(q, 1, m) \o SubSeq(q, m + 1, n) = SubSeq(q, 1, n)
    BY ONLY <2>1, <2>2, ConcatAdjacentSubSeq, q \in Seq(T)
  <2>4. SubSeq(q, 1, k - 1) \o SubSeq(q, k, Len(q)) = SubSeq(q, 1, Len(q))
    BY <2>1, <2>3 DEF m, n
  <2> QED BY <1>1, <2>4, SubSeqFull DEF Before, From
<1>3. /\ \A y : y \in ToSet(a) <=> \E i \in 1..(k - 1) : q[i] = y
      /\ \A y : y \in ToSet(b) <=> \E i \in k..Len(q) : q[i] = y
  BY <1>1, SplitOnce
<1>b. /\ \A i \in 1..(k - 1) : q[i] \in A /\ q[i] \notin B
      /\ \A i \in k..Len(q) : q[i] \in B /\ q[i] \notin A
  BY DEF Splits
<1>4. Keep(a, A) = a /\ Keep(b, B) = b
  <2>1. ToSet(a) \subseteq A /\ ToSet(b) \subseteq B BY <1>b, <1>3
  <2> QED BY <2>1, KeepEnds
<1>5. Keep(a, B) = <<>> /\ Keep(b, A) = <<>>
  <2>1. ToSet(a) \cap B = {} /\ ToSet(b) \cap A = {} BY <1>b, <1>3
  <2>2. ToSet(Keep(a, B)) = {} /\ ToSet(Keep(b, A)) = {} BY <2>1, KeepOnce
  <2>3. Keep(a, B) \in Seq(T) /\ Keep(b, A) \in Seq(T) BY KeepOnce
  <2> QED BY <2>2, <2>3, TailOnce
<1>6. Keep(q, A) = a /\ Keep(q, B) = b
  <2>1. Keep(q, A) = Keep(a, A) \o Keep(b, A) /\ Keep(q, B) = Keep(a, B) \o Keep(b, B)
    <3>1. \A Y : Keep(a \o b, Y) = Keep(a, Y) \o Keep(b, Y) BY KeepConcat
    <3> QED BY <1>2, <3>1
  <2> QED BY <2>1, <1>4, <1>5, ConcatEmptySeq
<1> QED BY <1>1, <1>6 DEF InsertAt, Before, From

LEMMA KeepRemove ==
    ASSUME NEW T, NEW q \in Seq(T), Once(q), NEW k \in 1..Len(q)
    PROVE  Keep(q, T \ {q[k]}) = RemoveAt(q, k)
<1>0. Len(q) \in Nat /\ k \in 1..(Len(q) + 1) /\ k + 1 \in 1..(Len(q) + 1) BY LenProperties
<1>1. PICK a \in Seq(T), b \in Seq(T), c \in Seq(T) :
         a = Before(q, k) /\ b = From(q, k) /\ c = From(q, k + 1)
  BY <1>0, SplitOnce
<1>2. a \o b = q
  <2>1. /\ k - 1 \in (1 - 1)..Len(q) /\ (k - 1) + 1 = k /\ 1 \in 1..(Len(q) + 1)
        /\ Len(q) \in (k - 1)..Len(q)
    BY <1>0
  <2> DEFINE m == k - 1
             n == Len(q)
  <2>2. m \in (1 - 1)..Len(q) /\ n \in m..Len(q) BY <2>1
  <2> HIDE DEF m, n
  <2>3. SubSeq(q, 1, m) \o SubSeq(q, m + 1, n) = SubSeq(q, 1, n)
    BY ONLY <2>1, <2>2, ConcatAdjacentSubSeq, q \in Seq(T)
  <2>4. SubSeq(q, 1, k - 1) \o SubSeq(q, k, Len(q)) = SubSeq(q, 1, Len(q))
    BY <2>1, <2>3 DEF m, n
  <2> QED BY <1>1, <2>4, SubSeqFull DEF Before, From
<1>3. PICK t \in T : t = q[k] BY ElementOfSeq
<1>4. b = <<t>> \o c
  <2>1. SubSeq(q, k, Len(q)) = <<q[k]>> \o SubSeq(q, k + 1, Len(q))
    BY <1>0, SubSeqRecursiveFirst
  <2> QED BY <2>1, <1>1, <1>3 DEF From
<1>5. /\ \A y : y \in ToSet(a) <=> \E i \in 1..(k - 1) : q[i] = y
      /\ \A y : y \in ToSet(c) <=> \E i \in (k + 1)..Len(q) : q[i] = y
  <2>1. \A y : y \in ToSet(a) <=> \E i \in 1..(k - 1) : q[i] = y BY <1>0, <1>1, SplitOnce
  <2>2. \A y : y \in ToSet(c) <=> \E i \in (k + 1)..Len(q) : q[i] = y BY <1>0, <1>1, SplitOnce
  <2> QED BY <2>1, <2>2
<1>6. t \notin ToSet(a) /\ t \notin ToSet(c)
  <2>1. \A i \in 1..(k - 1) : i \in 1..Len(q) /\ i # k BY <1>0
  <2>2. \A i \in (k + 1)..Len(q) : i \in 1..Len(q) /\ i # k BY <1>0
  <2> QED BY <1>3, <1>5, <2>1, <2>2 DEF Once
<1>7. ToSet(a) \subseteq T \ {t} /\ ToSet(c) \subseteq T \ {t} BY <1>6, ToSetFacts
<1>8. Keep(a, T \ {t}) = a /\ Keep(c, T \ {t}) = c BY <1>7, KeepEnds
<1>9. <<t>> \in Seq(T) /\ Keep(<<t>>, T \ {t}) = <<>>
  <2>1. <<t>> \in Seq(T) /\ Len(<<t>>) = 1 /\ <<t>>[1] = t OBVIOUS
  <2>2. PICK d \in Seq(T) : d = <<t>> BY <2>1
  <2>3. ToSet(d) = {d[i] : i \in 1..Len(d)} BY ToSetFacts
  <2>4. ToSet(d) = {t} BY <2>1, <2>2, <2>3
  <2>5. ToSet(Keep(d, T \ {t})) = {} /\ Keep(d, T \ {t}) \in Seq(T)
    <3>1. ToSet(Keep(d, T \ {t})) = ToSet(d) \cap (T \ {t}) /\ Keep(d, T \ {t}) \in Seq(T)
      BY KeepOnce
    <3> QED BY <2>4, <3>1
  <2> QED BY <2>1, <2>2, <2>5, TailOnce
<1>10. Keep(b, T \ {t}) = c
  <2>1. Keep(b, T \ {t}) = Keep(<<t>>, T \ {t}) \o Keep(c, T \ {t})
    <3>1. PICK d \in Seq(T) : d = <<t>> BY <1>9
    <3>2. \A Y : Keep(d \o c, Y) = Keep(d, Y) \o Keep(c, Y) BY KeepConcat, SMTT(30)
    <3> QED BY <1>4, <3>1, <3>2
  <2> QED BY <2>1, <1>8, <1>9, ConcatEmptySeq
<1>11. Keep(q, T \ {t}) = a \o c
  <2>1. \A Y : Keep(a \o b, Y) = Keep(a, Y) \o Keep(b, Y)
    BY KeepConcat, SMTT(30)
  <2> QED BY <2>1, <1>2, <1>8, <1>10
<1> QED BY <1>1, <1>3, <1>11 DEF RemoveAt, Before, From

(* LEMMA: the second part of a line changes as the line does. *)
LEMMA ConcatInsert ==
    ASSUME NEW V, NEW r \in Seq(V), NEW w \in Seq(V), NEW k \in 1..(Len(w) + 1), NEW v \in V
    PROVE  r \o InsertAt(w, k, v) = InsertAt(r \o w, Len(r) + k, v)
<1>0. Len(r) \in Nat /\ Len(w) \in Nat BY LenProperties
<1> DEFINE l == r \o w
<1>1. /\ l \in Seq(V) /\ Len(l) = Len(r) + Len(w)
      /\ \A i \in 1..(Len(r) + Len(w)) :
            l[i] = IF i <= Len(r) THEN r[i] ELSE w[i - Len(r)]
  BY ConcatProperties
<1> HIDE DEF l
<1> DEFINE x == InsertAt(w, k, v)
<1>2. /\ x \in Seq(V) /\ Len(x) = Len(w) + 1
      /\ \A i \in 1..(Len(w) + 1) :
            x[i] = IF i < k THEN w[i] ELSE IF i = k THEN v ELSE w[i - 1]
  BY InsertAtFacts
<1> HIDE DEF x
<1> DEFINE a == r \o x
<1>3. /\ a \in Seq(V) /\ Len(a) = Len(r) + Len(x)
      /\ \A i \in 1..(Len(r) + Len(x)) :
            a[i] = IF i <= Len(r) THEN r[i] ELSE x[i - Len(r)]
  BY <1>2, ConcatProperties
<1> HIDE DEF a
<1>a. PICK p \in 1..(Len(l) + 1) : p = Len(r) + k BY <1>0, <1>1
<1> DEFINE b == InsertAt(l, p, v)
<1>b. /\ b \in Seq(V) /\ Len(b) = Len(l) + 1
      /\ \A i \in 1..(Len(l) + 1) :
            b[i] = IF i < p THEN l[i] ELSE IF i = p THEN v ELSE l[i - 1]
  <2>1. l \in Seq(V) BY <1>1
  <2> QED BY ONLY <2>1, v \in V, p \in 1..(Len(l) + 1), InsertAtFacts
<1>4. /\ b \in Seq(V) /\ Len(b) = Len(l) + 1
      /\ \A i \in 1..(Len(l) + 1) :
            b[i] = IF i < Len(r) + k THEN l[i]
                   ELSE IF i = Len(r) + k THEN v ELSE l[i - 1]
  BY <1>a, <1>b
<1> HIDE DEF b
<1>5. Len(a) = Len(b) BY <1>0, <1>1, <1>2, <1>3, <1>4
<1>6. ASSUME NEW i \in 1..Len(a) PROVE a[i] = b[i]
  <2>0. i \in 1..(Len(r) + Len(x)) /\ i \in 1..(Len(l) + 1) BY <1>0, <1>1, <1>2, <1>3
  <2>1. CASE i <= Len(r)
    <3>1. i \in 1..(Len(r) + Len(w)) /\ i < Len(r) + k BY <1>0, <2>1
    <3> QED BY <1>1, <1>3, <1>4, <2>0, <2>1, <3>1
  <2>2. CASE i > Len(r) /\ i < Len(r) + k
    <3>1. /\ i \in 1..(Len(r) + Len(w)) /\ ~(i <= Len(r)) /\ i - Len(r) \in 1..(Len(w) + 1)
          /\ i - Len(r) < k
      BY <1>0, <2>2
    <3> QED BY <1>1, <1>2, <1>3, <1>4, <2>0, <2>2, <3>1
  <2>3. CASE i = Len(r) + k
    <3>1. ~(i <= Len(r)) /\ i - Len(r) = k /\ ~(i < Len(r) + k) /\ k \in 1..(Len(w) + 1)
          /\ ~(k < k)
      BY <1>0, <2>3
    <3> QED BY <1>2, <1>3, <1>4, <2>0, <2>3, <3>1
  <2>4. CASE i > Len(r) + k
    <3>1. /\ ~(i <= Len(r)) /\ i - Len(r) \in 1..(Len(w) + 1)
          /\ ~(i - Len(r) < k) /\ i - Len(r) # k /\ ~(i < Len(r) + k) /\ i # Len(r) + k
          /\ i - 1 \in 1..(Len(r) + Len(w)) /\ ~(i - 1 <= Len(r))
          /\ (i - 1) - Len(r) = (i - Len(r)) - 1
      BY <1>0, <1>1, <2>0, <2>4
    <3>2. a[i] = w[(i - Len(r)) - 1] BY <1>2, <1>3, <2>0, <3>1
    <3>3. b[i] = w[(i - 1) - Len(r)] BY <1>1, <1>4, <2>0, <3>1
    <3> QED BY <3>1, <3>2, <3>3
  <2>5. i \in Nat /\ Len(r) + k \in Nat BY <1>0, <2>0
  <2> QED BY <1>0, <2>5, <2>1, <2>2, <2>3, <2>4
<1>7. a = b BY <1>3, <1>4, <1>5, <1>6, SeqEqual
<1> QED BY <1>7, <1>a DEF l, x, a, b

LEMMA ConcatRemove ==
    ASSUME NEW V, NEW r \in Seq(V), NEW w \in Seq(V), NEW k \in 1..Len(w)
    PROVE  r \o RemoveAt(w, k) = RemoveAt(r \o w, Len(r) + k)
<1>0. Len(r) \in Nat /\ Len(w) \in Nat BY LenProperties
<1> DEFINE l == r \o w
<1>1. /\ l \in Seq(V) /\ Len(l) = Len(r) + Len(w)
      /\ \A i \in 1..(Len(r) + Len(w)) :
            l[i] = IF i <= Len(r) THEN r[i] ELSE w[i - Len(r)]
  BY ConcatProperties
<1> HIDE DEF l
<1> DEFINE x == RemoveAt(w, k)
<1>2. /\ x \in Seq(V) /\ Len(x) = Len(w) - 1
      /\ \A i \in 1..(Len(w) - 1) :
            x[i] = IF i < k THEN w[i] ELSE w[i + 1]
  BY RemoveAtFacts
<1> HIDE DEF x
<1> DEFINE a == r \o x
<1>3. /\ a \in Seq(V) /\ Len(a) = Len(r) + Len(x)
      /\ \A i \in 1..(Len(r) + Len(x)) :
            a[i] = IF i <= Len(r) THEN r[i] ELSE x[i - Len(r)]
  BY <1>2, ConcatProperties
<1> HIDE DEF a
<1>a. Len(r) + k \in 1..Len(l) BY <1>0, <1>1
<1> DEFINE b == RemoveAt(l, Len(r) + k)
<1>4. /\ b \in Seq(V) /\ Len(b) = Len(l) - 1
      /\ \A i \in 1..(Len(l) - 1) :
            b[i] = IF i < Len(r) + k THEN l[i] ELSE l[i + 1]
  BY <1>1, <1>a, RemoveAtFacts
<1> HIDE DEF b
<1>5. Len(a) = Len(b) BY <1>0, <1>1, <1>2, <1>3, <1>4
<1>6. ASSUME NEW i \in 1..Len(a) PROVE a[i] = b[i]
  <2>0. i \in 1..(Len(r) + Len(x)) /\ i \in 1..(Len(l) - 1) BY <1>0, <1>1, <1>2, <1>3
  <2>1. CASE i <= Len(r)
    <3>1. i \in 1..(Len(r) + Len(w)) /\ i < Len(r) + k BY <1>0, <2>1
    <3> QED BY <1>1, <1>3, <1>4, <2>0, <2>1, <3>1
  <2>2. CASE i > Len(r) /\ i < Len(r) + k
    <3>1. /\ i \in 1..(Len(r) + Len(w)) /\ ~(i <= Len(r)) /\ i - Len(r) \in 1..(Len(w) - 1)
          /\ i - Len(r) < k
      BY <1>0, <1>1, <2>0, <2>2
    <3> QED BY <1>1, <1>2, <1>3, <1>4, <2>0, <2>2, <3>1
  <2>3. CASE i >= Len(r) + k
    <3>1. /\ ~(i <= Len(r)) /\ i - Len(r) \in 1..(Len(w) - 1)
          /\ ~(i - Len(r) < k) /\ ~(i < Len(r) + k)
          /\ i + 1 \in 1..(Len(r) + Len(w)) /\ ~(i + 1 <= Len(r))
          /\ (i + 1) - Len(r) = (i - Len(r)) + 1
      BY <1>0, <1>1, <2>0, <2>3
    <3>2. a[i] = w[(i - Len(r)) + 1] BY <1>2, <1>3, <2>0, <3>1
    <3>3. b[i] = w[(i + 1) - Len(r)] BY <1>1, <1>4, <2>0, <3>1
    <3> QED BY <3>1, <3>2, <3>3
  <2> QED BY <1>0, <2>1, <2>2, <2>3
<1>7. a = b BY <1>3, <1>4, <1>5, <1>6, SeqEqual
<1> QED BY <1>7 DEF l, x, a, b

(* LEMMA: the head of a line is that of its first part that is not empty;  *)
(* it makes no difference whether the first of the second part moves to    *)
(* the end of the first.                                                   *)
LEMMA ConcatHead ==
    ASSUME NEW V, NEW r \in Seq(V), NEW w \in Seq(V)
    PROVE  /\ r # <<>> => /\ Head(r \o w) = Head(r) /\ Tail(r \o w) = Tail(r) \o w
                          /\ r \o w # <<>>
           /\ r = <<>> => r \o w = w
           /\ w # <<>> => Append(r, Head(w)) \o Tail(w) = r \o w
<1>1. ASSUME r # <<>> PROVE Head(r \o w) = Head(r) /\ Tail(r \o w) = Tail(r) \o w /\ r \o w # <<>>
  <2>0. PICK n \in Nat \ {0}, m \in Nat : n = Len(r) /\ m = Len(w) BY <1>1, LenProperties, EmptySeq
  <2> DEFINE l == r \o w
  <2>1. /\ l \in Seq(V) /\ Len(l) = n + m
        /\ \A i \in 1..(n + m) : l[i] = IF i <= n THEN r[i] ELSE w[i - n]
    BY <2>0, ConcatProperties
  <2> HIDE DEF l
  <2>2. l # <<>> BY <2>0, <2>1, EmptySeq
  <2>3. l[1] = r[1] BY <2>0, <2>1
  <2> DEFINE s == Tail(r)
  <2>4. /\ s \in Seq(V) /\ Len(s) = n - 1
        /\ \A i \in 1..(n - 1) : s[i] = r[i + 1]
    BY <1>1, <2>0, HeadTailProperties
  <2> HIDE DEF s
  <2> DEFINE a == Tail(l)
  <2>5. /\ a \in Seq(V) /\ Len(a) = n + m - 1
        /\ \A i \in 1..(n + m - 1) : a[i] = l[i + 1]
    BY <2>0, <2>1, <2>2, HeadTailProperties
  <2> HIDE DEF a
  <2> DEFINE b == s \o w
  <2>a. /\ b \in Seq(V) /\ Len(b) = Len(s) + Len(w)
        /\ \A i \in 1..(Len(s) + Len(w)) : b[i] = IF i <= Len(s) THEN s[i] ELSE w[i - Len(s)]
    BY <2>4, ConcatProperties
  <2>6. /\ b \in Seq(V) /\ Len(b) = (n - 1) + m
        /\ \A i \in 1..((n - 1) + m) :
              b[i] = IF i <= n - 1 THEN s[i] ELSE w[i - (n - 1)]
    BY <2>0, <2>4, <2>a
  <2> HIDE DEF b
  <2>7. ASSUME NEW i \in 1..(n + m - 1) PROVE a[i] = b[i]
    <3>1. i \in 1..((n - 1) + m) /\ i + 1 \in 1..(n + m) BY <2>0
    <3>2. CASE i <= n - 1
      <4>1. i \in 1..(n - 1) /\ i + 1 <= n BY <3>2
      <4> QED BY <2>1, <2>4, <2>5, <2>6, <3>1, <3>2, <4>1
    <3>3. CASE ~(i <= n - 1)
      <4>1. ~(i + 1 <= n) /\ (i + 1) - n = i - (n - 1) BY <2>0, <3>3
      <4> QED BY <2>1, <2>5, <2>6, <3>1, <3>3, <4>1
    <3> QED BY <3>2, <3>3
  <2>8. a = b
    <3>1. Len(a) = Len(b) /\ Len(a) = n + m - 1 BY <2>0, <2>5, <2>6
    <3> QED BY <2>5, <2>6, <2>7, <3>1, SeqEqual
  <2>9. Head(l) = l[1] /\ Head(r) = r[1] BY <1>1, <2>2
  <2> QED BY <2>2, <2>3, <2>8, <2>9 DEF l, s, a, b
<1>2. r = <<>> => r \o w = w BY ConcatEmptySeq
<1>3. ASSUME w # <<>> PROVE Append(r, Head(w)) \o Tail(w) = r \o w
  <2>1. PICK h \in V, t \in Seq(V) : h = Head(w) /\ t = Tail(w) BY <1>3, HeadTailProperties
  <2>2. <<h>> \in Seq(V) OBVIOUS
  <2>3. Append(r, h) = r \o <<h>> BY AppendIsConcat
  <2>4. w = <<h>> \o t
    <3>1. Len(w) \in Nat /\ 1 \in 1..Len(w) BY <1>3, LenProperties, EmptySeq
    <3>2. SubSeq(w, 1, Len(w)) = <<w[1]>> \o SubSeq(w, 1 + 1, Len(w))
      BY <3>1, SubSeqRecursiveFirst
    <3>3. SubSeq(w, 1, Len(w)) = w /\ SubSeq(w, 2, Len(w)) = t /\ h = w[1]
      BY <1>3, <2>1, SubSeqFull, TailIsSubSeq
    <3>4. 1 + 1 = 2 OBVIOUS
    <3>5. w = <<w[1]>> \o t BY <3>2, <3>3, <3>4
    <3> QED BY <3>3, <3>5
  <2>5. (r \o <<h>>) \o t = r \o (<<h>> \o t) BY <2>2, ConcatAssociative
  <2> QED BY <2>1, <2>3, <2>4, <2>5
<1> QED BY <1>1, <1>2, <1>3

(* LEMMA: what is inserted behind all is appended. *)
LEMMA InsertAtEnd ==
    ASSUME NEW V, NEW q \in Seq(V), NEW v \in V
    PROVE  InsertAt(q, Len(q) + 1, v) = Append(q, v)
<1>0. Len(q) \in Nat BY LenProperties
<1>1. PICK k \in 1..(Len(q) + 1) : k = Len(q) + 1 BY <1>0
<1> DEFINE a == InsertAt(q, k, v)
           b == Append(q, v)
<1>2. /\ a \in Seq(V) /\ Len(a) = Len(q) + 1
      /\ \A i \in 1..(Len(q) + 1) :
            a[i] = IF i < k THEN q[i] ELSE IF i = k THEN v ELSE q[i - 1]
  BY InsertAtFacts, SMTT(30)
<1>3. /\ b \in Seq(V) /\ Len(b) = Len(q) + 1
      /\ \A i \in 1..Len(q) : b[i] = q[i]
      /\ b[Len(q) + 1] = v
  BY AppendProperties
<1> HIDE DEF a, b
<1>4. ASSUME NEW i \in 1..Len(a) PROVE a[i] = b[i]
  <2>1. CASE i = k BY <1>1, <1>2, <1>3, <2>1
  <2>2. CASE i # k
    <3>1. i \in 1..Len(q) /\ i < k /\ i \in 1..(Len(q) + 1) BY <1>0, <1>1, <1>2, <2>2
    <3> QED BY <1>2, <1>3, <3>1
  <2> QED BY <2>1, <2>2
<1>5. a = b BY <1>2, <1>3, <1>4, SeqEqual
<1> QED BY <1>1, <1>5 DEF a, b

-----------------------------------------------------------------------------
(* WHAT EACH IN A QUEUE BRINGS                                             *)

Words(q, f) == [i \in 1..Len(q) |-> f[q[i]]]
Carries(q, f, V) == \A t \in ToSet(q) : f[t] \in V

(* LEMMA: a function on the numbers up to one is a sequence. *)
LEMMA Numbered ==
    ASSUME NEW V, NEW n \in Nat, NEW g \in [1..n -> V]
    PROVE  g \in Seq(V) /\ Len(g) = n
<1>1. g \in Seq(V) BY SeqDef
<1>2. DOMAIN g = 1..n OBVIOUS
<1>3. Len(g) \in Nat /\ DOMAIN g = 1..Len(g) BY <1>1, LenProperties
<1> QED BY <1>1, <1>2, <1>3

(* LEMMA: the words of a queue. *)
LEMMA WordsFacts ==
    ASSUME NEW T, NEW V, NEW q \in Seq(T), NEW f, Carries(q, f, V)
    PROVE  /\ Words(q, f) \in Seq(V) /\ Len(Words(q, f)) = Len(q)
           /\ \A i \in 1..Len(q) : Words(q, f)[i] = f[q[i]]
<1>0. Len(q) \in Nat BY LenProperties
<1>1. \A i \in 1..Len(q) : q[i] \in ToSet(q) BY ToSetFacts
<1>2. Words(q, f) \in [1..Len(q) -> V] BY <1>1 DEF Words, Carries
<1>a. PICK n \in Nat : n = Len(q) BY <1>0
<1>3. PICK g \in [1..n -> V] : g = Words(q, f) BY <1>2, <1>a
<1>4. g \in Seq(V) /\ Len(g) = n BY Numbered
<1>5. \A i \in 1..Len(q) : Words(q, f)[i] = f[q[i]] BY DEF Words
<1> QED BY <1>a, <1>3, <1>4, <1>5

LEMMA WordsLen ==
    ASSUME NEW T, NEW q \in Seq(T), NEW f
    PROVE  Len(Words(q, f)) = Len(q)
<1>1. PICK V : Carries(q, f, V)
  <2>1. Carries(q, f, {f[t] : t \in ToSet(q)}) BY DEF Carries
  <2> QED BY <2>1
<1> QED BY <1>1, WordsFacts

(* LEMMA: they are the same as long as those in the queue bring the same. *)
LEMMA WordsSame ==
    ASSUME NEW T, NEW q \in Seq(T), NEW f, NEW g, \A t \in ToSet(q) : f[t] = g[t]
    PROVE  Words(q, f) = Words(q, g)
<1>1. \A i \in 1..Len(q) : q[i] \in ToSet(q) BY ToSetFacts
<1>2. \A i \in 1..Len(q) : f[q[i]] = g[q[i]] BY <1>1
<1> QED BY <1>2 DEF Words

(* LEMMA: they change as the queue does. *)
LEMMA WordsInsert ==
    ASSUME NEW T, NEW V, NEW q \in Seq(T), NEW k \in 1..(Len(q) + 1), NEW t \in T,
           NEW f, Carries(q, f, V), f[t] \in V
    PROVE  Words(InsertAt(q, k, t), f) = InsertAt(Words(q, f), k, f[t])
<1>0. Len(q) \in Nat BY LenProperties
<1>a. /\ Words(q, f) \in Seq(V) /\ Len(Words(q, f)) = Len(q)
      /\ \A i \in 1..Len(q) : Words(q, f)[i] = f[q[i]]
  BY WordsFacts
<1>1. PICK w \in Seq(V) : w = Words(q, f) /\ Len(w) = Len(q)
                          /\ \A i \in 1..Len(q) : w[i] = f[q[i]]
  BY <1>a
<1>2. PICK v \in V : v = f[t] OBVIOUS
<1>3. PICK j \in 1..(Len(w) + 1) : j = k BY <1>1
<1> DEFINE p == InsertAt(q, k, t)
           a == Words(p, f)
           b == InsertAt(w, j, v)
<1>4. /\ p \in Seq(T) /\ Len(p) = Len(q) + 1
      /\ \A i \in 1..(Len(q) + 1) :
            p[i] = IF i < k THEN q[i] ELSE IF i = k THEN t ELSE q[i - 1]
  BY InsertAtFacts
<1>5. /\ b \in Seq(V) /\ Len(b) = Len(w) + 1
      /\ \A i \in 1..(Len(w) + 1) :
            b[i] = IF i < j THEN w[i] ELSE IF i = j THEN v ELSE w[i - 1]
  BY InsertAtFacts
<1> HIDE DEF p
<1>6. a = [i \in 1..Len(p) |-> f[p[i]]] BY DEF Words
<1> HIDE DEF a, b
<1>7. ASSUME NEW i \in 1..(Len(q) + 1) PROVE f[p[i]] = b[i]
  <2>0. i \in 1..(Len(w) + 1) BY <1>1
  <2>1. CASE i < k
    <3>1. i \in 1..Len(q) BY <1>0, <2>1
    <3> QED BY <1>1, <1>3, <1>4, <1>5, <2>0, <2>1, <3>1
  <2>2. CASE i = k
    <3>1. ~(i < k) BY <1>0, <2>2
    <3>2. p[i] = t BY <1>4, <2>2, <3>1
    <3>3. b[i] = v BY <1>3, <1>5, <2>0, <2>2, <3>1
    <3> QED BY <1>2, <3>2, <3>3
  <2>3. CASE i > k
    <3>1. ~(i < k) /\ i # k /\ i - 1 \in 1..Len(q) BY <1>0, <2>3
    <3>2. p[i] = q[i - 1] BY <1>4, <3>1
    <3>3. b[i] = w[i - 1] BY <1>3, <1>5, <2>0, <3>1
    <3> QED BY <1>1, <3>1, <3>2, <3>3
  <2> QED BY <1>0, <2>1, <2>2, <2>3
<1>8. b = [i \in 1..(Len(q) + 1) |-> b[i]]
  <2>1. DOMAIN b = 1..(Len(q) + 1) BY <1>1, <1>5, LenProperties
  <2>2. b = [i \in DOMAIN b |-> b[i]] BY <1>5
  <2> QED BY <2>1, <2>2
<1>9. a = b BY <1>4, <1>6, <1>7, <1>8
<1> QED BY <1>1, <1>2, <1>3, <1>9 DEF a, b, p

LEMMA WordsRemove ==
    ASSUME NEW T, NEW V, NEW q \in Seq(T), NEW k \in 1..Len(q),
           NEW f, Carries(q, f, V)
    PROVE  Words(RemoveAt(q, k), f) = RemoveAt(Words(q, f), k)
<1>0. Len(q) \in Nat BY LenProperties
<1>1. PICK w \in Seq(V) : w = Words(q, f) /\ Len(w) = Len(q)
                          /\ \A i \in 1..Len(q) : w[i] = f[q[i]]
  BY WordsFacts
<1>3. PICK j \in 1..Len(w) : j = k BY <1>1
<1> DEFINE p == RemoveAt(q, k)
           a == Words(p, f)
           b == RemoveAt(w, j)
<1>4. /\ p \in Seq(T) /\ Len(p) = Len(q) - 1
      /\ \A i \in 1..(Len(q) - 1) : p[i] = IF i < k THEN q[i] ELSE q[i + 1]
  BY RemoveAtFacts
<1>5. /\ b \in Seq(V) /\ Len(b) = Len(w) - 1
      /\ \A i \in 1..(Len(w) - 1) : b[i] = IF i < j THEN w[i] ELSE w[i + 1]
  BY RemoveAtFacts
<1> HIDE DEF p
<1>6. a = [i \in 1..Len(p) |-> f[p[i]]] BY DEF Words
<1> HIDE DEF a, b
<1>7. ASSUME NEW i \in 1..(Len(q) - 1) PROVE f[p[i]] = b[i]
  <2>0. i \in 1..(Len(w) - 1) BY <1>1
  <2>1. CASE i < k
    <3>1. i \in 1..Len(q) BY <1>0
    <3> QED BY <1>1, <1>3, <1>4, <1>5, <2>0, <2>1, <3>1
  <2>2. CASE ~(i < k)
    <3>1. i + 1 \in 1..Len(q) BY <1>0
    <3>2. p[i] = q[i + 1] BY <1>4, <2>2
    <3>3. b[i] = w[i + 1] BY <1>3, <1>5, <2>0, <2>2
    <3> QED BY <1>1, <3>1, <3>2, <3>3
  <2> QED BY <2>1, <2>2
<1>8. b = [i \in 1..(Len(q) - 1) |-> b[i]]
  <2>1. DOMAIN b = 1..(Len(q) - 1) BY <1>1, <1>5, LenProperties
  <2>2. b = [i \in DOMAIN b |-> b[i]] BY <1>5
  <2> QED BY <2>1, <2>2
<1>9. a = b BY <1>4, <1>6, <1>7, <1>8
<1> QED BY <1>1, <1>3, <1>9 DEF a, b, p

LEMMA WordsTail ==
    ASSUME NEW T, NEW q \in Seq(T), q # <<>>, NEW f
    PROVE  /\ Words(q, f) # <<>> /\ Head(Words(q, f)) = f[Head(q)]
           /\ Words(Tail(q), f) = Tail(Words(q, f))
<1>0. Len(q) \in Nat /\ Len(q) > 0 /\ 1 \in 1..Len(q) BY LenProperties, EmptySeq
<1>v. PICK V : Carries(q, f, V)
  <2>1. Carries(q, f, {f[t] : t \in ToSet(q)}) BY DEF Carries
  <2> QED BY <2>1
<1>1. PICK w \in Seq(V) : w = Words(q, f) /\ Len(w) = Len(q)
                          /\ \A i \in 1..Len(q) : w[i] = f[q[i]]
  BY <1>v, WordsFacts
<1>2. w # <<>> BY <1>0, <1>1, EmptySeq
<1>3. Head(w) = w[1] /\ Head(q) = q[1] BY <1>2
<1> DEFINE p == Tail(q)
           b == Tail(w)
<1>4. p \in Seq(T) /\ Len(p) = Len(q) - 1 /\ \A i \in 1..Len(p) : p[i] = q[i + 1]
  BY HeadTailProperties
<1>5. b \in Seq(V) /\ Len(b) = Len(w) - 1 /\ \A i \in 1..Len(b) : b[i] = w[i + 1]
  BY <1>2, HeadTailProperties
<1> HIDE DEF p, b
<1>6. \A i \in 1..(Len(q) - 1) : i + 1 \in 1..Len(q) BY <1>0
<1>7. \A i \in 1..(Len(q) - 1) : f[p[i]] = b[i] BY <1>1, <1>4, <1>5, <1>6
<1>8. b = [i \in 1..(Len(q) - 1) |-> b[i]]
  <2>1. DOMAIN b = 1..(Len(q) - 1) BY <1>1, <1>5, LenProperties
  <2>2. b = [i \in DOMAIN b |-> b[i]] BY <1>5
  <2> QED BY <2>1, <2>2
<1>9. Words(p, f) = b BY <1>4, <1>7, <1>8 DEF Words
<1> QED BY <1>0, <1>1, <1>2, <1>3, <1>9 DEF p, b

-----------------------------------------------------------------------------
(* A RING OF WORDS                                                         *)

(* Of n words in a ring of N places, the next of which is put at p: where  *)
(* the ith is, and the words from the oldest on.                           *)
NextPlace(N, p) == IF p + 1 >= N THEN 0 ELSE p + 1
PlaceOf(N, p, n, i) ==
    LET x == (IF p >= n THEN p - n ELSE p + N - n) + i - 1
    IN IF x >= N THEN x - N ELSE x
InRing(N, p, n, d) == [i \in 1..n |-> d[PlaceOf(N, p, n, i)]]

(* Such a ring, d, of words of V; and one, e, that differs in that v was put in it. *)
WordRing(V, N, p, n, d) ==
    /\ N \in Nat /\ p \in Nat /\ n \in 0..N /\ (p < N \/ p = 0)
    /\ d \in [0..(N - 1) -> V]
Puts(N, p, d, v, e) == p < N /\ e[p] = v /\ \A i \in 0..(N - 1) : i # p => e[i] = d[i]

LEMMA RingSeq ==
    ASSUME NEW V, NEW N, NEW p, NEW n, NEW d, WordRing(V, N, p, n, d)
    PROVE  InRing(N, p, n, d) \in Seq(V) /\ Len(InRing(N, p, n, d)) = n
<1>0. /\ N \in Nat /\ p \in Nat /\ n \in Nat /\ n <= N /\ (p < N \/ p = 0)
      /\ d \in [0..(N - 1) -> V]
  BY DEF WordRing
<1>1. \A i \in 1..n : PlaceOf(N, p, n, i) \in 0..(N - 1) BY <1>0 DEF PlaceOf
<1>2. PICK g \in [1..n -> V] : g = InRing(N, p, n, d) BY <1>0, <1>1 DEF InRing
<1> QED BY <1>0, <1>2, Numbered

LEMMA SeqByPlaces ==
    ASSUME NEW V, NEW s \in Seq(V), NEW n \in Nat, Len(s) = n
    PROVE  s = [i \in 1..n |-> s[i]]
<1>1. DOMAIN s = 1..n BY LenProperties
<1>2. s = [i \in DOMAIN s |-> s[i]] OBVIOUS
<1> QED BY <1>1, <1>2

(* LEMMA: a word that is put where there is room is the last. *)
LEMMA RingStores ==
    ASSUME NEW V, NEW N, NEW p, NEW n, NEW d, NEW v \in V, NEW e,
           WordRing(V, N, p, n, d), n # N, Puts(N, p, d, v, e)
    PROVE  InRing(N, NextPlace(N, p), n + 1, e) = Append(InRing(N, p, n, d), v)
<1>0. /\ N \in Nat /\ p \in Nat /\ n \in Nat /\ n < N /\ p < N
      /\ d \in [0..(N - 1) -> V]
      /\ e[p] = v /\ \A i \in 0..(N - 1) : i # p => e[i] = d[i]
  BY DEF WordRing, Puts
<1>1. /\ \A i \in 1..n : /\ PlaceOf(N, NextPlace(N, p), n + 1, i) = PlaceOf(N, p, n, i)
                         /\ PlaceOf(N, p, n, i) # p
                         /\ PlaceOf(N, p, n, i) \in 0..(N - 1)
      /\ PlaceOf(N, NextPlace(N, p), n + 1, n + 1) = p
  BY <1>0 DEF PlaceOf, NextPlace
<1>2. p \in 0..(N - 1) /\ n \in 0..N /\ n + 1 \in Nat BY <1>0
<1> DEFINE h == InRing(N, p, n, d)
           g == InRing(N, NextPlace(N, p), n + 1, e)
<1>3. h \in Seq(V) /\ Len(h) = n BY RingSeq
<1>4. \A i \in 1..n : h[i] = d[PlaceOf(N, p, n, i)] BY DEF InRing
<1>5. /\ Append(h, v) \in Seq(V) /\ Len(Append(h, v)) = n + 1
      /\ \A i \in 1..n : Append(h, v)[i] = h[i]
      /\ Append(h, v)[n + 1] = v
  BY <1>3, AppendProperties
<1>6. \A i \in 1..(n + 1) : g[i] = e[PlaceOf(N, NextPlace(N, p), n + 1, i)] BY DEF InRing
<1>7. e[p] = v /\ \A i \in 0..(N - 1) : i # p => e[i] = d[i] BY <1>0
<1>a. PICK a \in Seq(V) : a = Append(h, v) BY <1>5
<1>8. \A i \in 1..(n + 1) : g[i] = a[i]
  <2> SUFFICES ASSUME NEW i \in 1..(n + 1) PROVE g[i] = a[i] OBVIOUS
  <2> HIDE DEF g, h
  <2>1. CASE i = n + 1 BY <1>1, <1>5, <1>6, <1>7, <1>a, <2>1
  <2>2. CASE i # n + 1
    <3>1. i \in 1..n BY <1>0, <2>2
    <3> QED BY <1>1, <1>4, <1>5, <1>6, <1>7, <1>a, <3>1
  <2> QED BY <2>1, <2>2
<1>9. a = [i \in 1..(n + 1) |-> a[i]] BY <1>2, <1>5, <1>a, SeqByPlaces
<1>10. g = [i \in 1..(n + 1) |-> g[i]] BY DEF InRing
<1> QED BY <1>8, <1>9, <1>10, <1>a

(* LEMMA: in a full ring it takes the place of the oldest. *)
LEMMA RingReplaces ==
    ASSUME NEW V, NEW N, NEW p, NEW d, NEW v \in V, NEW e,
           WordRing(V, N, p, N, d), Puts(N, p, d, v, e)
    PROVE  InRing(N, NextPlace(N, p), N, e) = Append(Tail(InRing(N, p, N, d)), v)
<1>0. /\ N \in Nat /\ p \in Nat /\ p < N /\ d \in [0..(N - 1) -> V]
      /\ e[p] = v /\ \A i \in 0..(N - 1) : i # p => e[i] = d[i]
  BY DEF WordRing, Puts
<1>1. /\ \A i \in 1..(N - 1) :
            /\ PlaceOf(N, NextPlace(N, p), N, i) = PlaceOf(N, p, N, i + 1)
            /\ PlaceOf(N, p, N, i + 1) # p
            /\ PlaceOf(N, p, N, i + 1) \in 0..(N - 1)
      /\ PlaceOf(N, NextPlace(N, p), N, N) = p
  BY <1>0 DEF PlaceOf, NextPlace
<1>2. p \in 0..(N - 1) /\ N \in 0..N /\ N > 0 /\ N - 1 \in Nat BY <1>0
<1> DEFINE h == InRing(N, p, N, d)
           g == InRing(N, NextPlace(N, p), N, e)
<1>3. h \in Seq(V) /\ Len(h) = N BY RingSeq
<1>4. \A i \in 1..N : h[i] = d[PlaceOf(N, p, N, i)] BY DEF InRing
<1>6. \A i \in 1..N : g[i] = e[PlaceOf(N, NextPlace(N, p), N, i)] BY DEF InRing
<1>7. e[p] = v /\ \A i \in 0..(N - 1) : i # p => e[i] = d[i] BY <1>0
<1>10. g = [i \in 1..N |-> g[i]] BY DEF InRing
<1> HIDE DEF g, h
<1>b. h # <<>> BY <1>0, <1>3, EmptySeq
<1>c. PICK r \in Seq(V) : r = Tail(h) /\ Len(r) = N - 1 /\ \A i \in 1..(N - 1) : r[i] = h[i + 1]
  <2>1. /\ Tail(h) \in Seq(V) /\ Len(Tail(h)) = N - 1
        /\ \A i \in 1..(N - 1) : Tail(h)[i] = h[i + 1]
    BY <1>3, <1>b, HeadTailProperties
  <2> QED BY <2>1
<1>a. PICK a \in Seq(V) : a = Append(r, v) /\ Len(a) = N
                          /\ (\A i \in 1..(N - 1) : a[i] = r[i]) /\ a[N] = v
  <2>1. /\ Append(r, v) \in Seq(V) /\ Len(Append(r, v)) = Len(r) + 1
        /\ \A i \in 1..Len(r) : Append(r, v)[i] = r[i]
        /\ Append(r, v)[Len(r) + 1] = v
    BY AppendProperties
  <2>2. Len(r) + 1 = N BY <1>2, <1>c
  <2> QED BY <1>c, <2>1, <2>2
<1>8. \A i \in 1..N : g[i] = a[i]
  <2> SUFFICES ASSUME NEW i \in 1..N PROVE g[i] = a[i] OBVIOUS
  <2>1. CASE i = N BY <1>1, <1>6, <1>7, <1>a, <2>1
  <2>2. CASE i # N
    <3>1. i \in 1..(N - 1) /\ i + 1 \in 1..N BY <1>0, <2>2
    <3>2. PICK x \in 0..(N - 1) : /\ x = PlaceOf(N, NextPlace(N, p), N, i)
                                  /\ x = PlaceOf(N, p, N, i + 1) /\ x # p
      BY <1>1, <3>1
    <3>3. g[i] = e[x] /\ h[i + 1] = d[x] BY <1>4, <1>6, <3>1, <3>2
    <3>4. e[x] = d[x] BY <1>7, <3>2
    <3> QED BY <1>a, <1>c, <3>1, <3>3, <3>4
  <2> QED BY <2>1, <2>2
<1>d. a \in Seq(V) /\ Len(a) = N BY <1>a
<1>9. a = [i \in 1..N |-> a[i]] BY <1>d, SeqByPlaces
<1>11. g = a BY <1>8, <1>9, <1>10
<1> QED BY <1>11, <1>a, <1>c DEF g, h

(* LEMMA: the oldest is the first to be taken. *)
LEMMA RingDrops ==
    ASSUME NEW V, NEW N, NEW p, NEW n, NEW d, WordRing(V, N, p, n, d), n # 0
    PROVE  /\ InRing(N, p, n, d) # <<>>
           /\ Head(InRing(N, p, n, d)) = d[IF p >= n THEN p - n ELSE p + N - n]
           /\ InRing(N, p, n - 1, d) = Tail(InRing(N, p, n, d))
<1>0. /\ N \in Nat /\ p \in Nat /\ p < N /\ n \in Nat /\ 0 < n /\ n <= N /\ n - 1 \in Nat
  BY DEF WordRing
<1>1. /\ \A i \in 1..(n - 1) : PlaceOf(N, p, n - 1, i) = PlaceOf(N, p, n, i + 1)
      /\ PlaceOf(N, p, n, 1) = IF p >= n THEN p - n ELSE p + N - n
  BY <1>0 DEF PlaceOf
<1> DEFINE h == InRing(N, p, n, d)
           g == InRing(N, p, n - 1, d)
<1>3. h \in Seq(V) /\ Len(h) = n BY RingSeq
<1>4. \A i \in 1..n : h[i] = d[PlaceOf(N, p, n, i)] BY DEF InRing
<1>6. \A i \in 1..(n - 1) : g[i] = d[PlaceOf(N, p, n - 1, i)] BY DEF InRing
<1>10. g = [i \in 1..(n - 1) |-> g[i]] BY DEF InRing
<1> HIDE DEF g, h
<1>b. h # <<>> BY <1>0, <1>3, EmptySeq
<1>c. PICK r \in Seq(V) : r = Tail(h) /\ Len(r) = n - 1 /\ \A i \in 1..(n - 1) : r[i] = h[i + 1]
  <2>1. /\ Tail(h) \in Seq(V) /\ Len(Tail(h)) = n - 1
        /\ \A i \in 1..(n - 1) : Tail(h)[i] = h[i + 1]
    BY <1>3, <1>b, HeadTailProperties
  <2> QED BY <2>1
<1>d. Head(h) = h[1] BY <1>b
<1>8. \A i \in 1..(n - 1) : g[i] = r[i]
  <2> SUFFICES ASSUME NEW i \in 1..(n - 1) PROVE g[i] = r[i] OBVIOUS
  <2>1. i + 1 \in 1..n BY <1>0
  <2> QED BY <1>1, <1>4, <1>6, <1>c, <2>1
<1>9. r = [i \in 1..(n - 1) |-> r[i]] BY <1>0, <1>c, SeqByPlaces
<1>11. Head(h) = d[IF p >= n THEN p - n ELSE p + N - n]
  <2>1. 1 \in 1..n BY <1>0
  <2> QED BY <1>1, <1>4, <1>d, <2>1
<1> QED BY <1>8, <1>9, <1>10, <1>11, <1>b, <1>c DEF g, h

=============================================================================
