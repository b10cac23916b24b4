--------------------------- MODULE NumberInduction ---------------------------
(***************************************************************************)
(* Induction over the natural numbers in the form the proofs use.  The     *)
(* library's induction theorems take a predicate as a parameter, which the *)
(* provers cannot instantiate; here the predicate is a set of numbers.     *)
(* And what FlattenSeq and RemoveAt do.                                    *)
(***************************************************************************)
EXTENDS Integers, SequencesExt, SequenceTheorems, WellFoundedInduction, TLAPS

(* A set of numbers that has a member has a least one.                     *)
LEMMA LeastNumber ==
  ASSUME NEW T \in SUBSET Nat, T # {}
  PROVE  \E n \in T : \A m \in T : n <= m
<1> DEFINE Less == {ss \in Nat \X Nat : ss[1] < ss[2]}
<1>1. IsWellFoundedOn(Less, Nat)
  BY NatLessThanWellFounded DEF OpToRel
<1>2. \A x, y \in Nat : ~(<<x, y>> \in Less) => y <= x
  OBVIOUS
<1> HIDE DEF Less
<1>3. PICK n \in T : \A y \in T : ~(<<y, n>> \in Less)
  BY <1>1, WFMin
<1> QED
  BY <1>2, <1>3

(* Induction up to a bound: what holds of 0, and of i + 1 when it holds of *)
(* i, holds of every number up to n.                                       *)
LEMMA Induction ==
  ASSUME NEW n \in Nat, NEW H, 0 \in H,
         \A i \in 0..n : i < n /\ i \in H => i + 1 \in H
  PROVE  \A i \in 0..n : i \in H
<1> DEFINE T == {i \in 0..n : i \notin H}
<1> SUFFICES ASSUME T # {} PROVE FALSE
  OBVIOUS
<1>1. T \in SUBSET Nat
  OBVIOUS
<1>2. PICK k \in T : \A m \in T : k <= m
  BY <1>1, LeastNumber
<1>3. k \in 1..n /\ k - 1 \notin T
  BY <1>2
<1> QED
  BY <1>2, <1>3

(* A set of numbers that has a member and a bound has a greatest one.      *)
LEMMA GreatestNumber ==
  ASSUME NEW b \in Nat, NEW T \in SUBSET (0..b), T # {}
  PROVE  \E n \in T : \A m \in T : m <= n
<1> DEFINE U == {b - m : m \in T}
<1>0. \A m \in T : b - m \in Nat
  OBVIOUS
<1>1. U \in SUBSET Nat /\ U # {}
  BY <1>0
<1>2. PICK u \in U : \A v \in U : u <= v
  BY <1>1, LeastNumber
<1>3. PICK n \in T : u = b - n
  BY <1>2
<1>4. \A m \in T : b - n <= b - m
  BY <1>2, <1>3
<1> QED
  BY <1>4

-----------------------------------------------------------------------------
(* FlattenSeq is a recursive function: the concatenation of the first n sequences.   *)
Glue(s, t) == s \o t
Joined(join, q, n) == join = [i \in 1..n |-> IF i = 1 THEN q[i] ELSE Glue(join[i - 1], q[i])]

(* There is such a sequence of joins, of any length,                       *)
LEMMA JoinedExists ==
  ASSUME NEW q, NEW n \in Nat \ {0}
  PROVE  \E join : Joined(join, q, n)
<1> DEFINE H == {k \in 0..n : k # 0 => \E join : Joined(join, q, k)}
<1>1. 0 \in H
  OBVIOUS
<1>2. ASSUME NEW k \in 0..n, k < n, k \in H PROVE k + 1 \in H
  <2>1. k + 1 \in 0..n
    BY <1>2
  <2>2. CASE k = 0
    <3>1. Joined([i \in 1..1 |-> q[1]], q, 1)
      BY DEF Joined
    <3> QED
      BY <2>1, <2>2, <3>1
  <2>3. CASE k # 0
    <3>1. PICK join : Joined(join, q, k)
      BY <1>2, <2>3
    <3> DEFINE more == [i \in 1..(k + 1) |-> IF i = k + 1 THEN Glue(join[k], q[i]) ELSE join[i]]
    <3>2. Joined(more, q, k + 1)
      BY <2>3, <3>1 DEF Joined
    <3> QED
      BY <2>1, <3>2
  <2> QED
    BY <2>2, <2>3
<1> HIDE DEF H
<1>3. n \in H
  BY <1>1, <1>2, Induction
<1> QED
  BY <1>3 DEF H

(* and the joins of the first sequences do not depend on later ones.       *)
LEMMA JoinedUnique ==
  ASSUME NEW q, NEW r, NEW m \in Nat \ {0}, NEW n \in Nat, m <= n,
         \A i \in 1..m : q[i] = r[i],
         NEW join, Joined(join, q, m), NEW long, Joined(long, r, n)
  PROVE  join[m] = long[m]
<1> DEFINE H == {i \in 0..m : i # 0 => join[i] = long[i]}
<1>1. 0 \in H
  OBVIOUS
<1>2. ASSUME NEW i \in 0..m, i < m, i \in H PROVE i + 1 \in H
  <2>1. i + 1 \in 1..m /\ i + 1 \in 1..n /\ (i + 1) - 1 = i /\ (i + 1 = 1 <=> i = 0)
    BY <1>2
  <2>2. join[i + 1] = IF i + 1 = 1 THEN q[i + 1] ELSE Glue(join[i], q[i + 1])
    BY <2>1 DEF Joined
  <2>3. long[i + 1] = IF i + 1 = 1 THEN r[i + 1] ELSE Glue(long[i], r[i + 1])
    BY <2>1 DEF Joined
  <2> QED
    BY <1>2, <2>1, <2>2, <2>3
<1> HIDE DEF H
<1>3. m \in H
  BY <1>1, <1>2, Induction
<1> QED
  BY <1>3 DEF H

(* FlattenSeq is the last of these concatenations.                         *)
LEMMA FlattenJoined ==
  ASSUME NEW q, Len(q) \in Nat \ {0}, NEW join, Joined(join, q, Len(q))
  PROVE  FlattenSeq(q) = join[Len(q)]
<1> DEFINE n == Len(q)
           it == CHOOSE f : Joined(f, q, n)
<1>1. Joined(it, q, n)
  BY Zenon
<1>2. FlattenSeq(q) = it[n]
  BY DEF FlattenSeq, Joined, Glue
<1> HIDE DEF it
<1>3. n <= n /\ \A i \in 1..n : q[i] = q[i]
  OBVIOUS
<1>4. it[n] = join[n]
  BY <1>1, <1>3, JoinedUnique
<1> QED
  BY <1>2, <1>4

(* Joining no sequences gives the empty one.                               *)
LEMMA FlattenEmpty == FlattenSeq(<<>>) = <<>>
BY DEF FlattenSeq

(* One sequence more: concatenated at the end.                             *)
LEMMA FlattenAppend ==
  ASSUME NEW S, NEW q \in Seq(Seq(S)), NEW s \in Seq(S)
  PROVE  FlattenSeq(Append(q, s)) = FlattenSeq(q) \o s
<1> DEFINE n == Len(q)
           r == Append(q, s)
<1>1. /\ n \in Nat /\ Len(r) = n + 1 /\ r[n + 1] = s /\ n + 1 \in Nat \ {0}
      /\ \A i \in 1..n : r[i] = q[i]
  BY AppendProperties, LenProperties
<1> HIDE DEF n, r
<1>2. PICK long : Joined(long, r, n + 1)
  BY <1>1, JoinedExists
<1>3. FlattenSeq(r) = long[n + 1]
  BY <1>1, <1>2, FlattenJoined
<1>4. CASE n = 0
  <2>1. q = <<>>
    BY <1>4, EmptySeq DEF n
  <2>2. long[1] = s
    BY <1>1, <1>2, <1>4 DEF Joined
  <2>3. <<>> \o s = s
    OBVIOUS
  <2> QED
    BY <1>3, <1>4, <2>1, <2>2, <2>3, FlattenEmpty DEF r
<1>5. CASE n # 0
  <2>1. PICK short : Joined(short, q, n)
    BY <1>1, <1>5, JoinedExists
  <2>2. short[n] = long[n]
    BY <1>1, <1>2, <1>5, <2>1, JoinedUnique
  <2>3. FlattenSeq(q) = short[n]
    BY <1>1, <1>5, <2>1, FlattenJoined DEF n
  <2>4. long[n + 1] = Glue(long[n], r[n + 1])
    BY <1>1, <1>2, <1>5 DEF Joined
  <2> QED
    BY <1>1, <1>3, <2>2, <2>3, <2>4 DEF r, Glue
<1> QED
  BY <1>4, <1>5

(* A concatenation of sequences over a set is one.                         *)
LEMMA FlattenType ==
  ASSUME NEW S, NEW q \in Seq(Seq(S))
  PROVE  FlattenSeq(q) \in Seq(S)
<1> DEFINE n == Len(q)
           first(k) == SubSeq(q, 1, k)
           H == {k \in 0..n : FlattenSeq(first(k)) \in Seq(S)}
<1>1. n \in Nat /\ first(n) = q /\ first(0) = <<>>
  BY LenProperties
<1>2. ASSUME NEW k \in 0..n, k < n
      PROVE  /\ first(k) \in Seq(Seq(S)) /\ q[k + 1] \in Seq(S)
             /\ first(k + 1) = Append(first(k), q[k + 1]) /\ k + 1 \in 0..n
  BY <1>1, <1>2, ElementOfSeq
<1> HIDE DEF n, first
<1>3. 0 \in H
  <2>1. FlattenSeq(first(0)) \in Seq(S)
    <3>1. FlattenSeq(first(0)) = <<>>
      BY <1>1, FlattenEmpty, Zenon
    <3>2. <<>> \in Seq(S)
      OBVIOUS
    <3> QED
      BY <3>1, <3>2, Zenon
  <2>2. 0 \in 0..n
    BY <1>1
  <2> QED
    BY <2>1, <2>2, Zenon
<1>4. ASSUME NEW k \in 0..n, k < n, k \in H PROVE k + 1 \in H
  <2>1. FlattenSeq(first(k + 1)) = FlattenSeq(first(k)) \o q[k + 1]
    BY <1>2, <1>4, FlattenAppend
  <2>2. FlattenSeq(first(k)) \in Seq(S) /\ q[k + 1] \in Seq(S) /\ k + 1 \in 0..n
    BY <1>2, <1>4
  <2>3. FlattenSeq(first(k)) \o q[k + 1] \in Seq(S)
    BY <2>2, ConcatProperties
  <2> QED
    BY <2>1, <2>2, <2>3
<1> HIDE DEF H
<1>5. n \in Nat /\ n \in 0..n
  BY <1>1
<1>6. \A k \in 0..n : k < n /\ k \in H => k + 1 \in H
  BY <1>4, Zenon
<1>7. n \in H
  BY <1>3, <1>5, <1>6, Induction, Zenon
<1> QED
  BY <1>1, <1>7 DEF H

(* A concatenation has the members of its parts, and no more of them than  *)
(* it has parts if none of these has more than one.                        *)
LEMMA FlattenMembers ==
  ASSUME NEW S, NEW q \in Seq(Seq(S))
  PROVE  /\ \A j \in 1..Len(q) : \A i \in 1..Len(q[j]) :
              \E k \in 1..Len(FlattenSeq(q)) : FlattenSeq(q)[k] = q[j][i]
         /\ (\A j \in 1..Len(q) : Len(q[j]) <= 1) => Len(FlattenSeq(q)) <= Len(q)
<1> DEFINE n == Len(q)
           first(k) == SubSeq(q, 1, k)
           flat(k) == FlattenSeq(first(k))
           Short == \A j \in 1..n : Len(q[j]) <= 1
           Has(k, x) == \E l \in 1..Len(flat(k)) : flat(k)[l] = x
           H == {k \in 0..n : /\ \A j \in 1..k : \A i \in 1..Len(q[j]) : Has(k, q[j][i])
                              /\ Short => Len(flat(k)) <= k}
<1>1. n \in Nat /\ first(n) = q /\ first(0) = <<>>
  BY LenProperties
<1>2. ASSUME NEW k \in 0..n, k < n
      PROVE  /\ first(k) \in Seq(Seq(S)) /\ q[k + 1] \in Seq(S)
             /\ first(k + 1) = Append(first(k), q[k + 1]) /\ k + 1 \in 0..n /\ k + 1 \in 1..n
  BY <1>1, <1>2, ElementOfSeq
<1> HIDE DEF n, first
<1>3. 0 \in H
  <2>1. flat(0) = <<>>
    BY <1>1, FlattenEmpty, Zenon
  <2>2. Len(flat(0)) <= 0
    BY <2>1
  <2>3. \A j \in 1..0 : FALSE
    OBVIOUS
  <2>4. 0 \in 0..n
    BY <1>1
  <2> HIDE DEF flat, Has
  <2> QED
    BY <2>2, <2>3, <2>4
<1>4. ASSUME NEW k \in 0..n, k < n, k \in H PROVE k + 1 \in H
  <2> DEFINE new == q[k + 1]
  <2>1. flat(k + 1) = flat(k) \o new
    BY <1>2, <1>4, FlattenAppend
  <2>2. flat(k) \in Seq(S) /\ new \in Seq(S)
    BY <1>2, <1>4, FlattenType
  <2>3. /\ \A j \in 1..k : \A i \in 1..Len(q[j]) : Has(k, q[j][i])
        /\ Short => Len(flat(k)) <= k
    BY <1>4
  <2> HIDE DEF flat
  <2>4. /\ Len(flat(k)) \in Nat /\ Len(new) \in Nat
        /\ Len(flat(k + 1)) = Len(flat(k)) + Len(new)
        /\ \A i \in 1..(Len(flat(k)) + Len(new)) :
             flat(k + 1)[i] = IF i <= Len(flat(k)) THEN flat(k)[i] ELSE new[i - Len(flat(k))]
    BY <2>1, <2>2, ConcatProperties, LenProperties
  <2>5. ASSUME NEW x, Has(k, x) PROVE Has(k + 1, x)
    <3>1. PICK l \in 1..Len(flat(k)) : flat(k)[l] = x
      BY <2>5
    <3>2. l \in 1..Len(flat(k + 1)) /\ flat(k + 1)[l] = x
      BY <2>4, <3>1
    <3> QED
      BY <3>2
  <2>6. ASSUME NEW i \in 1..Len(new) PROVE Has(k + 1, new[i])
    <3> DEFINE l == Len(flat(k)) + i
    <3>1. l \in 1..Len(flat(k + 1)) /\ ~(l <= Len(flat(k))) /\ l - Len(flat(k)) = i
          /\ l \in 1..(Len(flat(k)) + Len(new))
      BY <2>4
    <3> HIDE DEF l
    <3>2. flat(k + 1)[l] = new[i]
      BY <2>4, <3>1
    <3> QED
      BY <3>1, <3>2
  <2>7. ASSUME NEW j \in 1..(k + 1), NEW i \in 1..Len(q[j]) PROVE Has(k + 1, q[j][i])
    <3>1. CASE j = k + 1
      BY <2>6, <2>7, <3>1
    <3>2. CASE j # k + 1
      <4>1. j \in 1..k
        BY <1>1, <2>7, <3>2
      <4> HIDE DEF Has
      <4> QED
        BY <2>3, <2>5, <2>7, <4>1
    <3> QED
      BY <3>1, <3>2
  <2>8. Short => Len(flat(k + 1)) <= k + 1
    BY <1>2, <1>4, <2>3, <2>4
  <2> HIDE DEF Has, Short
  <2> QED
    BY <1>2, <1>4, <2>7, <2>8
<1> HIDE DEF H
<1>5. n \in Nat /\ n \in 0..n
  BY <1>1
<1>6. \A k \in 0..n : k < n /\ k \in H => k + 1 \in H
  BY <1>4, Zenon
<1>7. n \in H
  BY <1>3, <1>5, <1>6, Induction, Zenon
<1>8. flat(n) = FlattenSeq(q)
  BY <1>1
<1> QED
  BY <1>7, <1>8 DEF H, n

-----------------------------------------------------------------------------
(* Deleting from a sequence keeps its type.                                *)
LEMMA RemoveAtType ==
  ASSUME NEW S, NEW t \in Seq(S), NEW i \in 1..Len(t)
  PROVE  RemoveAt(t, i) \in Seq(S)
<1>1. SubSeq(t, 1, i - 1) \in Seq(S) /\ SubSeq(t, i + 1, Len(t)) \in Seq(S)
  OBVIOUS
<1> QED
  BY <1>1 DEF RemoveAt

(* RemoveAt drops one element and moves the later ones up by one.          *)
LEMMA RemoveAtIndex ==
  ASSUME NEW S, NEW t \in Seq(S), NEW i \in 1..Len(t)
  PROVE  /\ DOMAIN RemoveAt(t, i) = 1..(Len(t) - 1)
         /\ \A k \in 1..(Len(t) - 1) : RemoveAt(t, i)[k] = IF k < i THEN t[k] ELSE t[k + 1]
<1> DEFINE n == Len(t)
           left == SubSeq(t, 1, i - 1)
           right == SubSeq(t, i + 1, n)
<1>1. n \in Nat /\ i \in 1..n /\ \A k \in 1..n : t[k] \in S
  BY LenProperties, ElementOfSeq
<1>2. RemoveAt(t, i) = left \o right
  BY DEF RemoveAt
<1> HIDE DEF n
<1>3. /\ left \in Seq(S) /\ Len(left) = i - 1
      /\ \A k \in 1..(i - 1) : left[k] = t[k]
  <2>1. \A k \in 1..(i - 1) : t[k] \in S
    BY <1>1
  <2>2. i - 1 \in Int /\ (1 <= i - 1 \/ i - 1 = 0)
    BY <1>1
  <2> QED
    BY <1>1, <2>1, <2>2, SubSeqProperties
<1>4. /\ right \in Seq(S) /\ Len(right) = n - i
      /\ \A k \in 1..(n - i) : right[k] = t[k + i]
  <2>1. \A k \in (i + 1)..n : t[k] \in S
    BY <1>1
  <2>2. /\ i + 1 \in Int /\ n \in Int
        /\ (IF i + 1 <= n THEN n - (i + 1) + 1 ELSE 0) = n - i /\ n - (i + 1) + 1 = n - i
    BY <1>1
  <2>3. /\ right \in Seq(S) /\ Len(right) = n - i
        /\ \A k \in 1..(n - i) : right[k] = t[(i + 1) + k - 1]
    BY <2>1, <2>2, SubSeqProperties
  <2>4. \A k \in 1..(n - i) : (i + 1) + k - 1 = k + i
    BY <1>1
  <2> QED
    BY <2>3, <2>4
<1> HIDE DEF left, right
<1>5. /\ Len(left \o right) = n - 1 /\ left \o right \in Seq(S)
      /\ \A k \in 1..(n - 1) : (left \o right)[k] = IF k <= i - 1 THEN left[k]
                                                    ELSE right[k - (i - 1)]
  <2>1. Len(left) + Len(right) = n - 1
    BY <1>1, <1>3, <1>4
  <2>2. /\ left \o right \in Seq(S)
        /\ Len(left \o right) = Len(left) + Len(right)
        /\ \A k \in 1..(Len(left) + Len(right)) :
             (left \o right)[k] = IF k <= Len(left) THEN left[k] ELSE right[k - Len(left)]
    BY <1>3, <1>4, ConcatProperties
  <2> QED
    BY <1>3, <2>1, <2>2
<1>6. \A k \in 1..(n - 1) : (left \o right)[k] = IF k < i THEN t[k] ELSE t[k + 1]
  <2> SUFFICES ASSUME NEW k \in 1..(n - 1)
               PROVE  (left \o right)[k] = IF k < i THEN t[k] ELSE t[k + 1]
    OBVIOUS
  <2>1. CASE k < i
    BY <1>1, <1>3, <1>5, <2>1
  <2>2. CASE ~(k < i)
    <3>1. k - (i - 1) \in 1..(n - i) /\ (k - (i - 1)) + i = k + 1 /\ ~(k <= i - 1)
      BY <1>1, <2>2
    <3> QED
      BY <1>4, <1>5, <2>2, <3>1
  <2> QED
    BY <2>1, <2>2
<1> QED
  BY <1>2, <1>5, <1>6, LenProperties DEF n
=============================================================================
